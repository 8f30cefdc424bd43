----------------------------- MODULE UFifoProofs ----------------------------
(***************************************************************************)
(* Proofs about UFifo, for any producers, one consumer, any number of      *)
(* elements and tags of any width.  The LIFO of empty elements is right    *)
(* for the reason that URingProofs gives.  On the FIFO, a push is right    *)
(* whatever the tags are: it writes next of its own element only, and what *)
(* it found at the tail is all that it uses.  A pop reads elements that it *)
(* does not own, and what it saw of them stays true while nobody else pops:*)
(* the first element is still the first, and the one it found next to it   *)
(* still the second (Traced).  With two consumers that is lost, and the run*)
(* ufifo_consumers shows what happens.                                     *)
(***************************************************************************)
EXTENDS UFifo, URingProofs

(* The FIFO has one consumer.                                              *)
Single == \A c, d \in Consumers : c = d

(* Where a thread may be: in uring_fifo_push or in uring_fifo_pop, besides *)
(* the places of the LIFO.                                                 *)
Filling == {"fload", "flink", "fgive"}
Taking == {"one", "find", "head", "behead"}
Owner == {"set"} \cup Pushing \cup Filling
Places == {"idle"} \cup Popping \cup Taking \cup Owner

Registered(t) ==
    /\ mine[t] # NULL <=> pc[t] \in Owner
    /\ pc[t] \in Popping \cup Filling => op[t] = "push"
    /\ pc[t] \in Pushing \cup Taking => op[t] = "pop"
    /\ pc[t] \in Popping => old[t] # Nil
    /\ pc[t] \in {"link", "give"} => new[t] = Described(mine[t])
    /\ pc[t] = "give" => next[mine[t]] = old[t].index

(* A FIFO from the element first to the element last.                      *)
Ends(first, last) == WithHead(WithTail(FifoNil, last), first)

QueueIntact ==
    /\ \A k, m \in 1..Len(queue) : queue[k] = queue[m] => k = m
    /\ \A i \in Index :
         where[i] = "fifo_carrier" <=> \E k \in 1..Len(queue) : queue[k] = i
    /\ queue = <<>> => fifo = FifoNil
    /\ queue # <<>> => fifo = Ends(queue[1], queue[Len(queue)])
    /\ \A k \in 1..(Len(queue) - 1) : next[queue[k + 1]] = queue[k]

(* A push about to try its compare-and-swap has linked its element to the  *)
(* tail that it saw, and its new descriptor has that element at the tail.  *)
Ready(t) ==
    pc[t] = "fgive" =>
      /\ next[mine[t]] = seen[t].tail
      /\ made[t] = IF seen[t].tail = NULL THEN Ends(mine[t], mine[t])
                   ELSE WithTail(seen[t], mine[t])

(* What the consumer in the middle of a pop knows of the FIFO, which has   *)
(* maybe grown since it loaded the descriptor.                             *)
Traced(t) ==
    pc[t] \in Taking =>
      /\ t \in Consumers
      /\ queue # <<>> /\ seen[t].head = queue[1]
      /\ pc[t] = "one" => seen[t].tail = seen[t].head
      /\ pc[t] = "find" => \E k \in 2..Len(queue) : cursor[t] = queue[k]
      /\ pc[t] \in {"head", "behead"} => Len(queue) >= 2 /\ cursor[t] = queue[2]
      /\ pc[t] = "behead" => made[t] = WithHead(seen[t], cursor[t])

(* Which elements are filled, and which threads have an object in hand.    *)
Filled ==
    /\ \A i \in On("fifo_carrier") : opaque[i] # None
    /\ \A i \in On("lifo_empty") : opaque[i] = None

Argued(t) ==
    /\ pc[t] = "set" => (opaque[mine[t]] = None <=> op[t] = "push")
    /\ pc[t] \in Filling => opaque[mine[t]] # None
    /\ pc[t] \in Pushing => opaque[mine[t]] = None
    /\ arg[t] # None <=> \/ op[t] = "push" /\ pc[t] \in Popping \cup {"set"}
                         \/ pc[t] \in Pushing

(* All that is to know of one thread.                                      *)
Known(t) ==
    /\ Registered(t) /\ Snapshot(t, "lifo_empty")
    /\ Ready(t) /\ Traced(t) /\ Argued(t)

IInv ==
    /\ TypeOK /\ pc \in [Threads -> Places]
    /\ Chained("lifo_empty") /\ Handed
    /\ QueueIntact /\ Filled
    /\ \A t \in Threads : Known(t)

-----------------------------------------------------------------------------
(* The words that the FIFO and its threads hold are well formed.           *)
LEMMA WordForm ==
    ASSUME NEW S, NEW d \in [tail : S, ttag : S, head : S, htag : S], NEW i
    PROVE  /\ WithTail(d, i) = [tail |-> i, ttag |-> LowTag(i), head |-> d.head, htag |-> d.htag]
           /\ WithHead(d, i) = [tail |-> d.tail, ttag |-> d.ttag, head |-> i, htag |-> LowTag(i)]
<1>1. PICK n : n = LowTag(i)
  OBVIOUS
<1>2. WithTail(d, i) = [d EXCEPT !.tail = i, !.ttag = n]
  BY <1>1 DEF WithTail
<1>3. WithHead(d, i) = [d EXCEPT !.head = i, !.htag = n]
  BY <1>1 DEF WithHead
<1>4. [d EXCEPT !.tail = i, !.ttag = n] = [tail |-> i, ttag |-> n, head |-> d.head, htag |-> d.htag]
  <2>1. PICK e : e = [d EXCEPT !.tail = i, !.ttag = n]
    OBVIOUS
  <2>2. e \in [tail : S \cup {i}, ttag : S \cup {n}, head : S, htag : S]
    BY <2>1
  <2>3. e.tail = i /\ e.ttag = n /\ e.head = d.head /\ e.htag = d.htag
    BY <2>1
  <2> QED BY <2>1, <2>2, <2>3
<1>5. [d EXCEPT !.head = i, !.htag = n] = [tail |-> d.tail, ttag |-> d.ttag, head |-> i, htag |-> n]
  <2>1. PICK e : e = [d EXCEPT !.head = i, !.htag = n]
    OBVIOUS
  <2>2. e \in [tail : S, ttag : S, head : S \cup {i}, htag : S \cup {n}]
    BY <2>1
  <2>3. e.tail = d.tail /\ e.ttag = d.ttag /\ e.head = i /\ e.htag = n
    BY <2>1
  <2> QED BY <2>1, <2>2, <2>3
<1> QED BY <1>1, <1>2, <1>3, <1>4, <1>5

LEMMA EndsType ==
    ASSUME RingTypeOK, NEW i \in Index, NEW j \in Index
    PROVE  /\ Ends(i, j) = [tail |-> j, ttag |-> LowTag(j), head |-> i, htag |-> LowTag(i)]
           /\ Ends(i, j) \in FifoDescriptors
           /\ Ends(i, j) # FifoNil
           /\ WithTail(WithHead(FifoNil, i), j) = Ends(i, j)
<1>1. \A k \in Index : LowTag(k) \in 0..(FifoTagMod - 1)
  BY RingAssumption, FifoAssumption DEF RingTypeOK, LowTag
<1> DEFINE S == Int \cup {LowTag(i), LowTag(j)}
<1>0. FifoNil \in [tail : S, ttag : S, head : S, htag : S] /\ i \in S /\ j \in S
  BY DEF FifoNil, Index, NULL
<1> HIDE DEF S
<1>a. /\ FifoNil.tail = NULL /\ FifoNil.head = NULL
      /\ FifoNil.ttag = 0 /\ FifoNil.htag = 0
  BY DEF FifoNil
<1>b. LowTag(i) \in S /\ LowTag(j) \in S /\ NULL \in S /\ 0 \in S
  BY DEF S, NULL
<1>c. /\ WithTail(FifoNil, j) = [tail |-> j, ttag |-> LowTag(j), head |-> NULL, htag |-> 0]
      /\ WithHead(FifoNil, i) = [tail |-> NULL, ttag |-> 0, head |-> i, htag |-> LowTag(i)]
  BY <1>0, <1>a, WordForm
<1>2. Ends(i, j) = [tail |-> j, ttag |-> LowTag(j), head |-> i, htag |-> LowTag(i)]
  <2>1. WithTail(FifoNil, j) \in [tail : S, ttag : S, head : S, htag : S]
    BY <1>0, <1>b, <1>c
  <2> QED BY <1>c, <2>1, WordForm DEF Ends
<1>3. Ends(i, j) # FifoNil
  BY <1>2 DEF FifoNil, Index, NULL
<1>4. WithTail(WithHead(FifoNil, i), j) = Ends(i, j)
  <2>1. WithHead(FifoNil, i) \in [tail : S, ttag : S, head : S, htag : S]
    BY <1>0, <1>b, <1>c
  <2> QED BY <1>2, <1>c, <2>1, WordForm
<1> QED BY <1>1, <1>2, <1>3, <1>4 DEF FifoDescriptors

LEMMA WordType ==
    ASSUME RingTypeOK, NEW d \in FifoDescriptors, NEW i \in Index
    PROVE  /\ d.tail = NULL <=> d = FifoNil
           /\ d.head = NULL <=> d = FifoNil
           /\ d.tail \in Index \cup {NULL}
           /\ d.head \in Index \cup {NULL}
           /\ d # FifoNil => /\ WithTail(d, i) \in FifoDescriptors
                             /\ WithHead(d, i) \in FifoDescriptors
<1>1. LowTag(i) \in 0..(FifoTagMod - 1)
  BY RingAssumption, FifoAssumption DEF RingTypeOK, LowTag
<1>2. CASE d = FifoNil
  BY <1>2 DEF FifoNil, NULL
<1>3. CASE d # FifoNil
  <2>1. d \in [tail : Index, ttag : 0..(FifoTagMod - 1), head : Index, htag : 0..(FifoTagMod - 1)]
    BY <1>3 DEF FifoDescriptors
  <2>2. d.tail \in Index /\ d.head \in Index /\ NULL \notin Index
    BY <2>1 DEF Index, NULL
  <2>3. WithTail(d, i) \in FifoDescriptors
    BY <1>1, <2>1 DEF FifoDescriptors, WithTail
  <2>4. WithHead(d, i) \in FifoDescriptors
    BY <1>1, <2>1 DEF FifoDescriptors, WithHead
  <2> QED BY <1>3, <2>2, <2>3, <2>4
<1> QED BY <1>2, <1>3

(* The two ends of the FIFO, as its descriptor says them.                  *)
LEMMA EndsOfQueue ==
    ASSUME IInv
    PROVE  /\ Len(queue) \in Nat /\ \A k \in 1..Len(queue) : queue[k] \in Index
           /\ queue = <<>> <=> fifo = FifoNil
           /\ queue # <<>> =>
                /\ Len(queue) >= 1
                /\ fifo.head = queue[1] /\ fifo.tail = queue[Len(queue)]
                /\ fifo.head = fifo.tail => Len(queue) = 1
<1>1. Len(queue) \in Nat /\ \A k \in 1..Len(queue) : queue[k] \in Index
  BY DEF IInv, TypeOK
<1>2. CASE queue = <<>>
  BY <1>1, <1>2 DEF IInv, QueueIntact
<1>3. CASE queue # <<>>
  <2>1. Len(queue) >= 1
    BY <1>1, <1>3 DEF IInv, TypeOK
  <2>2. queue[1] \in Index /\ queue[Len(queue)] \in Index
    BY <1>1, <2>1
  <2>3. fifo = Ends(queue[1], queue[Len(queue)])
    BY <1>3 DEF IInv, QueueIntact
  <2>4. fifo.head = queue[1] /\ fifo.tail = queue[Len(queue)] /\ fifo # FifoNil
    BY <2>2, <2>3, EndsType DEF IInv, TypeOK
  <2>5. fifo.head = fifo.tail => Len(queue) = 1
    <3>1. 1 \in 1..Len(queue) /\ Len(queue) \in 1..Len(queue)
      BY <1>1, <2>1
    <3>2. queue[1] = queue[Len(queue)] => 1 = Len(queue)
      BY <3>1 DEF IInv, QueueIntact
    <3> QED BY <2>4, <3>2
  <2> QED BY <1>1, <1>3, <2>1, <2>4, <2>5
<1> QED BY <1>2, <1>3

(* Threads are none of the lists.                                          *)
LEMMA Names ==
    /\ "lifo_empty" \in Lists /\ "lifo_empty" \notin Threads
    /\ "fifo_carrier" \notin Threads
    /\ None \notin Objects
    /\ Producers \subseteq Threads /\ Consumers \subseteq Threads
BY RingAssumption, FifoAssumption

LEMMA InitInv == Init => IInv
<1> SUFFICES ASSUME Init PROVE IInv
  OBVIOUS
<1>1. TypeOK
  <2>1. RingTypeOK
    BY RingAssumption, FifoAssumption
    DEF Init, RingInit, RingTypeOK, Descriptors, Nil, Index, NULL
  <2>2. FifoNil \in FifoDescriptors /\ 0 \in 0..Length
    BY RingAssumption DEF FifoDescriptors
  <2> QED BY <2>1, <2>2 DEF Init, RingInit, TypeOK
<1>2. pc \in [Threads -> Places]
  BY DEF Init, RingInit, Places
<1>3. Chained("lifo_empty")
  BY InitChained, Names DEF Init
<1>4. Handed
  BY Names DEF Init, RingInit, Handed, Index, NULL
<1>5. QueueIntact /\ Filled
  BY DEF Init, RingInit, QueueIntact, Filled, On
<1>6. \A t \in Threads : Known(t)
  BY DEF Init, RingInit, Known, Registered, Snapshot, Fresh, Ready, Traced, Argued,
     Owner, Popping, Pushing, Filling, Taking
<1> QED BY <1>1, <1>2, <1>3, <1>4, <1>5, <1>6 DEF IInv

-----------------------------------------------------------------------------
(* A step of t writes no registers but its own, and changes tag, next and  *)
(* opaque of an element that is its own only; an element that it does not  *)
(* have goes nowhere but to t, which comes to set it.                      *)
Frame(t) ==
    /\ \A u \in Threads \ {t} :
         /\ pc'[u] = pc[u] /\ op'[u] = op[u] /\ arg'[u] = arg[u]
         /\ old'[u] = old[u] /\ succ'[u] = succ[u] /\ new'[u] = new[u]
         /\ mine'[u] = mine[u]
         /\ seen'[u] = seen[u] /\ made'[u] = made[u] /\ cursor'[u] = cursor[u]
    /\ \A j \in Index : where[j] # t =>
         /\ tag'[j] = tag[j] /\ next'[j] = next[j] /\ opaque'[j] = opaque[j]
         /\ where'[j] = where[j] \/ (where'[j] = t /\ pc'[t] = "set")
    /\ pc[t] = "set" => NotFullCircle(mine[t], tag'[mine[t]])
    /\ pc[t] # "set" => tag' = tag

(* An owner has its element, which is on no list.                          *)
LEMMA OwnElement ==
    ASSUME IInv, NEW t \in Threads, pc[t] \in Owner
    PROVE  /\ mine[t] \in Index /\ where[mine[t]] = t
           /\ mine[t] \notin On("lifo_empty") /\ mine[t] \notin On("fifo_carrier")
           /\ \A i \in On("lifo_empty") : next[i] # mine[t]
           /\ \A u \in Threads \ {t} : mine[u] # mine[t]
           /\ \A j \in Index : where[j] = t <=> j = mine[t]
<1>1. mine[t] \in Index /\ where[mine[t]] = t
  BY DEF IInv, TypeOK, RingTypeOK, Known, Registered, Handed
<1>2. mine[t] \notin On("lifo_empty") /\ mine[t] \notin On("fifo_carrier")
  BY <1>1, Names DEF On
<1>3. \A i \in On("lifo_empty") : next[i] # mine[t]
  BY <1>1, <1>2 DEF IInv, Chained, Index, NULL
<1>4. \A u \in Threads \ {t} : mine[u] # mine[t]
  BY <1>1 DEF IInv, Handed
<1>5. \A j \in Index : where[j] = t <=> j = mine[t]
  BY DEF IInv, Handed
<1> QED BY <1>1, <1>2, <1>3, <1>4, <1>5

(* Such a step leaves true what the other threads know of the empty        *)
(* elements: one that they saw there, its tag unchanged, is not t's.       *)
LEMMA SnapshotKept ==
    ASSUME IInv, NEW t \in Threads, Frame(t), NEW u \in Threads \ {t}
    PROVE  Snapshot(u, "lifo_empty")'
<1> DEFINE k == old[u].index
<1> SUFFICES ASSUME Fresh(u)'
             PROVE  Snapshot(u, "lifo_empty")'
  BY DEF Snapshot
<1>1. pc'[u] = pc[u] /\ old'[u] = old[u] /\ succ'[u] = succ[u] /\ new'[u] = new[u]
  BY DEF Frame
<1>2. pc[u] \in Popping /\ k \in Index /\ old[u] = [tag |-> old[u].tag, index |-> k]
  BY <1>1, DescriptorIndex
  DEF Fresh, IInv, TypeOK, RingTypeOK, Known, Registered, Descriptors, Nil
<1>3. tag'[k] = old[u].tag
  BY <1>1 DEF Fresh
<1>4. Snapshot(u, "lifo_empty")
  BY DEF IInv, Known
<1>5. Fresh(u) /\ where[k] # t
  <2>1. CASE pc[t] = "set"
    <3>1. k # mine[t]
      BY <1>2, <1>3, <2>1 DEF Frame, NotFullCircle
    <3>2. where[k] # t
      BY <1>2, <3>1 DEF IInv, Handed
    <3> QED BY <1>2, <1>3, <3>2 DEF Frame, Fresh
  <2>2. CASE pc[t] # "set"
    <3>1. Fresh(u)
      BY <1>2, <1>3, <2>2 DEF Frame, Fresh
    <3> QED BY <3>1, <1>4, <2>2, Names DEF Snapshot
  <2> QED BY <2>1, <2>2
<1>6. \/ where[k] = "lifo_empty"
      \/ \E w \in Threads \ {t} : where[k] = w /\ pc[w] = "set"
  BY <1>4, <1>5 DEF Snapshot
<1>7. where'[k] = where[k] \/ (where'[k] = t /\ pc'[t] = "set")
  BY <1>2, <1>5 DEF Frame
<1>8. where'[k] = "lifo_empty" \/ \E w \in Threads : where'[k] = w /\ pc'[w] = "set"
  BY <1>6, <1>7 DEF Frame
<1>9. ASSUME where'[k] = "lifo_empty"
      PROVE  /\ pc[u] = "tag" => succ[u] = next'[k]
             /\ pc[u] = "swap" => new[u] = Described(next[k])'
  <2>1. where[k] = "lifo_empty" /\ k \in On("lifo_empty")
    BY <1>2, <1>7, <1>9, Names DEF On
  <2>2. next'[k] = next[k]
    BY <1>2, <2>1, Names DEF Frame
  <2>3. next[k] = NULL \/ next[k] \in On("lifo_empty")
    BY <2>1 DEF IInv, Chained
  <2>4. Described(next[k])' = Described(next[k])
    BY <2>2, <2>3, Names DEF Described, On, Frame
  <2> QED BY <1>4, <1>5, <2>1, <2>2, <2>4 DEF Snapshot
<1> QED BY <1>1, <1>8, <1>9 DEF Snapshot

(* What they know of the element of their own, and of the object in hand.  *)
LEMMA OwnKept ==
    ASSUME IInv, NEW t \in Threads, Frame(t), NEW u \in Threads \ {t}
    PROVE  Registered(u)' /\ Ready(u)' /\ Argued(u)'
<1>1. /\ pc'[u] = pc[u] /\ op'[u] = op[u] /\ arg'[u] = arg[u]
      /\ old'[u] = old[u] /\ new'[u] = new[u] /\ mine'[u] = mine[u]
      /\ seen'[u] = seen[u] /\ made'[u] = made[u]
  BY DEF Frame
<1>2. Known(u)
  BY DEF IInv
<1>3. CASE pc[u] \in Owner
  <2>1. PICK i : i = mine[u] /\ i \in Index /\ where[i] = u
    BY <1>3, OwnElement
  <2>2. tag'[i] = tag[i] /\ next'[i] = next[i] /\ opaque'[i] = opaque[i]
    BY <2>1 DEF Frame
  <2>3. /\ Described(i)' = Described(i) /\ Ends(i, i)' = Ends(i, i)
        /\ \A d : WithTail(d, i)' = WithTail(d, i)
    BY <2>2 DEF Described, Ends, WithHead, WithTail, LowTag
  <2> QED BY <1>1, <1>2, <2>1, <2>2, <2>3 DEF Known, Registered, Ready, Argued
<1>4. CASE pc[u] \notin Owner
  BY <1>1, <1>2, <1>4 DEF Known, Registered, Ready, Argued, Owner, Pushing, Filling
<1> QED BY <1>3, <1>4

(* What the consumer knows of the FIFO, while others only push.            *)
LEMMA TracedKept ==
    ASSUME IInv, Single, NEW t \in Threads, Frame(t), NEW u \in Threads \ {t},
           queue' = queue \/ (\E i \in Index : queue' = Append(queue, i)) \/ t \in Consumers
    PROVE  Traced(u)'
<1>1. pc'[u] = pc[u] /\ seen'[u] = seen[u] /\ made'[u] = made[u] /\ cursor'[u] = cursor[u]
  BY DEF Frame
<1> SUFFICES ASSUME pc[u] \in Taking
             PROVE  Traced(u)'
  BY <1>1 DEF Traced
<1>2. Traced(u) /\ u \in Consumers /\ t \notin Consumers
  BY DEF IInv, Known, Traced, Single
<1>3. /\ Len(queue) \in Nat /\ Len(queue)' \in Nat /\ Len(queue)' >= Len(queue)
      /\ \A k \in 1..Len(queue) : queue'[k] = queue[k]
      /\ Len(queue) >= 1 /\ queue' # <<>>
  <2>1. Len(queue) \in Nat /\ Len(queue) >= 1 /\ queue \in Seq(Index) /\ queue # <<>>
    BY <1>2, EndsOfQueue DEF Traced, IInv, TypeOK
  <2>2. queue' = queue \/ \E i \in Index : queue' = Append(queue, i)
    BY <1>2
  <2>3. CASE queue' = queue
    BY <2>1, <2>3
  <2>4. CASE \E i \in Index : queue' = Append(queue, i)
    <3>1. PICK i \in Index : queue' = Append(queue, i)
      BY <2>4
    <3> QED BY <2>1, <3>1
  <2> QED BY <2>2, <2>3, <2>4
<1>4. seen[u].head = queue'[1]
  BY <1>2, <1>3 DEF Traced
<1>5. pc[u] = "find" => \E k \in 2..Len(queue)' : cursor[u] = queue'[k]
  <2> SUFFICES ASSUME pc[u] = "find"
               PROVE  \E k \in 2..Len(queue)' : cursor[u] = queue'[k]
    OBVIOUS
  <2>1. PICK k \in 2..Len(queue) : cursor[u] = queue[k]
    BY <1>2 DEF Traced
  <2>2. k \in 2..Len(queue)' /\ queue'[k] = queue[k]
    BY <1>3, <2>1
  <2> QED BY <2>1, <2>2
<1>6. pc[u] \in {"head", "behead"} => Len(queue)' >= 2 /\ cursor[u] = queue'[2]
  BY <1>2, <1>3 DEF Traced
<1>7. pc[u] = "behead" => made[u] = WithHead(seen[u], cursor[u])'
  <2> SUFFICES ASSUME pc[u] = "behead"
               PROVE  made[u] = WithHead(seen[u], cursor[u])'
    OBVIOUS
  <2>1. 2 \in 1..Len(queue) /\ cursor[u] = queue[2] /\ made[u] = WithHead(seen[u], cursor[u])
    BY <1>2, <1>3 DEF Traced
  <2>2. queue[2] \in Index /\ where[queue[2]] # t
    BY <2>1, EndsOfQueue, Names DEF IInv, QueueIntact
  <2>3. LowTag(cursor[u])' = LowTag(cursor[u])
    BY <1>1, <2>1, <2>2 DEF Frame, LowTag
  <2> QED BY <1>1, <2>1, <2>3 DEF WithHead
<1> QED BY <1>1, <1>2, <1>3, <1>4, <1>5, <1>6, <1>7 DEF Traced

LEMMA OthersKnow ==
    ASSUME IInv, Single, NEW t \in Threads, Frame(t),
           queue' = queue \/ (\E i \in Index : queue' = Append(queue, i)) \/ t \in Consumers
    PROVE  \A u \in Threads \ {t} : Known(u)'
BY SnapshotKept, OwnKept, TracedKept DEF Known

(* The lists, when no element moves.                                       *)
LEMMA EmptyKept ==
    ASSUME IInv, NEW t \in Threads, Frame(t), UNCHANGED <<lifo, depth>>,
           \A i \in Index : where'[i] = "lifo_empty" <=> where[i] = "lifo_empty"
    PROVE  Chained("lifo_empty")'
<1>1. \A i \in On("lifo_empty") : tag'[i] = tag[i] /\ next'[i] = next[i]
  BY Names DEF On, Frame
<1> QED BY <1>1, ChainKept DEF IInv, TypeOK

LEMMA QueueKept ==
    ASSUME IInv, NEW t \in Threads, Frame(t), UNCHANGED <<fifo, queue>>,
           \A i \in Index : where'[i] = "fifo_carrier" <=> where[i] = "fifo_carrier"
    PROVE  QueueIntact'
<1>1. \A k \in 1..Len(queue) :
        /\ queue[k] \in Index /\ where[queue[k]] # t
        /\ tag'[queue[k]] = tag[queue[k]] /\ next'[queue[k]] = next[queue[k]]
  BY EndsOfQueue, Names DEF IInv, QueueIntact, Frame
<1>2. Len(queue) \in Nat
  BY EndsOfQueue
<1>3. queue # <<>> => Ends(queue[1], queue[Len(queue)])' = Ends(queue[1], queue[Len(queue)])
  <2> SUFFICES ASSUME queue # <<>>
               PROVE  Ends(queue[1], queue[Len(queue)])' = Ends(queue[1], queue[Len(queue)])
    OBVIOUS
  <2>1. 1 \in 1..Len(queue) /\ Len(queue) \in 1..Len(queue)
    BY <1>2, EndsOfQueue
  <2> QED BY <1>1, <2>1 DEF Ends, WithHead, WithTail, LowTag
<1>4. \A k \in 1..(Len(queue) - 1) : next'[queue'[k + 1]] = queue'[k]
  <2> TAKE k \in 1..(Len(queue) - 1)
  <2>1. k + 1 \in 1..Len(queue)
    BY <1>2
  <2> QED BY <1>1, <2>1 DEF IInv, QueueIntact
<1> QED BY <1>3, <1>4 DEF IInv, QueueIntact

LEMMA FilledKept ==
    ASSUME IInv, NEW t \in Threads, Frame(t), UNCHANGED where
    PROVE  Filled'
BY Names DEF IInv, Filled, On, Frame

LEMMA HandedKept ==
    ASSUME IInv, UNCHANGED <<where, mine>>
    PROVE  Handed'
BY DEF IInv, Handed

(* A step that moves no element keeps the invariant if its thread knows    *)
(* what it has to afterwards.                                              *)
LEMMA LocalStep ==
    ASSUME IInv, Single, NEW t \in Threads, Frame(t),
           UNCHANGED <<lifo, where, depth, mine, fifo, queue>>,
           TypeOK', pc' \in [Threads -> Places], Known(t)'
    PROVE  IInv'
BY OthersKnow, EmptyKept, QueueKept, FilledKept, HandedKept DEF IInv

-----------------------------------------------------------------------------
(* Elsewhere a thread has no element.                                      *)
LEMMA Unowned ==
    ASSUME IInv, NEW t \in Threads, pc[t] \notin Owner
    PROVE  mine[t] = NULL
BY DEF IInv, Known, Registered

(* A load of the descriptor of the LIFO, by a push that holds no element.  *)
LEMMA TryTopKnows ==
    ASSUME IInv, NEW t \in Threads, TryTop(t, "lifo_empty"), mine[t] = NULL,
           UNCHANGED <<tag, next, opaque, lifo, where, depth, mine>>,
           op'[t] = "push"
    PROVE  /\ old' \in [Threads -> Descriptors]
           /\ succ' \in [Threads -> Index \cup {NULL}]
           /\ new' \in [Threads -> Descriptors]
           /\ pc' \in [Threads -> Places]
           /\ \A u \in Threads \ {t} :
                old'[u] = old[u] /\ succ'[u] = succ[u] /\ new'[u] = new[u] /\ pc'[u] = pc[u]
           /\ pc'[t] = IF lifo["lifo_empty"] = Nil THEN "idle" ELSE "next"
           /\ Registered(t)' /\ Snapshot(t, "lifo_empty")' /\ Ready(t)' /\ Traced(t)'
<1>1. lifo["lifo_empty"] \in Descriptors /\ Nil \in Descriptors
  BY Names DEF IInv, TypeOK, RingTypeOK, Descriptors
<1>2. /\ old' = [old EXCEPT ![t] = lifo["lifo_empty"]]
      /\ succ' = [succ EXCEPT ![t] = NULL]
      /\ new' = [new EXCEPT ![t] = Nil]
      /\ pc' = [pc EXCEPT ![t] = IF lifo["lifo_empty"] = Nil THEN "idle" ELSE "next"]
  BY DEF TryTop, Registers, Goto
<1>3. /\ old' \in [Threads -> Descriptors] /\ old'[t] = lifo["lifo_empty"]
      /\ succ' \in [Threads -> Index \cup {NULL}]
      /\ new' \in [Threads -> Descriptors]
      /\ pc' \in [Threads -> Places]
      /\ pc'[t] = IF lifo["lifo_empty"] = Nil THEN "idle" ELSE "next"
  BY <1>1, <1>2 DEF IInv, TypeOK, RingTypeOK, Places, Popping
<1>4. \A u \in Threads \ {t} :
        old'[u] = old[u] /\ succ'[u] = succ[u] /\ new'[u] = new[u] /\ pc'[u] = pc[u]
  BY <1>2 DEF IInv, TypeOK, RingTypeOK
<1>5. Registered(t)' /\ Ready(t)' /\ Traced(t)'
  BY <1>3 DEF Registered, Ready, Traced, Popping, Pushing, Filling, Taking, Owner
<1>6. Snapshot(t, "lifo_empty")'
  BY <1>3 DEF IInv, Snapshot, Fresh, Popping, Chained, On, Described
<1> QED BY <1>3, <1>4, <1>5, <1>6

(* uring_fifo_pop starts, or starts over.                                  *)
LEMMA StartOverKnows ==
    ASSUME IInv, NEW t \in Consumers, StartOver(t), mine[t] = NULL, arg[t] = None,
           UNCHANGED <<tag, next, opaque, lifo, where, depth, mine, fifo, queue, arg>>,
           op'[t] = "pop"
    PROVE  /\ seen' \in [Threads -> FifoDescriptors] /\ made' \in [Threads -> FifoDescriptors]
           /\ cursor' \in [Threads -> Index \cup {NULL}] /\ tries' \in [Threads -> 0..Length]
           /\ pc' \in [Threads -> Places]
           /\ \A u \in Threads \ {t} :
                seen'[u] = seen[u] /\ made'[u] = made[u] /\ cursor'[u] = cursor[u] /\ pc'[u] = pc[u]
           /\ Known(t)'
<1>0. t \in Threads /\ arg'[t] = None
  BY Names
<1>1. PICK s, c, n, p :
        /\ p \in {"idle", "one", "find"}
        /\ s = IF p = "idle" THEN FifoNil ELSE fifo
        /\ p # "idle" => queue # <<>>
        /\ p = "one" => fifo.head = fifo.tail
        /\ p = "find" => fifo.head # fifo.tail /\ c = fifo.tail
        /\ p # "find" => c = NULL
        /\ n \in 0..Length
        /\ pc' = [pc EXCEPT ![t] = p]
        /\ FifoRegisters(t, s, FifoNil, c, n)
  <2>1. 0 \in 0..Length /\ Length \in 0..Length
    BY RingAssumption
  <2>2. queue = <<>> <=> fifo = FifoNil
    BY EndsOfQueue
  <2> QED BY <2>1, <2>2 DEF StartOver, Goto
<1>2. p = "find" => \E k \in 2..Len(queue) : c = queue[k]
  <2> SUFFICES ASSUME p = "find"
               PROVE  \E k \in 2..Len(queue) : c = queue[k]
    OBVIOUS
  <2>1. /\ Len(queue) \in Nat /\ Len(queue) >= 1
        /\ fifo.head = queue[1] /\ fifo.tail = queue[Len(queue)] /\ c = fifo.tail
        /\ queue[1] # queue[Len(queue)]
    BY <1>1, EndsOfQueue
  <2>2. Len(queue) # 1 /\ Len(queue) \in 2..Len(queue)
    BY <2>1
  <2> QED BY <2>1, <2>2
<1>3. c \in Index \cup {NULL} /\ s \in FifoDescriptors /\ FifoNil \in FifoDescriptors
  <2>1. fifo \in FifoDescriptors /\ FifoNil \in FifoDescriptors
    BY DEF IInv, TypeOK, FifoDescriptors
  <2>2. p = "find" => c \in Index
    BY <1>2, EndsOfQueue
  <2> QED BY <1>1, <2>1, <2>2
<1>4. /\ seen' = [seen EXCEPT ![t] = s] /\ made' = [made EXCEPT ![t] = FifoNil]
      /\ cursor' = [cursor EXCEPT ![t] = c] /\ tries' = [tries EXCEPT ![t] = n]
      /\ pc' = [pc EXCEPT ![t] = p]
  BY <1>1 DEF FifoRegisters
<1>5. /\ seen' \in [Threads -> FifoDescriptors] /\ made' \in [Threads -> FifoDescriptors]
      /\ cursor' \in [Threads -> Index \cup {NULL}] /\ tries' \in [Threads -> 0..Length]
      /\ pc' \in [Threads -> Places]
  BY <1>1, <1>3, <1>4 DEF IInv, TypeOK, Places, Taking
<1>6. \A u \in Threads \ {t} :
        seen'[u] = seen[u] /\ made'[u] = made[u] /\ cursor'[u] = cursor[u] /\ pc'[u] = pc[u]
  BY <1>4 DEF IInv, TypeOK
<1>7. pc'[t] = p /\ seen'[t] = s /\ cursor'[t] = c
  BY <1>0, <1>4 DEF IInv, TypeOK
<1>8. Registered(t)' /\ Snapshot(t, "lifo_empty")' /\ Ready(t)' /\ Argued(t)'
  BY <1>0, <1>1, <1>7 DEF Registered, Snapshot, Fresh, Ready, Argued, Popping, Pushing, Filling,
     Taking, Owner
<1>9. Traced(t)'
  <2>1. p # "idle" => s = fifo /\ fifo.head = queue[1]
    BY <1>1, EndsOfQueue
  <2> QED BY <1>1, <1>2, <1>7, <2>1 DEF Traced, Taking
<1> QED BY <1>5, <1>6, <1>8, <1>9 DEF Known

-----------------------------------------------------------------------------
LEMMA CallPushInv ==
    ASSUME IInv, Single, NEW t \in Threads, NEW v \in outside, CallPush(t, v)
    PROVE  IInv'
<1> USE DEF CallPush, fifoVars
<1>1. mine[t] = NULL
  BY Unowned DEF Owner, Pushing, Filling
<1>2. op'[t] = "push" /\ TryTop(t, "lifo_empty") /\ pc[t] = "idle"
  BY DEF IInv, TypeOK
<1>3. /\ old' \in [Threads -> Descriptors]
      /\ succ' \in [Threads -> Index \cup {NULL}]
      /\ new' \in [Threads -> Descriptors]
      /\ pc' \in [Threads -> Places]
      /\ \A u \in Threads \ {t} :
           old'[u] = old[u] /\ succ'[u] = succ[u] /\ new'[u] = new[u] /\ pc'[u] = pc[u]
      /\ pc'[t] = IF lifo["lifo_empty"] = Nil THEN "idle" ELSE "next"
      /\ Registered(t)' /\ Snapshot(t, "lifo_empty")' /\ Ready(t)' /\ Traced(t)'
  BY <1>1, <1>2, TryTopKnows
<1>4. TypeOK'
  BY <1>3 DEF IInv, TypeOK, RingTypeOK
<1>5. Frame(t)
  BY <1>2, <1>3 DEF Frame, IInv, TypeOK
<1>6. Argued(t)'
  <2>1. arg[t] = None
    BY <1>2 DEF IInv, Known, Argued, Popping, Pushing
  <2>2. arg'[t] # None <=> pc'[t] = "next"
    BY <1>3, <2>1, Names DEF IInv, TypeOK
  <2> QED BY <1>2, <1>3, <2>2 DEF Argued, Popping, Pushing, Filling
<1> QED BY <1>3, <1>4, <1>5, <1>6, LocalStep DEF Known

LEMMA CallPopInv ==
    ASSUME IInv, Single, NEW t \in Consumers, CallPop(t)
    PROVE  IInv'
<1> USE DEF CallPop
<1>1. mine[t] = NULL /\ t \in Threads /\ arg[t] = None
  BY Unowned, Names DEF Owner, Pushing, Filling, IInv, Known, Argued, Popping
<1>2. op'[t] = "pop" /\ StartOver(t) /\ pc[t] = "idle"
  BY <1>1 DEF IInv, TypeOK
<1>3. /\ seen' \in [Threads -> FifoDescriptors] /\ made' \in [Threads -> FifoDescriptors]
      /\ cursor' \in [Threads -> Index \cup {NULL}] /\ tries' \in [Threads -> 0..Length]
      /\ pc' \in [Threads -> Places]
      /\ \A u \in Threads \ {t} :
           seen'[u] = seen[u] /\ made'[u] = made[u] /\ cursor'[u] = cursor[u] /\ pc'[u] = pc[u]
      /\ Known(t)'
  BY <1>1, <1>2, StartOverKnows
<1>4. TypeOK'
  BY <1>3 DEF IInv, TypeOK, RingTypeOK
<1>5. Frame(t)
  BY <1>2, <1>3 DEF Frame, IInv, TypeOK
<1> QED BY <1>1, <1>3, <1>4, <1>5, LocalStep

LEMMA PopNextInv ==
    ASSUME IInv, Single, NEW t \in Threads, PopNext(t), UNCHANGED <<fifoVars, objectVars>>
    PROVE  IInv'
<1> USE DEF PopNext, Goto, fifoVars, objectVars
<1>1. old[t].index \in Index
  BY DescriptorIndex DEF IInv, TypeOK, RingTypeOK, Known, Registered, Popping
<1>2. TypeOK' /\ pc' \in [Threads -> Places]
  BY <1>1 DEF IInv, TypeOK, RingTypeOK, Places, Popping
<1>3. Frame(t)
  BY DEF Frame, IInv, TypeOK, RingTypeOK
<1>4. pc'[t] = "tag" /\ succ'[t] = next[old[t].index]
  BY DEF IInv, TypeOK, RingTypeOK
<1>5. Known(t)
  BY DEF IInv
<1>6. Registered(t)' /\ Ready(t)' /\ Traced(t)' /\ Argued(t)'
  BY <1>4, <1>5 DEF Known, Registered, Ready, Traced, Argued, Popping, Pushing, Filling, Taking,
     Owner
<1>7. Snapshot(t, "lifo_empty")'
  <2>1. \A u \in Threads : pc[u] = "set" => pc'[u] = "set"
    BY DEF IInv
  <2> QED BY <1>4, <1>5, <2>1 DEF Known, Snapshot, Fresh, Popping
<1> QED BY <1>2, <1>3, <1>6, <1>7, LocalStep DEF Known

LEMMA PopTagInv ==
    ASSUME IInv, Single, NEW t \in Threads, PopTag(t), UNCHANGED <<fifoVars, objectVars>>
    PROVE  IInv'
<1> USE DEF PopTag, Goto, fifoVars, objectVars
<1>1. Described(succ[t]) \in Descriptors
  BY DescribedType DEF IInv, TypeOK, RingTypeOK
<1>2. TypeOK' /\ pc' \in [Threads -> Places]
  BY <1>1 DEF IInv, TypeOK, RingTypeOK, Places, Popping
<1>3. Frame(t)
  BY DEF Frame, IInv, TypeOK, RingTypeOK
<1>4. pc'[t] = "swap" /\ new'[t] = Described(succ[t])
  BY DEF IInv, TypeOK, RingTypeOK
<1>5. Known(t)
  BY DEF IInv
<1>6. Registered(t)' /\ Ready(t)' /\ Traced(t)' /\ Argued(t)'
  BY <1>4, <1>5 DEF Known, Registered, Ready, Traced, Argued, Popping, Pushing, Filling, Taking,
     Owner
<1>7. Snapshot(t, "lifo_empty")'
  <2>1. \A u \in Threads : pc[u] = "set" => pc'[u] = "set"
    BY DEF IInv
  <2> QED BY <1>4, <1>5, <2>1 DEF Known, Snapshot, Fresh, Popping, Described
<1> QED BY <1>2, <1>3, <1>6, <1>7, LocalStep DEF Known

LEMMA PushLoadInv ==
    ASSUME IInv, Single, NEW t \in Threads, PushLoad(t, "lifo_empty"),
           UNCHANGED <<fifoVars, objectVars>>
    PROVE  IInv'
<1> USE DEF PushLoad, Goto, Registers, fifoVars, objectVars
<1>1. /\ Described(mine[t]) \in Descriptors
      /\ lifo["lifo_empty"] \in Descriptors
  BY DescribedType, Names DEF IInv, TypeOK, RingTypeOK
<1>2. TypeOK' /\ pc' \in [Threads -> Places]
  BY <1>1 DEF IInv, TypeOK, RingTypeOK, Places, Pushing, Owner
<1>3. Frame(t)
  BY DEF Frame, IInv, TypeOK, RingTypeOK
<1>4. pc'[t] = "link" /\ new'[t] = Described(mine[t])
  BY DEF IInv, TypeOK, RingTypeOK
<1>5. Known(t)
  BY DEF IInv
<1>6. Registered(t)' /\ Ready(t)' /\ Traced(t)' /\ Argued(t)'
  BY <1>4, <1>5 DEF Known, Registered, Ready, Traced, Argued, Popping, Pushing, Filling, Taking,
     Owner, Described
<1>7. Snapshot(t, "lifo_empty")'
  BY <1>4 DEF Snapshot, Fresh, Popping
<1> QED BY <1>2, <1>3, <1>6, <1>7, LocalStep DEF Known

LEMMA PushLinkInv ==
    ASSUME IInv, Single, NEW t \in Threads, PushLink(t), UNCHANGED <<fifoVars, objectVars>>
    PROVE  IInv'
<1> USE DEF PushLink, Goto, fifoVars, objectVars
<1> DEFINE i == mine[t]
<1>1. i \in Index /\ where[i] = t
  BY OwnElement DEF Owner, Pushing
<1>2. old[t].index \in Index \cup {NULL}
  BY DescriptorIndex DEF IInv, TypeOK, RingTypeOK
<1>3. TypeOK' /\ pc' \in [Threads -> Places]
  BY <1>1, <1>2 DEF IInv, TypeOK, RingTypeOK, Places, Pushing, Owner
<1>4. Frame(t)
  BY <1>1 DEF Frame, IInv, TypeOK, RingTypeOK
<1>5. pc'[t] = "give" /\ next'[i] = old[t].index
  BY <1>1 DEF IInv, TypeOK, RingTypeOK
<1>6. Known(t)
  BY DEF IInv
<1>7. Registered(t)' /\ Ready(t)' /\ Traced(t)' /\ Argued(t)'
  BY <1>5, <1>6 DEF Known, Registered, Ready, Traced, Argued, Popping, Pushing, Filling, Taking,
     Owner, Described
<1>8. Snapshot(t, "lifo_empty")'
  BY <1>5 DEF Snapshot, Fresh, Popping
<1> QED BY <1>3, <1>4, <1>7, <1>8, LocalStep DEF Known

LEMMA SetInv ==
    ASSUME IInv, Single, NEW t \in Threads, Set(t)
    PROVE  IInv'
<1> USE DEF Set, ElemSet, Goto, fifoVars
<1> DEFINE i == mine[t]
           n == (tag[i] + 1) % TagMod
<1>1. i \in Index /\ where[i] = t /\ \A j \in Index : where[j] = t <=> j = i
  BY OwnElement DEF Owner
<1>2. n \in 0..(TagMod - 1)
  BY <1>1, RingAssumption DEF IInv, TypeOK, RingTypeOK
<1> HIDE DEF n
<1>3. /\ tag' = [tag EXCEPT ![i] = n] /\ NotFullCircle(i, n)
      /\ opaque' = [opaque EXCEPT ![i] = IF op[t] = "push" THEN arg[t] ELSE None]
      /\ arg' = [arg EXCEPT ![t] = IF op[t] = "push" THEN None ELSE opaque[i]]
      /\ pc' = [pc EXCEPT ![t] = IF op[t] = "push" THEN "fload" ELSE "load"]
  BY DEF n
<1>4. arg[t] \in Objects \cup {None} /\ opaque[i] \in Objects \cup {None}
  BY <1>1 DEF IInv, TypeOK
<1>5. TypeOK' /\ pc' \in [Threads -> Places]
  BY <1>1, <1>2, <1>3, <1>4
  DEF IInv, TypeOK, RingTypeOK, Places, Owner, Pushing, Filling
<1>6. Frame(t)
  BY <1>1, <1>3 DEF Frame, IInv, TypeOK, RingTypeOK
<1>7. /\ pc'[t] = IF op[t] = "push" THEN "fload" ELSE "load"
      /\ arg'[t] = IF op[t] = "push" THEN None ELSE opaque[i]
      /\ opaque'[i] = IF op[t] = "push" THEN arg[t] ELSE None
  BY <1>1, <1>3 DEF IInv, TypeOK
<1>8. Known(t)
  BY DEF IInv
<1>9. Registered(t)' /\ Ready(t)' /\ Traced(t)' /\ Snapshot(t, "lifo_empty")'
  BY <1>7, <1>8 DEF Known, Registered, Snapshot, Fresh, Ready, Traced, Popping, Pushing, Filling,
     Taking, Owner, IInv, TypeOK
<1>10. Argued(t)'
  BY <1>7, <1>8 DEF Known, Argued, Popping, Pushing, Filling, IInv, TypeOK
<1> QED BY <1>5, <1>6, <1>9, <1>10, LocalStep DEF Known

(* What a push has in its hands once the empty element is taken.           *)
LEMMA SwapKnows ==
    ASSUME IInv, NEW t \in Threads, pc[t] = "swap", lifo["lifo_empty"] = old[t],
           NEW i, i = old[t].index
    PROVE  /\ i \in On("lifo_empty") /\ i \in Index /\ where[i] = "lifo_empty"
           /\ i = lifo["lifo_empty"].index /\ old[t] # Nil
           /\ new[t] = Described(next[i])
           /\ op[t] = "push" /\ opaque[i] = None /\ mine[t] = NULL
<1>1. old[t] # Nil /\ Snapshot(t, "lifo_empty") /\ Chained("lifo_empty") /\ op[t] = "push"
  BY DEF IInv, Known, Registered, Popping
<1>2. /\ i \in On("lifo_empty") /\ i \in Index /\ where[i] = "lifo_empty"
      /\ i = lifo["lifo_empty"].index
      /\ new[t] = Described(next[i])
  BY <1>1, SwapSeesTop
<1>3. opaque[i] = None /\ mine[t] = NULL
  BY <1>2, Unowned DEF IInv, Filled, Owner, Pushing, Filling
<1> QED BY <1>1, <1>2, <1>3

LEMMA TakeInv ==
    ASSUME IInv, Single, NEW t \in Threads, Take(t)
    PROVE  IInv'
<1> DEFINE i == old[t].index
<1>1. PopSwap(t, "lifo_empty") /\ pc[t] = "swap" /\ UNCHANGED <<op, fifoVars>>
  BY DEF Take, PopSwap
<1>2. /\ mine[t] = NULL /\ op[t] = "push" /\ arg[t] \in Objects /\ t # "lifo_empty"
      /\ t # "fifo_carrier" /\ Known(t)
  BY <1>1, Unowned, Names
  DEF IInv, Known, Registered, Argued, TypeOK, Popping, Owner, Pushing, Filling
<1>3. CASE lifo["lifo_empty"] # old[t]
  <2>1. TryTop(t, "lifo_empty") /\ UNCHANGED <<tag, next, opaque, lifo, mine, where, depth>>
    BY <1>1, <1>3 DEF PopSwap
  <2>2. /\ old' \in [Threads -> Descriptors]
        /\ succ' \in [Threads -> Index \cup {NULL}]
        /\ new' \in [Threads -> Descriptors]
        /\ pc' \in [Threads -> Places]
        /\ \A u \in Threads \ {t} :
             old'[u] = old[u] /\ succ'[u] = succ[u] /\ new'[u] = new[u] /\ pc'[u] = pc[u]
        /\ pc'[t] = IF lifo["lifo_empty"] = Nil THEN "idle" ELSE "next"
        /\ Registered(t)' /\ Snapshot(t, "lifo_empty")' /\ Ready(t)' /\ Traced(t)'
    BY <1>1, <1>2, <2>1, TryTopKnows
  <2>3. TypeOK'
    BY <1>1, <1>2, <2>1, <2>2 DEF IInv, TypeOK, RingTypeOK, Take, fifoVars
  <2>4. Frame(t)
    BY <1>1, <2>1, <2>2 DEF Frame, IInv, TypeOK, Take, fifoVars
  <2>5. Argued(t)'
    BY <1>1, <1>2, <2>2, Names
    DEF Argued, Take, IInv, TypeOK, Popping, Pushing, Filling
  <2> QED BY <1>1, <2>1, <2>2, <2>3, <2>4, <2>5, LocalStep DEF Known, fifoVars
<1>4. CASE lifo["lifo_empty"] = old[t]
  <2>1. /\ i \in On("lifo_empty") /\ i \in Index /\ where[i] = "lifo_empty"
        /\ i = lifo["lifo_empty"].index /\ old[t] # Nil
        /\ new[t] = Described(next[i]) /\ opaque[i] = None
    BY <1>1, <1>4, SwapKnows
  <2>2. /\ lifo' = [lifo EXCEPT !["lifo_empty"] = new[t]]
        /\ mine' = [mine EXCEPT ![t] = i]
        /\ where' = [where EXCEPT ![i] = t]
        /\ depth' = [depth EXCEPT ![i] = 0]
        /\ Registers(t, Nil, NULL, Nil)
        /\ pc' = [pc EXCEPT ![t] = "set"]
        /\ UNCHANGED <<tag, next, opaque, op, fifo, queue, seen, made, cursor, tries>>
    BY <1>1, <1>4 DEF PopSwap, Goto, fifoVars
  <2>3. pc'[t] = "set" /\ UNCHANGED <<arg, outside>>
    BY <2>2 DEF IInv, Take
  <2>4. TypeOK' /\ pc' \in [Threads -> Places]
    BY <2>1, <2>2, <2>3, Names
    DEF IInv, TypeOK, RingTypeOK, Registers, Descriptors, Places, Owner
  <2>5. Chained("lifo_empty")'
    <3>1. where \in [Index -> {"lifo_empty", "fifo_carrier"} \cup Threads]
      BY DEF IInv, TypeOK
    <3>2. Chained("lifo_empty") /\ RingTypeOK /\ lifo["lifo_empty"] # Nil
      BY <2>1, <1>4 DEF IInv, TypeOK
    <3> QED BY <1>2, <2>1, <2>2, <3>1, <3>2, Names, ChainPop
  <2>6. /\ mine'[t] = i /\ where'[i] = t
        /\ \A u \in Threads \ {t} :
             /\ pc'[u] = pc[u] /\ mine'[u] = mine[u]
             /\ old'[u] = old[u] /\ succ'[u] = succ[u] /\ new'[u] = new[u]
        /\ \A j \in Index \ {i} : where'[j] = where[j]
    BY <2>1, <2>2 DEF IInv, TypeOK, RingTypeOK, Registers
  <2>7. Handed'
    BY <1>2, <2>1, <2>6, Names DEF IInv, Handed, Index, NULL
  <2>8. Frame(t)
    BY <1>1, <2>2, <2>3, <2>6 DEF Frame
  <2>9. QueueIntact'
    BY <1>2, <2>1, <2>2, <2>6, <2>8, QueueKept
  <2>10. Filled'
    BY <1>2, <2>2, <2>6 DEF IInv, Filled, On
  <2>11. Known(t)'
    <3>1. op'[t] = "push" /\ arg'[t] # None /\ opaque'[mine'[t]] = None /\ mine'[t] # NULL
      BY <1>2, <2>1, <2>2, <2>3, <2>6, Names DEF Index, NULL
    <3> QED BY <2>3, <3>1
    DEF Known, Registered, Snapshot, Fresh, Ready, Traced, Argued, Popping, Pushing, Filling,
        Taking, Owner
  <2>12. \A u \in Threads \ {t} : Known(u)'
    BY <2>2, <2>8, OthersKnow
  <2> QED BY <2>4, <2>5, <2>7, <2>9, <2>10, <2>11, <2>12 DEF IInv
<1> QED BY <1>3, <1>4

LEMMA GiveInv ==
    ASSUME IInv, Single, NEW t \in Threads, Give(t)
    PROVE  IInv'
<1> DEFINE i == mine[t]
<1>1. PushSwap(t, "lifo_empty") /\ pc[t] = "give" /\ UNCHANGED <<op, fifoVars>>
  BY DEF Give, PushSwap
<1>2. /\ i \in Index /\ where[i] = t /\ i # NULL
      /\ i \notin On("lifo_empty") /\ i \notin On("fifo_carrier")
      /\ \A u \in Threads \ {t} : mine[u] # i
      /\ \A j \in Index : where[j] = t <=> j = i
  BY <1>1, OwnElement DEF Owner, Pushing, Index, NULL
<1>3. /\ new[t] = Described(i) /\ next[i] = old[t].index /\ op[t] = "pop"
      /\ opaque[i] = None /\ arg[t] \in Objects /\ Known(t)
  BY <1>1 DEF IInv, Known, Registered, Argued, TypeOK, Pushing
<1>4. CASE lifo["lifo_empty"] # old[t]
  <2>1. /\ Registers(t, lifo["lifo_empty"], NULL, new[t])
        /\ pc' = [pc EXCEPT ![t] = "link"]
        /\ UNCHANGED <<tag, next, opaque, lifo, where, depth, mine, op>>
    BY <1>1, <1>4 DEF PushSwap, Goto
  <2>2. pc'[t] = "link" /\ UNCHANGED <<arg, outside>>
    BY <2>1 DEF IInv, Give
  <2>3. TypeOK' /\ pc' \in [Threads -> Places]
    BY <1>1, <2>1, <2>2, Names
    DEF IInv, TypeOK, RingTypeOK, Registers, Places, Pushing, Owner, fifoVars
  <2>4. Frame(t)
    BY <1>1, <2>1, <2>2 DEF Frame, IInv, TypeOK, RingTypeOK, Registers, fifoVars
  <2>5. Known(t)'
    <3>1. new'[t] = Described(i)' /\ mine'[t] = i /\ op'[t] = "pop" /\ opaque'[i] = None
          /\ arg'[t] # None
      BY <1>3, <2>1, <2>2, Names DEF IInv, TypeOK, RingTypeOK, Registers, Described
    <3> QED BY <1>2, <2>2, <3>1
    DEF Known, Registered, Snapshot, Fresh, Ready, Traced, Argued, Popping, Pushing, Filling,
        Taking, Owner
  <2> QED BY <1>1, <2>1, <2>3, <2>4, <2>5, LocalStep DEF fifoVars
<1>5. CASE lifo["lifo_empty"] = old[t]
  <2>1. /\ lifo' = [lifo EXCEPT !["lifo_empty"] = Described(i)]
        /\ where' = [where EXCEPT ![i] = "lifo_empty"]
        /\ depth' = [depth EXCEPT ![i] =
                        IF lifo["lifo_empty"] = Nil THEN 1 ELSE depth[lifo["lifo_empty"].index] + 1]
        /\ mine' = [mine EXCEPT ![t] = NULL]
        /\ Registers(t, Nil, NULL, Nil)
        /\ pc' = [pc EXCEPT ![t] = "idle"]
        /\ UNCHANGED <<tag, next, opaque, op, fifo, queue, seen, made, cursor, tries>>
    BY <1>1, <1>3, <1>5 DEF PushSwap, Goto, fifoVars
  <2>2. /\ pc'[t] = "idle" /\ arg' = [arg EXCEPT ![t] = None]
        /\ outside' = outside \cup ({arg[t]} \ {None})
    BY <2>1 DEF IInv, Give
  <2>3. TypeOK' /\ pc' \in [Threads -> Places]
    <3>1. Described(i) \in Descriptors
      BY <1>2, DescribedType DEF IInv, TypeOK
    <3>2. depth' \in [Index -> Nat]
      <4>1. lifo["lifo_empty"] # Nil => lifo["lifo_empty"].index \in Index
        BY Names, DescriptorIndex DEF IInv, TypeOK, RingTypeOK
      <4>2. (IF lifo["lifo_empty"] = Nil THEN 1 ELSE depth[lifo["lifo_empty"].index] + 1) \in Nat
        BY <4>1 DEF IInv, TypeOK, RingTypeOK
      <4> QED BY <2>1, <4>2 DEF IInv, TypeOK, RingTypeOK
    <3>3. /\ lifo' \in [Lists -> Descriptors]
          /\ where' \in [Index -> {"lifo_empty", "fifo_carrier"} \cup Threads]
      BY <2>1, <3>1 DEF IInv, TypeOK, RingTypeOK
    <3>4. /\ old' \in [Threads -> Descriptors] /\ new' \in [Threads -> Descriptors]
          /\ succ' \in [Threads -> Index \cup {NULL}]
      BY <2>1 DEF IInv, TypeOK, RingTypeOK, Registers, Descriptors
    <3>5. arg' \in [Threads -> Objects \cup {None}] /\ outside' \subseteq Objects
      BY <1>3, <2>2 DEF IInv, TypeOK
    <3>6. pc' \in [Threads -> Places]
      BY <2>1 DEF IInv, Places
    <3> QED BY <2>1, <3>2, <3>3, <3>4, <3>5, <3>6 DEF IInv, TypeOK, RingTypeOK
  <2>4. Chained("lifo_empty")'
    <3>1. /\ Chained("lifo_empty") /\ RingTypeOK /\ i \notin On("lifo_empty")
          /\ next[i] = lifo["lifo_empty"].index
      BY <1>2, <1>3, <1>5 DEF IInv, TypeOK
    <3>2. where \in [Index -> {"lifo_empty", "fifo_carrier"} \cup Threads]
      BY DEF IInv, TypeOK
    <3> QED BY <1>2, <2>1, <3>1, <3>2, ChainPush, Names
  <2>5. /\ mine'[t] = NULL /\ where'[i] = "lifo_empty" /\ arg'[t] = None
        /\ \A u \in Threads \ {t} :
             /\ pc'[u] = pc[u] /\ mine'[u] = mine[u] /\ arg'[u] = arg[u]
             /\ old'[u] = old[u] /\ succ'[u] = succ[u] /\ new'[u] = new[u]
        /\ \A j \in Index \ {i} : where'[j] = where[j]
    BY <1>2, <2>1, <2>2 DEF IInv, TypeOK, RingTypeOK, Registers
  <2>6. Handed'
    BY <1>2, <2>5, Names DEF IInv, Handed, Index, NULL
  <2>7. Frame(t)
    BY <1>1, <1>2, <2>1, <2>5 DEF Frame
  <2>8. QueueIntact'
    BY <1>2, <2>1, <2>5, <2>7, QueueKept, Names
  <2>9. Filled'
    BY <1>2, <1>3, <2>1, <2>5 DEF IInv, Filled, On
  <2>10. Known(t)'
    BY <2>2, <2>5
    DEF Known, Registered, Snapshot, Fresh, Ready, Traced, Argued, Popping, Pushing, Filling,
        Taking, Owner
  <2>11. \A u \in Threads \ {t} : Known(u)'
    BY <2>1, <2>7, OthersKnow
  <2> QED BY <2>3, <2>4, <2>6, <2>8, <2>9, <2>10, <2>11 DEF IInv
<1> QED BY <1>4, <1>5

-----------------------------------------------------------------------------
LEMMA FifoLoadInv ==
    ASSUME IInv, Single, NEW t \in Threads, FifoLoad(t)
    PROVE  IInv'
<1> USE DEF FifoLoad, FifoRegisters, Goto, objectVars
<1>1. FifoNil \in FifoDescriptors /\ 0 \in 0..Length
  BY RingAssumption DEF FifoDescriptors
<1>2. TypeOK' /\ pc' \in [Threads -> Places]
  BY <1>1 DEF IInv, TypeOK, RingTypeOK, Places, Filling, Owner
<1>3. Frame(t)
  BY DEF Frame, IInv, TypeOK, RingTypeOK
<1>4. pc'[t] = "flink" /\ Known(t)
  BY DEF IInv, TypeOK
<1>5. Known(t)'
  BY <1>4 DEF Known, Registered, Snapshot, Fresh, Ready, Traced, Argued, Popping, Pushing, Filling,
     Taking, Owner
<1> QED BY <1>2, <1>3, <1>5, LocalStep

LEMMA FifoLinkInv ==
    ASSUME IInv, Single, NEW t \in Threads, FifoLink(t)
    PROVE  IInv'
<1> DEFINE i == mine[t]
           d == IF seen[t].tail = NULL THEN WithHead(seen[t], i) ELSE seen[t]
<1>1. i \in Index /\ where[i] = t /\ seen[t] \in FifoDescriptors /\ RingTypeOK
  BY OwnElement DEF FifoLink, Owner, Filling, IInv, TypeOK
<1>2. /\ seen[t].tail \in Index \cup {NULL} /\ (seen[t].tail = NULL <=> seen[t] = FifoNil)
      /\ seen[t] # FifoNil => WithTail(seen[t], i) \in FifoDescriptors
  BY <1>1, WordType
<1>3. PICK m : m = WithTail(d, i)
  OBVIOUS
<1>4. /\ m = IF seen[t].tail = NULL THEN Ends(i, i) ELSE WithTail(seen[t], i)
      /\ m \in FifoDescriptors
  BY <1>1, <1>2, <1>3, EndsType
<1>5. /\ next' = [next EXCEPT ![i] = seen[t].tail]
      /\ seen' = [seen EXCEPT ![t] = seen[t]] /\ made' = [made EXCEPT ![t] = m]
      /\ cursor' = [cursor EXCEPT ![t] = NULL] /\ tries' = [tries EXCEPT ![t] = 0]
      /\ pc' = [pc EXCEPT ![t] = "fgive"] /\ pc[t] = "flink"
      /\ UNCHANGED <<tag, opaque, lifo, where, depth, old, succ, new, mine, fifo, queue,
                     op, arg, outside>>
  BY <1>3 DEF FifoLink, FifoRegisters, Goto, objectVars
<1>6. 0 \in 0..Length
  BY RingAssumption
<1>7. TypeOK' /\ pc' \in [Threads -> Places]
  BY <1>1, <1>2, <1>4, <1>5, <1>6 DEF IInv, TypeOK, RingTypeOK, Places, Filling, Owner
<1>8. Frame(t)
  BY <1>1, <1>5 DEF Frame, IInv, TypeOK, RingTypeOK
<1>9. /\ pc'[t] = "fgive" /\ next'[i] = seen[t].tail /\ seen'[t] = seen[t] /\ made'[t] = m
      /\ Known(t)
  BY <1>1, <1>5 DEF IInv, TypeOK, RingTypeOK
<1>10. Ready(t)'
  <2>1. Ends(i, i)' = Ends(i, i) /\ WithTail(seen[t], i)' = WithTail(seen[t], i)
    BY <1>5, <1>9 DEF Ends, WithHead, WithTail, LowTag
  <2> QED BY <1>4, <1>5, <1>9, <2>1 DEF Ready
<1>11. Registered(t)' /\ Snapshot(t, "lifo_empty")' /\ Traced(t)' /\ Argued(t)'
  BY <1>5, <1>9 DEF Known, Registered, Snapshot, Fresh, Traced, Argued, Popping, Pushing, Filling,
     Taking, Owner
<1> QED BY <1>5, <1>7, <1>8, <1>10, <1>11, LocalStep DEF Known

(* A successful compare-and-swap of a push: the element goes behind the    *)
(* last one.                                                               *)
LEMMA FifoGiveKnows ==
    ASSUME IInv, NEW t \in Threads, FifoGive(t), fifo = seen[t], NEW i, i = mine[t]
    PROVE  /\ i \in Index /\ where[i] = t /\ op[t] = "push" /\ opaque[i] # None
           /\ \A k \in 1..Len(queue) : queue[k] # i
           /\ queue # <<>> => next[i] = queue[Len(queue)]
           /\ made[t] = IF queue = <<>> THEN Ends(i, i) ELSE Ends(queue[1], i)
<1>1. /\ i \in Index /\ where[i] = t /\ \A u \in Threads \ {t} : mine[u] # i
      /\ op[t] = "push" /\ opaque[i] # None /\ RingTypeOK
      /\ next[i] = seen[t].tail
      /\ made[t] = IF seen[t].tail = NULL THEN Ends(i, i) ELSE WithTail(seen[t], i)
  BY OwnElement DEF FifoGive, Owner, Filling, IInv, Known, Registered, Ready, Argued, TypeOK
<1>2. \A k \in 1..Len(queue) : queue[k] # i
  BY <1>1, EndsOfQueue, Names DEF IInv, QueueIntact
<1>3. CASE queue = <<>>
  BY <1>1, <1>2, <1>3 DEF IInv, QueueIntact, FifoNil
<1>4. CASE queue # <<>>
  <2>1. Len(queue) \in Nat /\ Len(queue) >= 1
    BY <1>4, EndsOfQueue
  <2>2. PICK a, b \in Index : a = queue[1] /\ b = queue[Len(queue)]
    BY <2>1, EndsOfQueue
  <2>3. /\ seen[t] = [tail |-> b, ttag |-> LowTag(b), head |-> a, htag |-> LowTag(a)]
        /\ seen[t] \in FifoDescriptors
    BY <1>1, <1>4, <2>2, EndsType DEF IInv, QueueIntact
  <2>4. seen[t].tail = b /\ b # NULL
    BY <2>3 DEF Index, NULL
  <2>5. seen[t] # FifoNil
    BY <2>4 DEF FifoNil
  <2>6. \A k \in Index : LowTag(k) \in Nat
    BY <1>1, RingAssumption, FifoAssumption DEF RingTypeOK, LowTag
  <2>7. seen[t] \in [tail : Nat, ttag : Nat, head : Nat, htag : Nat]
    BY <2>3, <2>6 DEF Index
  <2>8. WithTail(seen[t], i) = [tail |-> i, ttag |-> LowTag(i), head |-> a, htag |-> LowTag(a)]
    <3>1. WithTail(seen[t], i) =
            [tail |-> i, ttag |-> LowTag(i), head |-> seen[t].head, htag |-> seen[t].htag]
      BY <2>7, WordForm
    <3> QED BY <3>1, <2>3
  <2>9. WithTail(seen[t], i) = Ends(a, i)
    BY <1>1, <2>8, EndsType
  <2> QED BY <1>1, <1>2, <1>4, <2>2, <2>4, <2>9
<1> QED BY <1>3, <1>4

LEMMA FifoGiveInv ==
    ASSUME IInv, Single, NEW t \in Threads, FifoGive(t)
    PROVE  IInv'
<1> DEFINE i == mine[t]
<1>0. /\ pc[t] = "fgive" /\ Known(t) /\ 0 \in 0..Length /\ FifoNil \in FifoDescriptors
      /\ fifo \in FifoDescriptors
  BY RingAssumption DEF FifoGive, IInv, TypeOK, FifoDescriptors
<1>1. CASE fifo # seen[t]
  <2>1. /\ FifoRegisters(t, fifo, FifoNil, NULL, 0) /\ pc' = [pc EXCEPT ![t] = "flink"]
        /\ UNCHANGED <<tag, next, opaque, lifo, where, depth, old, succ, new, mine, fifo, queue,
                       op, arg, outside>>
    BY <1>1 DEF FifoGive, Goto, objectVars
  <2>2. TypeOK' /\ pc' \in [Threads -> Places]
    BY <1>0, <2>1 DEF IInv, TypeOK, RingTypeOK, FifoRegisters, Places, Filling, Owner
  <2>3. Frame(t)
    BY <1>0, <2>1 DEF Frame, IInv, TypeOK, FifoRegisters
  <2>4. pc'[t] = "flink"
    BY <2>1 DEF IInv
  <2>5. Known(t)'
    BY <1>0, <2>1, <2>4 DEF Known, Registered, Snapshot, Fresh, Ready, Traced, Argued, Popping,
       Pushing, Filling, Taking, Owner
  <2> QED BY <2>1, <2>2, <2>3, <2>5, LocalStep
<1>2. CASE fifo = seen[t]
  <2>1. /\ i \in Index /\ where[i] = t /\ op[t] = "push" /\ opaque[i] # None
        /\ \A k \in 1..Len(queue) : queue[k] # i
        /\ queue # <<>> => next[i] = queue[Len(queue)]
        /\ made[t] = IF queue = <<>> THEN Ends(i, i) ELSE Ends(queue[1], i)
    BY <1>2, FifoGiveKnows
  <2>2. /\ fifo' = made[t] /\ queue' = Append(queue, i)
        /\ where' = [where EXCEPT ![i] = "fifo_carrier"]
        /\ mine' = [mine EXCEPT ![t] = NULL]
        /\ FifoRegisters(t, FifoNil, FifoNil, NULL, 0) /\ pc' = [pc EXCEPT ![t] = "idle"]
        /\ UNCHANGED <<tag, next, opaque, lifo, depth, old, succ, new, op, arg, outside>>
    BY <1>2 DEF FifoGive, Goto, objectVars
  <2>3. TypeOK' /\ pc' \in [Threads -> Places]
    <3>1. made[t] \in FifoDescriptors /\ queue' \in Seq(Index)
      BY <2>1, <2>2 DEF IInv, TypeOK
    <3> QED BY <1>0, <2>1, <2>2, <3>1 DEF IInv, TypeOK, RingTypeOK, FifoRegisters, Places
  <2>4. /\ pc'[t] = "idle" /\ mine'[t] = NULL /\ where'[i] = "fifo_carrier"
        /\ \A u \in Threads \ {t} :
             /\ pc'[u] = pc[u] /\ mine'[u] = mine[u]
             /\ seen'[u] = seen[u] /\ made'[u] = made[u] /\ cursor'[u] = cursor[u]
        /\ \A j \in Index \ {i} : where'[j] = where[j]
    BY <2>1, <2>2 DEF IInv, TypeOK, RingTypeOK, FifoRegisters
  <2>5. Frame(t)
    BY <1>0, <2>1, <2>2, <2>4 DEF Frame, IInv, Handed
  <2>6. Chained("lifo_empty")'
    BY <2>1, <2>2, <2>4, <2>5, EmptyKept, Names
  <2>7. Handed'
    BY <2>1, <2>4, Names DEF IInv, Handed, Index, NULL
  <2>8. QueueIntact'
    <3>1. /\ Len(queue) \in Nat /\ Len(queue)' = Len(queue) + 1 /\ queue' # <<>>
          /\ queue'[Len(queue) + 1] = i
          /\ \A k \in 1..Len(queue) : queue'[k] = queue[k]
      BY <2>1, <2>2 DEF IInv, TypeOK
    <3>2. \A k, m \in 1..Len(queue)' : queue'[k] = queue'[m] => k = m
      <4> TAKE k, m \in 1..Len(queue)'
      <4>1. CASE k \in 1..Len(queue) /\ m \in 1..Len(queue)
        BY <3>1, <4>1 DEF IInv, QueueIntact
      <4>2. CASE k = Len(queue) + 1 /\ m \in 1..Len(queue)
        BY <2>1, <3>1, <4>2
      <4>3. CASE k \in 1..Len(queue) /\ m = Len(queue) + 1
        BY <2>1, <3>1, <4>3
      <4> QED BY <3>1, <4>1, <4>2, <4>3
    <3>3. \A j \in Index :
            where'[j] = "fifo_carrier" <=> \E k \in 1..Len(queue)' : queue'[k] = j
      <4> TAKE j \in Index
      <4>1. CASE j = i
        <5>1. Len(queue) + 1 \in 1..Len(queue)' /\ queue'[Len(queue) + 1] = j
          BY <3>1, <4>1
        <5> QED BY <2>4, <4>1, <5>1
      <4>2. CASE j # i
        <5>1. where[j] = "fifo_carrier" <=> \E k \in 1..Len(queue) : queue[k] = j
          BY DEF IInv, QueueIntact
        <5>2. (\E k \in 1..Len(queue)' : queue'[k] = j) <=> \E k \in 1..Len(queue) : queue[k] = j
          BY <3>1, <4>2
        <5> QED BY <2>4, <4>2, <5>1, <5>2
      <4> QED BY <4>1, <4>2
    <3>4. fifo' = Ends(queue[1], queue[Len(queue)])'
      <4>1. \A a, b : Ends(a, b)' = Ends(a, b)
        BY <2>2 DEF Ends, WithHead, WithTail, LowTag
      <4>2. CASE queue = <<>>
        BY <2>1, <2>2, <3>1, <4>1, <4>2
      <4>3. CASE queue # <<>>
        <5>1. queue'[1] = queue[1]
          BY <3>1, <4>3, EndsOfQueue
        <5> QED BY <2>1, <2>2, <3>1, <4>1, <4>3, <5>1
      <4> QED BY <4>2, <4>3
    <3>5. \A k \in 1..(Len(queue)' - 1) : next'[queue'[k + 1]] = queue'[k]
      <4> TAKE k \in 1..(Len(queue)' - 1)
      <4>1. CASE k = Len(queue)
        <5>1. queue # <<>> /\ k \in 1..Len(queue)
          BY <3>1, <4>1
        <5> QED BY <2>1, <2>2, <3>1, <4>1, <5>1
      <4>2. CASE k # Len(queue)
        <5>1. k \in 1..(Len(queue) - 1) /\ k + 1 \in 1..Len(queue) /\ k \in 1..Len(queue)
          BY <3>1, <4>2
        <5> QED BY <2>2, <3>1, <5>1 DEF IInv, QueueIntact
      <4> QED BY <4>1, <4>2
    <3> QED BY <3>1, <3>2, <3>3, <3>4, <3>5 DEF QueueIntact
  <2>9. Filled'
    BY <2>1, <2>2, <2>4 DEF IInv, Filled, On
  <2>10. Known(t)'
    <3>1. arg'[t] = None
      BY <1>0, <2>2 DEF Known, Argued, Popping, Pushing
    <3> QED BY <2>4, <3>1 DEF Known, Registered, Snapshot, Fresh, Ready, Traced, Argued, Popping,
       Pushing, Filling, Taking, Owner
  <2>11. \A u \in Threads \ {t} : Known(u)'
    BY <2>1, <2>2, <2>5, OthersKnow
  <2> QED BY <2>3, <2>6, <2>7, <2>8, <2>9, <2>10, <2>11 DEF IInv
<1> QED BY <1>1, <1>2

-----------------------------------------------------------------------------
(* The consumer that starts over has lost nothing.                         *)
LEMMA StartOverInv ==
    ASSUME IInv, Single, NEW t \in Threads, pc[t] \in Taking, StartOver(t),
           UNCHANGED <<tag, next, opaque, lifo, where, depth, old, succ, new, mine, fifo, queue,
                       objectVars>>
    PROVE  IInv'
<1> USE DEF objectVars
<1>1. t \in Consumers /\ mine[t] = NULL /\ op[t] = "pop" /\ arg[t] = None /\ pc[t] # "set"
  BY Unowned DEF IInv, Known, Traced, Registered, Argued, Popping, Pushing, Filling, Taking, Owner
<1>2. /\ seen' \in [Threads -> FifoDescriptors] /\ made' \in [Threads -> FifoDescriptors]
      /\ cursor' \in [Threads -> Index \cup {NULL}] /\ tries' \in [Threads -> 0..Length]
      /\ pc' \in [Threads -> Places]
      /\ \A u \in Threads \ {t} :
           seen'[u] = seen[u] /\ made'[u] = made[u] /\ cursor'[u] = cursor[u] /\ pc'[u] = pc[u]
      /\ Known(t)'
  BY <1>1, StartOverKnows
<1>3. TypeOK'
  BY <1>2 DEF IInv, TypeOK, RingTypeOK
<1>4. Frame(t)
  BY <1>1, <1>2 DEF Frame
<1> QED BY <1>2, <1>3, <1>4, LocalStep

(* The first element leaves the FIFO, with the descriptor of the others.   *)
LEMMA FifoTakenInv ==
    ASSUME IInv, Single, NEW t \in Consumers, pc[t] \in Taking,
           NEW d \in FifoDescriptors, FifoTaken(t, d),
           Len(queue) = 1 => d = FifoNil,
           Len(queue) > 1 => d = Ends(queue[2], queue[Len(queue)]),
           UNCHANGED <<tag, next, opaque, lifo, depth, old, succ, new, objectVars>>
    PROVE  IInv'
<1> USE DEF objectVars
<1>0. /\ t \in Threads /\ t # "lifo_empty" /\ t # "fifo_carrier" /\ mine[t] = NULL
      /\ op[t] = "pop" /\ arg[t] = None /\ pc[t] # "set"
      /\ queue # <<>> /\ 0 \in 0..Length /\ FifoNil \in FifoDescriptors
  BY Unowned, Names, RingAssumption
  DEF IInv, Known, Traced, Registered, Argued, Popping, Pushing, Filling, Taking, Owner,
      FifoDescriptors
<1>1. PICK i \in Index : i = queue[1] /\ i = seen[t].head /\ where[i] = "fifo_carrier"
  <2>1. 1 \in 1..Len(queue) /\ queue[1] \in Index
    BY <1>0, EndsOfQueue
  <2>2. where[queue[1]] = "fifo_carrier"
    BY <2>1 DEF IInv, QueueIntact
  <2>3. queue[1] = seen[t].head
    BY <1>0 DEF IInv, Known, Traced
  <2> QED BY <2>1, <2>2, <2>3
<1>2. /\ fifo' = d /\ queue' = Tail(queue)
      /\ where' = [where EXCEPT ![i] = t] /\ mine' = [mine EXCEPT ![t] = i]
      /\ FifoRegisters(t, FifoNil, FifoNil, NULL, 0) /\ pc' = [pc EXCEPT ![t] = "set"]
  BY <1>1 DEF FifoTaken, Goto
<1>3. /\ Len(queue) \in Nat /\ Len(queue) >= 1 /\ queue \in Seq(Index)
      /\ Len(queue)' = Len(queue) - 1 /\ queue' \in Seq(Index)
      /\ \A k \in 1..(Len(queue) - 1) : queue'[k] = queue[k + 1]
      /\ queue' = <<>> <=> Len(queue) = 1
  <2>1. Len(queue) \in Nat /\ Len(queue) >= 1 /\ queue \in Seq(Index)
    BY <1>0, EndsOfQueue DEF IInv, TypeOK
  <2>2. queue' = Tail(queue) /\ queue # <<>>
    BY <1>0, <1>2
  <2>3. Len(queue)' = Len(queue) - 1 /\ queue' \in Seq(Index)
    BY <2>1, <2>2
  <2>4. \A k \in 1..(Len(queue) - 1) : queue'[k] = queue[k + 1]
    BY <2>1, <2>2
  <2>5. queue' = <<>> <=> Len(queue) = 1
    BY <2>1, <2>3
  <2> QED BY <2>1, <2>3, <2>4, <2>5
<1>4. TypeOK' /\ pc' \in [Threads -> Places]
  BY <1>0, <1>1, <1>2, <1>3 DEF IInv, TypeOK, RingTypeOK, FifoRegisters, Places, Owner
<1>5. /\ pc'[t] = "set" /\ mine'[t] = i /\ where'[i] = t
      /\ \A u \in Threads \ {t} :
           /\ pc'[u] = pc[u] /\ mine'[u] = mine[u]
           /\ seen'[u] = seen[u] /\ made'[u] = made[u] /\ cursor'[u] = cursor[u]
      /\ \A j \in Index \ {i} : where'[j] = where[j]
  BY <1>0, <1>1, <1>2 DEF IInv, TypeOK, RingTypeOK, FifoRegisters
<1>6. Frame(t)
  BY <1>0, <1>5 DEF Frame
<1>7. Chained("lifo_empty")'
  BY <1>0, <1>1, <1>5, <1>6, EmptyKept
<1>8. Handed'
  BY <1>0, <1>1, <1>5, Names DEF IInv, Handed, Index, NULL
<1>9. QueueIntact'
  <2>1. \A k, m \in 1..Len(queue)' : queue'[k] = queue'[m] => k = m
    <3> TAKE k, m \in 1..Len(queue)'
    <3>1. k + 1 \in 1..Len(queue) /\ m + 1 \in 1..Len(queue)
      BY <1>3
    <3>2. queue[k + 1] = queue[m + 1] => k + 1 = m + 1
      BY <3>1 DEF IInv, QueueIntact
    <3> QED BY <1>3, <3>2
  <2>2. \A j \in Index :
          where'[j] = "fifo_carrier" <=> \E k \in 1..Len(queue)' : queue'[k] = j
    <3> TAKE j \in Index
    <3>1. CASE j = i
      <4>1. ASSUME NEW k \in 1..Len(queue)' PROVE queue'[k] # i
        <5>1. k + 1 \in 1..Len(queue) /\ 1 \in 1..Len(queue) /\ k + 1 # 1
          BY <1>3
        <5>2. queue[k + 1] # queue[1]
          BY <5>1 DEF IInv, QueueIntact
        <5> QED BY <1>1, <1>3, <5>2
      <4> QED BY <1>0, <1>5, <3>1, <4>1
    <3>2. CASE j # i
      <4>1. where[j] = "fifo_carrier" <=> \E k \in 1..Len(queue) : queue[k] = j
        BY DEF IInv, QueueIntact
      <4>2. ASSUME NEW k \in 1..Len(queue), queue[k] = j
            PROVE  \E m \in 1..Len(queue)' : queue'[m] = j
        <5>1. k # 1
          BY <1>1, <3>2, <4>2
        <5>2. k - 1 \in 1..Len(queue)' /\ queue'[k - 1] = queue[(k - 1) + 1] /\ (k - 1) + 1 = k
          BY <1>3, <5>1
        <5> QED BY <4>2, <5>2
      <4>3. ASSUME NEW m \in 1..Len(queue)', queue'[m] = j
            PROVE  \E k \in 1..Len(queue) : queue[k] = j
        <5>1. m + 1 \in 1..Len(queue) /\ queue[m + 1] = j
          BY <1>3, <4>3
        <5> QED BY <5>1
      <4> QED BY <1>5, <3>2, <4>1, <4>2, <4>3
    <3> QED BY <3>1, <3>2
  <2>3. queue' = <<>> => fifo' = FifoNil
    BY <1>2, <1>3
  <2>4. queue' # <<>> => fifo' = Ends(queue[1], queue[Len(queue)])'
    <3> SUFFICES ASSUME queue' # <<>>
                 PROVE  fifo' = Ends(queue[1], queue[Len(queue)])'
      OBVIOUS
    <3>1. \A a, b : Ends(a, b)' = Ends(a, b)
      BY DEF Ends, WithHead, WithTail, LowTag
    <3>2. Len(queue) > 1 /\ queue'[1] = queue[2] /\ queue'[Len(queue)'] = queue[Len(queue)]
      BY <1>3
    <3> QED BY <1>2, <3>1, <3>2
  <2>5. \A k \in 1..(Len(queue)' - 1) : next'[queue'[k + 1]] = queue'[k]
    <3> TAKE k \in 1..(Len(queue)' - 1)
    <3>1. /\ k + 1 \in 1..(Len(queue) - 1) /\ k \in 1..(Len(queue) - 1)
          /\ queue'[k] = queue[k + 1] /\ queue'[k + 1] = queue[(k + 1) + 1]
      BY <1>3
    <3>2. next[queue[(k + 1) + 1]] = queue[k + 1]
      BY <3>1 DEF IInv, QueueIntact
    <3> QED BY <3>1, <3>2
  <2> QED BY <2>1, <2>2, <2>3, <2>4, <2>5 DEF QueueIntact
<1>10. Filled'
  BY <1>0, <1>5 DEF IInv, Filled, On
<1>11. Known(t)'
  <2>1. opaque[i] # None /\ i # NULL
    BY <1>1 DEF IInv, Filled, On, Index, NULL
  <2>2. opaque'[mine'[t]] # None /\ mine'[t] # NULL /\ op'[t] = "pop" /\ arg'[t] = None
    BY <1>0, <1>5, <2>1
  <2> QED BY <1>5, <2>2 DEF Known, Registered, Snapshot, Fresh, Ready, Traced, Argued, Popping,
     Pushing, Filling, Taking, Owner
<1>12. \A u \in Threads \ {t} : Known(u)'
  BY <1>0, <1>6, OthersKnow
<1> QED BY <1>4, <1>7, <1>8, <1>9, <1>10, <1>11, <1>12 DEF IInv

LEMMA TakeOneInv ==
    ASSUME IInv, Single, NEW t \in Threads, TakeOne(t)
    PROVE  IInv'
<1>1. /\ pc[t] = "one" /\ pc[t] \in Taking /\ t \in Consumers /\ queue # <<>>
      /\ seen[t].tail = seen[t].head
  BY DEF TakeOne, IInv, Known, Traced, Taking
<1>2. CASE fifo # seen[t]
  BY <1>1, <1>2, StartOverInv DEF TakeOne
<1>3. CASE fifo = seen[t]
  <2>1. Len(queue) = 1
    BY <1>1, <1>3, EndsOfQueue
  <2>2. FifoNil \in FifoDescriptors
    BY DEF FifoDescriptors
  <2>3. /\ FifoTaken(t, FifoNil)
        /\ UNCHANGED <<tag, next, opaque, lifo, depth, old, succ, new, objectVars>>
    BY <1>3 DEF TakeOne
  <2>4. Len(queue) > 1 => FifoNil = Ends(queue[2], queue[Len(queue)])
    BY <2>1
  <2> QED BY <1>1, <2>1, <2>2, <2>3, <2>4, FifoTakenInv
<1> QED BY <1>2, <1>3

LEMMA FindInv ==
    ASSUME IInv, Single, NEW t \in Threads, Find(t)
    PROVE  IInv'
<1> USE DEF objectVars
<1>1. PICK k \in 2..Len(queue) : cursor[t] = queue[k]
  BY DEF Find, IInv, Known, Traced, Taking
<1>2. PICK n : n = next[cursor[t]]
  OBVIOUS
<1>3. /\ pc[t] = "find" /\ pc[t] \in Taking /\ Known(t) /\ Len(queue) \in Nat
      /\ seen[t].head = queue[1] /\ n = queue[k - 1]
      /\ k \in 1..Len(queue) /\ k - 1 \in 1..Len(queue) /\ 1 \in 1..Len(queue)
  <2>1. Len(queue) \in Nat
    BY EndsOfQueue
  <2>2. /\ k \in 1..Len(queue) /\ k - 1 \in 1..Len(queue) /\ 1 \in 1..Len(queue)
        /\ k - 1 \in 1..(Len(queue) - 1) /\ (k - 1) + 1 = k
    BY <2>1
  <2>3. next[queue[(k - 1) + 1]] = queue[k - 1]
    BY <2>2 DEF IInv, QueueIntact
  <2> QED BY <1>1, <1>2, <2>1, <2>2, <2>3 DEF Find, IInv, Known, Traced, Taking
<1>4. UNCHANGED <<tag, next, opaque, lifo, where, depth, old, succ, new, mine, fifo, queue,
                  op, arg, outside>>
  BY DEF Find
<1>5. CASE n = seen[t].head
  <2>1. pc' = [pc EXCEPT ![t] = "head"] /\ UNCHANGED <<seen, made, cursor, tries>>
    BY <1>2, <1>5 DEF Find, Goto
  <2>2. k = 2
    <3>1. PICK m \in 1..Len(queue) : m = k - 1 /\ queue[m] = queue[1]
      BY <1>3, <1>5
    <3>2. m = 1
      BY <1>3, <3>1 DEF IInv, QueueIntact
    <3> QED BY <3>1, <3>2
  <2>3. TypeOK' /\ pc' \in [Threads -> Places] /\ pc'[t] = "head"
    BY <1>4, <2>1 DEF IInv, TypeOK, RingTypeOK, Places, Taking
  <2>4. Frame(t)
    BY <1>3, <1>4, <2>1 DEF Frame, IInv
  <2>5. Traced(t)'
    BY <1>1, <1>3, <1>4, <2>1, <2>2, <2>3 DEF Known, Traced, Taking
  <2>6. Registered(t)' /\ Snapshot(t, "lifo_empty")' /\ Ready(t)' /\ Argued(t)'
    BY <1>3, <1>4, <2>1, <2>3 DEF Known, Registered, Snapshot, Fresh, Ready, Argued, Popping,
       Pushing, Filling, Taking, Owner
  <2> QED BY <1>4, <2>3, <2>4, <2>5, <2>6, LocalStep DEF Known
<1>6. CASE n # seen[t].head /\ (n = NULL \/ tries[t] = 0)
  <2>1. StartOver(t)
    BY <1>2, <1>6 DEF Find
  <2> QED BY <1>3, <1>4, <2>1, StartOverInv
<1>7. CASE n # seen[t].head /\ ~(n = NULL \/ tries[t] = 0)
  <2>1. FifoRegisters(t, seen[t], FifoNil, n, tries[t] - 1) /\ UNCHANGED pc
    BY <1>2, <1>7 DEF Find
  <2>2. n \in Index /\ FifoNil \in FifoDescriptors /\ tries[t] - 1 \in 0..Length
    BY <1>3, <1>7, EndsOfQueue, RingAssumption DEF FifoDescriptors, IInv, TypeOK
  <2>3. TypeOK' /\ pc' \in [Threads -> Places]
    BY <1>4, <2>1, <2>2 DEF IInv, TypeOK, RingTypeOK, FifoRegisters
  <2>4. Frame(t)
    BY <1>3, <1>4, <2>1 DEF Frame, IInv, TypeOK, FifoRegisters
  <2>5. k - 1 \in 2..Len(queue)
    <3>1. k # 2
      BY <1>3, <1>7
    <3> QED BY <1>3, <3>1
  <2>6. cursor'[t] = queue[k - 1] /\ seen'[t] = seen[t]
    BY <1>3, <2>1 DEF FifoRegisters, IInv, TypeOK
  <2>7. Traced(t)'
    BY <1>3, <1>4, <2>1, <2>5, <2>6 DEF Known, Traced, Taking
  <2>8. Registered(t)' /\ Snapshot(t, "lifo_empty")' /\ Ready(t)' /\ Argued(t)'
    BY <1>3, <1>4, <2>1 DEF Known, Registered, Snapshot, Fresh, Ready, Argued, Popping,
       Pushing, Filling, Taking, Owner
  <2> QED BY <1>4, <2>3, <2>4, <2>7, <2>8, LocalStep DEF Known
<1> QED BY <1>5, <1>6, <1>7

LEMMA SetHeadInv ==
    ASSUME IInv, Single, NEW t \in Threads, SetHead(t)
    PROVE  IInv'
<1> USE DEF objectVars
<1>1. /\ pc[t] = "head" /\ Known(t) /\ seen[t] \in FifoDescriptors /\ RingTypeOK
      /\ made' = [made EXCEPT ![t] = WithHead(seen[t], cursor[t])]
      /\ pc' = [pc EXCEPT ![t] = "behead"]
      /\ UNCHANGED <<tag, next, opaque, lifo, where, depth, old, succ, new, mine, fifo, queue,
                     seen, cursor, tries, op, arg, outside>>
  BY DEF SetHead, Goto, IInv, TypeOK
<1>2. /\ t \in Consumers /\ queue # <<>> /\ seen[t].head = queue[1]
      /\ Len(queue) >= 2 /\ cursor[t] = queue[2]
  BY <1>1 DEF Known, Traced, Taking
<1>3. WithHead(seen[t], cursor[t]) \in FifoDescriptors
  <2>1. queue[1] \in Index /\ queue[2] \in Index
    BY <1>2, EndsOfQueue
  <2>2. seen[t] # FifoNil
    BY <1>2, <2>1 DEF FifoNil, Index, NULL
  <2> QED BY <1>1, <1>2, <2>1, <2>2, WordType
<1>4. TypeOK' /\ pc' \in [Threads -> Places] /\ pc'[t] = "behead"
  BY <1>1, <1>3 DEF IInv, TypeOK, RingTypeOK, Places, Taking
<1>5. Frame(t)
  BY <1>1 DEF Frame, IInv, TypeOK
<1>6. Traced(t)'
  <2>1. made'[t] = WithHead(seen[t], cursor[t])
    BY <1>1 DEF IInv, TypeOK
  <2>2. WithHead(seen[t], cursor[t])' = WithHead(seen[t], cursor[t])
    BY <1>1 DEF WithHead, LowTag
  <2> QED BY <1>1, <1>2, <1>4, <2>1, <2>2 DEF Traced
<1>7. Registered(t)' /\ Snapshot(t, "lifo_empty")' /\ Ready(t)' /\ Argued(t)'
  BY <1>1, <1>4 DEF Known, Registered, Snapshot, Fresh, Ready, Argued, Popping,
     Pushing, Filling, Taking, Owner
<1> QED BY <1>1, <1>4, <1>5, <1>6, <1>7, LocalStep DEF Known

LEMMA BeheadInv ==
    ASSUME IInv, Single, NEW t \in Threads, Behead(t)
    PROVE  IInv'
<1>1. /\ pc[t] = "behead" /\ pc[t] \in Taking /\ Known(t) /\ t \in Consumers /\ queue # <<>>
      /\ seen[t].head = queue[1] /\ Len(queue) >= 2 /\ cursor[t] = queue[2]
      /\ made[t] = WithHead(seen[t], cursor[t]) /\ RingTypeOK
  BY DEF Behead, IInv, Known, Traced, Taking, TypeOK
<1>2. CASE fifo = seen[t]
  <2>1. PICK a, b, c \in Index : a = queue[1] /\ b = queue[2] /\ c = queue[Len(queue)]
    BY <1>1, EndsOfQueue
  <2>2. seen[t] = [tail |-> c, ttag |-> LowTag(c), head |-> a, htag |-> LowTag(a)]
    BY <1>1, <1>2, <2>1, EndsType DEF IInv, QueueIntact
  <2>3. \A k \in Index : LowTag(k) \in Nat
    BY <1>1, RingAssumption, FifoAssumption DEF RingTypeOK, LowTag
  <2>4. seen[t] \in [tail : Nat, ttag : Nat, head : Nat, htag : Nat]
    BY <2>2, <2>3 DEF Index
  <2>5. made[t] = [tail |-> c, ttag |-> LowTag(c), head |-> b, htag |-> LowTag(b)]
    <3>1. WithHead(seen[t], b) =
            [tail |-> seen[t].tail, ttag |-> seen[t].ttag, head |-> b, htag |-> LowTag(b)]
      BY <2>4, WordForm
    <3> QED BY <1>1, <2>1, <2>2, <3>1
  <2>6. made[t] = Ends(b, c) /\ made[t] \in FifoDescriptors
    BY <1>1, <2>5, EndsType
  <2>7. /\ FifoTaken(t, made[t])
        /\ UNCHANGED <<tag, next, opaque, lifo, depth, old, succ, new, objectVars>>
    BY <1>2 DEF Behead
  <2>8. Len(queue) # 1
    BY <1>1, EndsOfQueue
  <2> QED BY <1>1, <2>1, <2>6, <2>7, <2>8, FifoTakenInv
<1>3. CASE fifo # seen[t] /\ fifo.head # seen[t].head
  BY <1>1, <1>3, StartOverInv DEF Behead
<1>4. CASE fifo # seen[t] /\ fifo.head = seen[t].head
  <2> USE DEF objectVars
  <2>1. /\ FifoRegisters(t, fifo, FifoNil, cursor[t], 0) /\ pc' = [pc EXCEPT ![t] = "head"]
        /\ UNCHANGED <<tag, next, opaque, lifo, where, depth, old, succ, new, mine, fifo, queue,
                       op, arg, outside>>
    BY <1>4 DEF Behead, Goto
  <2>2. FifoNil \in FifoDescriptors /\ 0 \in 0..Length
    BY RingAssumption DEF FifoDescriptors
  <2>3. TypeOK' /\ pc' \in [Threads -> Places] /\ pc'[t] = "head"
    BY <2>1, <2>2 DEF IInv, TypeOK, RingTypeOK, FifoRegisters, Places, Taking
  <2>4. Frame(t)
    BY <1>1, <2>1 DEF Frame, IInv, TypeOK, FifoRegisters
  <2>5. seen'[t] = fifo /\ cursor'[t] = cursor[t]
    BY <2>1 DEF IInv, TypeOK, FifoRegisters
  <2>6. Traced(t)'
    BY <1>1, <1>4, <2>1, <2>3, <2>5 DEF Traced, Taking
  <2>7. Registered(t)' /\ Snapshot(t, "lifo_empty")' /\ Ready(t)' /\ Argued(t)'
    BY <1>1, <2>1, <2>3 DEF Known, Registered, Snapshot, Fresh, Ready, Argued, Popping,
       Pushing, Filling, Taking, Owner
  <2> QED BY <2>1, <2>3, <2>4, <2>6, <2>7, LocalStep DEF Known
<1> QED BY <1>2, <1>3, <1>4

-----------------------------------------------------------------------------
LEMMA StepInv ==
    ASSUME IInv, Single, NEW t \in Threads, Step(t)
    PROVE  IInv'
BY PopNextInv, PopTagInv, PushLoadInv, PushLinkInv, TakeInv, SetInv, GiveInv,
   FifoLoadInv, FifoLinkInv, FifoGiveInv, TakeOneInv, FindInv, SetHeadInv, BeheadInv
DEF Step, RingStep

LEMMA NextInv ==
    ASSUME Single
    PROVE  IInv /\ [Next]_vars => IInv'
<1> SUFFICES ASSUME IInv, [Next]_vars PROVE IInv'
  OBVIOUS
<1>1. ASSUME NEW t \in Producers, NEW v \in outside, CallPush(t, v)
      PROVE  IInv'
  BY <1>1, CallPushInv, Names
<1>2. ASSUME NEW t \in Consumers, CallPop(t)
      PROVE  IInv'
  BY <1>2, CallPopInv
<1>3. ASSUME NEW t \in Threads, Step(t)
      PROVE  IInv'
  BY <1>3, StepInv
<1>4. CASE UNCHANGED vars
  <2>1. /\ Chained("lifo_empty")' /\ Handed' /\ QueueIntact' /\ Filled' /\ TypeOK'
        /\ pc' \in [Threads -> Places]
    BY <1>4 DEF vars, ring, IInv, TypeOK, RingTypeOK, Chained, On, Described, Handed,
       QueueIntact, Ends, WithHead, WithTail, LowTag, Filled
  <2>2. ASSUME NEW t \in Threads PROVE Known(t)'
    <3>1. Known(t)
      BY DEF IInv
    <3> QED BY <1>4, <3>1 DEF vars, ring, Known, Registered, Snapshot, Fresh, Described, Ready,
       Traced, Argued, Ends, WithHead, WithTail, LowTag
  <2> QED BY <2>1, <2>2 DEF IInv
<1> QED BY <1>1, <1>2, <1>3, <1>4 DEF Next

LEMMA Invariance ==
    ASSUME Single
    PROVE  Spec => []IInv
BY InitInv, NextInv, PTL DEF Spec

(* The invariant says what FifoIntact says of the queue in its own words.  *)
LEMMA QueueWhole ==
    ASSUME IInv
    PROVE  /\ Len(queue) = Cardinality({queue[k] : k \in 1..Len(queue)})
           /\ fifo = IF queue = <<>> THEN FifoNil
                     ELSE WithHead(WithTail(FifoNil, queue[Len(queue)]), queue[1])
<1> DEFINE S == {queue[k] : k \in 1..Len(queue)}
           f == [k \in 1..Len(queue) |-> queue[k]]
<1>1. PICK n \in Nat : n = Len(queue)
  BY EndsOfQueue
<1>2. IsFiniteSet(1..n) /\ Cardinality(1..n) = n
  BY FS_Interval
<1>3. f \in Bijection(1..Len(queue), S)
  BY DEF IInv, QueueIntact, Bijection, Injection, Surjection, IsInjective
<1>4. Cardinality(S) = Len(queue)
  <2>1. f \in Bijection(1..n, S)
    BY <1>1, <1>3
  <2> HIDE DEF f, S
  <2>2. ExistsBijection(1..n, S)
    BY <2>1 DEF ExistsBijection
  <2>3. Cardinality(S) = Cardinality(1..n)
    BY <1>2, <2>2, FS_Bijection
  <2> QED BY <1>1, <1>2, <2>3
<1> QED BY <1>4 DEF IInv, QueueIntact, Ends

(* What threads read and write of the ring stays in its bounds.            *)
THEOREM TypeCorrect ==
    ASSUME Single
    PROVE  Spec => []TypeOK
<1>1. IInv => TypeOK
  BY DEF IInv
<1> QED BY <1>1, Invariance, PTL

(* With one consumer, and however producers interleave with it and with    *)
(* each other, both lists of a ufifo stay whole.  No tag of the FIFO's     *)
(* descriptor is needed for it: the tags may have any width.               *)
THEOREM FifoStaysIntact ==
    ASSUME Single
    PROVE  Spec => []FifoIntact
<1>1. IInv => FifoIntact
  <2> SUFFICES ASSUME IInv PROVE FifoIntact
    OBVIOUS
  <2> QED BY QueueWhole DEF IInv, QueueIntact, FifoIntact
<1> QED BY <1>1, Invariance, PTL

-----------------------------------------------------------------------------
(* Each step of a ufifo is one of the container, or none.  The slot of a   *)
(* push is taken with the empty element, and its object is in once the     *)
(* descriptor of the FIFO is changed; the object of a pop is out with the  *)
(* first element, and the slot is free once that element is given back.    *)
LEMMA HandOf ==
    ASSUME IInv
    PROVE  /\ Hand \in [Threads -> Objects \cup {None}]
           /\ \A t \in Threads :
                Hand[t] = IF mine[t] = NULL THEN None
                          ELSE IF opaque[mine[t]] = None THEN arg[t] ELSE opaque[mine[t]]
BY DEF Hand, IInv, TypeOK, RingTypeOK

LEMMA ContentOf ==
    ASSUME IInv
    PROVE  /\ Len(queue) \in Nat
           /\ Content \in [1..Len(queue) -> Objects]
           /\ Content \in Seq(Objects) /\ Len(Content) = Len(queue)
           /\ \A k \in 1..Len(queue) : Content[k] = opaque[queue[k]]
<1>1. \A k \in 1..Len(queue) : queue[k] \in Index /\ queue[k] \in On("fifo_carrier")
  BY EndsOfQueue DEF IInv, QueueIntact, On
<1>2. \A k \in 1..Len(queue) : opaque[queue[k]] \in Objects
  BY <1>1 DEF IInv, Filled, TypeOK
<1>3. PICK n \in Nat : n = Len(queue)
  BY EndsOfQueue
<1>4. Content = [k \in 1..n |-> opaque[queue[k]]]
  BY <1>3 DEF Content
<1>5. Content \in [1..n -> Objects]
  BY <1>2, <1>3, <1>4
<1>6. Content \in Seq(Objects) /\ Len(Content) = n
  BY <1>5
<1> QED BY <1>3, <1>4, <1>5, <1>6

LEMMA MapInit == Init => Promised!Init
<1> SUFFICES ASSUME Init PROVE Promised!Init
  OBVIOUS
<1>1. Spare = Length
  <2>1. On("lifo_empty") = 1..Length
    BY DEF Init, RingInit, On, Index
  <2> QED BY <2>1, RingAssumption, FS_Interval DEF Spare
<1>2. Content = <<>>
  BY DEF Init, Content
<1>3. Hand = [t \in Threads |-> None]
  BY DEF Init, RingInit, Hand
<1> QED BY <1>1, <1>2, <1>3 DEF Promised!Init

(* A step that does not show: no element moves or changes its object.      *)
Quiet ==
    /\ UNCHANGED <<where, mine, queue, opaque>>
    /\ \A u \in Threads : mine[u] # NULL => arg'[u] = arg[u]

LEMMA MapQuiet ==
    ASSUME Quiet
    PROVE  UNCHANGED <<Spare, Content, Hand>>
<1>1. Spare' = Spare /\ Content' = Content
  BY DEF Quiet, Spare, Content, On
<1>2. Hand' = Hand
  BY DEF Quiet, Hand
<1> QED BY <1>1, <1>2

(* Other than through a successful compare-and-swap, and besides Set.      *)
LEMMA QuietSteps ==
    ASSUME IInv, NEW t \in Threads,
           \/ \E v \in outside : CallPush(t, v)
           \/ CallPop(t) \/ RingStep(t) \/ FifoLoad(t) \/ FifoLink(t) \/ Find(t) \/ SetHead(t)
           \/ Take(t) /\ lifo["lifo_empty"] # old[t]
           \/ Give(t) /\ lifo["lifo_empty"] # old[t]
           \/ (FifoGive(t) \/ TakeOne(t) \/ Behead(t)) /\ fifo # seen[t]
    PROVE  Quiet
<1>1. CASE (\E v \in outside : CallPush(t, v)) \/ (Take(t) /\ lifo["lifo_empty"] # old[t])
  <2>1. mine[t] = NULL
    BY <1>1, Unowned DEF CallPush, Take, PopSwap, Owner, Pushing, Filling
  <2>2. UNCHANGED <<where, mine, queue, opaque>>
    BY <1>1 DEF CallPush, Take, PopSwap, fifoVars
  <2>3. \A u \in Threads \ {t} : arg'[u] = arg[u]
    BY <1>1 DEF CallPush, Take, IInv, TypeOK
  <2> QED BY <2>1, <2>2, <2>3 DEF Quiet
<1>2. CASE Give(t) /\ lifo["lifo_empty"] # old[t]
  BY <1>2 DEF Quiet, Give, PushSwap, Goto, fifoVars, IInv
<1>3. CASE \/ CallPop(t) \/ RingStep(t) \/ FifoLoad(t) \/ FifoLink(t) \/ Find(t) \/ SetHead(t)
           \/ (FifoGive(t) \/ TakeOne(t) \/ Behead(t)) /\ fifo # seen[t]
  BY <1>3 DEF Quiet, CallPop, RingStep, PopNext, PopTag, PushLoad, PushLink, FifoLoad, FifoLink,
     Find, SetHead, FifoGive, TakeOne, Behead, fifoVars, objectVars
<1> QED BY <1>1, <1>2, <1>3

(* ufifo_push fills its element and ufifo_pop empties it: the object stays *)
(* in the same hand.                                                       *)
LEMMA MapSet ==
    ASSUME IInv, NEW t \in Threads, Set(t)
    PROVE  UNCHANGED <<Spare, Content, Hand>>
<1> DEFINE i == mine[t]
<1>1. /\ i \in Index /\ i \notin On("fifo_carrier") /\ where[i] = t
      /\ \A u \in Threads \ {t} : mine[u] # i
  BY OwnElement DEF Set, Owner
<1>2. /\ opaque' = [opaque EXCEPT ![i] = IF op[t] = "push" THEN arg[t] ELSE None]
      /\ arg' = [arg EXCEPT ![t] = IF op[t] = "push" THEN None ELSE opaque[i]]
      /\ UNCHANGED <<where, mine, queue>>
  BY DEF Set, ElemSet, fifoVars
<1>3. /\ opaque[i] = None <=> op[t] = "push"
      /\ op[t] = "push" => arg[t] # None
  BY DEF Set, IInv, Known, Argued
<1>4. \A j \in Index \ {i} : opaque'[j] = opaque[j]
  BY <1>2 DEF IInv, TypeOK
<1>5. \A u \in Threads : Hand'[u] = Hand[u]
  <2> TAKE u \in Threads
  <2>1. CASE u = t
    BY <1>1, <1>2, <1>3, <2>1 DEF Hand, IInv, TypeOK
  <2>2. CASE u # t
    BY <1>1, <1>2, <1>4, <2>2 DEF Hand, IInv, TypeOK, RingTypeOK
  <2> QED BY <2>1, <2>2
<1>6. Hand' = Hand
  BY <1>5 DEF Hand
<1>7. \A k \in 1..Len(queue) : opaque'[queue[k]] = opaque[queue[k]]
  <2>1. \A k \in 1..Len(queue) : queue[k] \in Index /\ where[queue[k]] = "fifo_carrier"
    BY EndsOfQueue DEF IInv, QueueIntact
  <2>2. \A k \in 1..Len(queue) : queue[k] \in Index \ {i}
    BY <1>1, <2>1, Names
  <2> QED BY <1>4, <2>2
<1>8. Spare' = Spare /\ Content' = Content
  BY <1>2, <1>7 DEF Spare, Content, On
<1> QED BY <1>6, <1>8

LEMMA MapTake ==
    ASSUME IInv, NEW t \in Threads, Take(t), lifo["lifo_empty"] = old[t]
    PROVE  Promised!Reserve(t, arg[t]) /\ arg[t] \in Objects
<1> DEFINE i == old[t].index
<1>1. /\ i \in On("lifo_empty") /\ i \in Index /\ where[i] = "lifo_empty"
      /\ op[t] = "push" /\ opaque[i] = None /\ mine[t] = NULL
  BY SwapKnows DEF Take, PopSwap
<1>2. /\ mine' = [mine EXCEPT ![t] = i] /\ where' = [where EXCEPT ![i] = t]
      /\ pc' = [pc EXCEPT ![t] = "set"]
      /\ UNCHANGED <<opaque, queue>>
  BY DEF Take, PopSwap, Goto, fifoVars
<1>3. arg' = arg /\ arg[t] \in Objects
  <2>1. arg' = arg
    BY <1>2 DEF Take, IInv
  <2> QED BY <1>1, <2>1 DEF Take, PopSwap, IInv, Known, Argued, TypeOK, Popping
<1>4. Hand[t] = None
  BY <1>1, HandOf
<1>5. Hand' = [Hand EXCEPT ![t] = arg[t]]
  <2>1. /\ mine'[t] = i /\ i # NULL
        /\ \A u \in Threads \ {t} : mine'[u] = mine[u]
    BY <1>1, <1>2 DEF IInv, TypeOK, RingTypeOK, Index, NULL
  <2>2. Hand'[t] = arg[t] /\ \A u \in Threads \ {t} : Hand'[u] = Hand[u]
    BY <1>1, <1>2, <1>3, <2>1 DEF Hand
  <2> QED BY <2>2 DEF Hand
<1>6. Spare' = Spare - 1 /\ Spare > 0
  <2>1. IsFiniteSet(On("lifo_empty")) /\ Spare \in Nat
    BY OnFinite DEF Spare
  <2>2. On("lifo_empty")' = On("lifo_empty") \ {i}
    BY <1>1, <1>2, Names DEF On, IInv, TypeOK
  <2>3. Spare' = Spare - 1
    BY <1>1, <2>1, <2>2, FS_RemoveElement DEF Spare
  <2>4. Spare # 0
    BY <1>1, <2>1, FS_EmptySet DEF Spare
  <2> QED BY <2>1, <2>3, <2>4
<1>7. Content' = Content
  BY <1>2 DEF Content
<1> QED BY <1>3, <1>4, <1>5, <1>6, <1>7 DEF Promised!Reserve

LEMMA MapGive ==
    ASSUME IInv, NEW t \in Threads, Give(t), lifo["lifo_empty"] = old[t]
    PROVE  Promised!Release(t)
<1> DEFINE i == mine[t]
<1>1. /\ i \in Index /\ i \notin On("lifo_empty") /\ opaque[i] = None /\ arg[t] # None
  BY OwnElement DEF Give, PushSwap, Owner, Pushing, IInv, Known, Argued
<1>2. /\ mine' = [mine EXCEPT ![t] = NULL] /\ where' = [where EXCEPT ![i] = "lifo_empty"]
      /\ pc' = [pc EXCEPT ![t] = "idle"]
      /\ UNCHANGED <<opaque, queue>>
  BY DEF Give, PushSwap, Goto, fifoVars
<1>3. arg' = [arg EXCEPT ![t] = None]
  BY <1>2 DEF Give, IInv
<1>4. Hand[t] # None
  BY <1>1, HandOf DEF Index, NULL
<1>5. Hand' = [Hand EXCEPT ![t] = None]
  BY <1>2, <1>3 DEF Hand, IInv, TypeOK, RingTypeOK
<1>6. Spare' = Spare + 1
  <2>1. On("lifo_empty")' = On("lifo_empty") \cup {i}
    BY <1>1, <1>2, Names DEF On, IInv, TypeOK
  <2> QED BY <1>1, <2>1, OnFinite, FS_AddElement DEF Spare
<1>7. Content' = Content
  BY <1>2 DEF Content
<1> QED BY <1>4, <1>5, <1>6, <1>7 DEF Promised!Release

LEMMA MapFifoGive ==
    ASSUME IInv, IInv', NEW t \in Threads, FifoGive(t), fifo = seen[t]
    PROVE  Promised!Put(t)
<1> DEFINE i == mine[t]
<1>1. i \in Index /\ where[i] = t /\ opaque[i] # None /\ i # NULL
  BY FifoGiveKnows DEF Index, NULL
<1>2. /\ mine' = [mine EXCEPT ![t] = NULL] /\ where' = [where EXCEPT ![i] = "fifo_carrier"]
      /\ queue' = Append(queue, i)
      /\ UNCHANGED <<opaque, arg>>
  BY DEF FifoGive, objectVars
<1>3. Hand[t] = opaque[i] /\ Hand[t] # None
  BY <1>1, HandOf
<1>4. Hand' = [Hand EXCEPT ![t] = None]
  BY <1>2 DEF Hand, IInv, TypeOK, RingTypeOK
<1>5. Spare' = Spare
  <2>1. On("lifo_empty")' = On("lifo_empty")
    BY <1>1, <1>2, Names DEF On, IInv, TypeOK
  <2> QED BY <2>1 DEF Spare
<1>6. Content' = Append(Content, opaque[i])
  <2>1. PICK n \in Nat : n = Len(queue)
    BY EndsOfQueue
  <2>2. /\ Content \in [1..n -> Objects] /\ Content \in Seq(Objects) /\ Len(Content) = n
        /\ \A k \in 1..n : Content[k] = opaque[queue[k]]
    BY <2>1, ContentOf
  <2>3. /\ Len(queue)' = n + 1 /\ queue'[n + 1] = i
        /\ \A k \in 1..n : queue'[k] = queue[k]
    BY <1>1, <1>2, <2>1 DEF IInv, TypeOK
  <2>4. Content' = [k \in 1..(n + 1) |-> opaque[queue'[k]]]
    BY <1>2, <2>3 DEF Content
  <2>5. opaque[i] \in Objects
    BY <1>1 DEF IInv, TypeOK
  <2>6. Append(Content, opaque[i]) = [k \in 1..(n + 1) |-> IF k = n + 1 THEN opaque[i] ELSE Content[k]]
    BY <2>2, <2>5
  <2>7. \A k \in 1..(n + 1) :
          opaque[queue'[k]] = IF k = n + 1 THEN opaque[i] ELSE Content[k]
    BY <2>2, <2>3
  <2> QED BY <2>4, <2>6, <2>7
<1> QED BY <1>3, <1>4, <1>5, <1>6 DEF Promised!Put

LEMMA MapTaken ==
    ASSUME IInv, NEW t \in Threads, TakeOne(t) \/ Behead(t), fifo = seen[t]
    PROVE  Promised!Get(t)
<1>0. /\ pc[t] \in Taking /\ Traced(t) /\ mine[t] = NULL /\ queue # <<>>
  BY Unowned DEF TakeOne, Behead, Taking, IInv, Known, Traced, Owner, Pushing, Filling
<1>1. PICK i \in Index : /\ i = queue[1] /\ i = seen[t].head /\ where[i] = "fifo_carrier"
                         /\ opaque[i] # None /\ i # NULL
  <2>1. 1 \in 1..Len(queue) /\ queue[1] \in Index
    BY <1>0, EndsOfQueue
  <2>2. where[queue[1]] = "fifo_carrier" /\ opaque[queue[1]] # None
    BY <2>1 DEF IInv, QueueIntact, Filled, On
  <2> QED BY <1>0, <2>1, <2>2 DEF Traced, Index, NULL
<1>2. /\ queue' = Tail(queue)
      /\ where' = [where EXCEPT ![i] = t] /\ mine' = [mine EXCEPT ![t] = i]
      /\ UNCHANGED <<opaque, arg>>
  BY <1>1 DEF TakeOne, Behead, FifoTaken, objectVars
<1>3. Hand[t] = None
  BY <1>0, HandOf
<1>4. Hand' = [Hand EXCEPT ![t] = opaque[i]]
  <2>1. mine'[t] = i /\ \A u \in Threads \ {t} : mine'[u] = mine[u]
    BY <1>2 DEF IInv, TypeOK, RingTypeOK
  <2>2. Hand'[t] = opaque[i] /\ \A u \in Threads \ {t} : Hand'[u] = Hand[u]
    BY <1>1, <1>2, <2>1 DEF Hand
  <2> QED BY <2>2 DEF Hand
<1>5. Spare' = Spare
  <2>1. On("lifo_empty")' = On("lifo_empty")
    BY <1>1, <1>2, Names DEF On, IInv, TypeOK
  <2> QED BY <2>1 DEF Spare
<1>6. Content # <<>> /\ Head(Content) = opaque[i] /\ Content' = Tail(Content)
  <2>1. PICK n \in Nat : n = Len(queue)
    BY EndsOfQueue
  <2>2. /\ Content \in [1..n -> Objects] /\ Content \in Seq(Objects) /\ Len(Content) = n
        /\ \A k \in 1..n : Content[k] = opaque[queue[k]]
    BY <2>1, ContentOf
  <2>3. n >= 1
    BY <1>0, <2>1, EndsOfQueue
  <2>4. PICK c \in Seq(Objects) : c = Content /\ Len(c) = n /\ c # <<>>
    BY <2>2, <2>3
  <2>5. Head(Content) = opaque[i]
    <3>1. 1 \in 1..n
      BY <2>3
    <3>2. c[1] = opaque[i]
      BY <1>1, <2>2, <2>4, <3>1
    <3>3. Head(c) = c[1]
      BY <2>4
    <3> QED BY <2>4, <3>2, <3>3
  <2>6. queue \in Seq(Index) /\ queue # <<>>
    BY <1>0 DEF IInv, TypeOK
  <2>7. Len(queue)' = n - 1 /\ \A k \in 1..(n - 1) : queue'[k] = queue[k + 1]
    BY <1>2, <2>1, <2>6
  <2>8. Content' = [k \in 1..(n - 1) |-> opaque[queue'[k]]]
    BY <1>2, <2>7 DEF Content
  <2>9. Tail(c) \in Seq(Objects) /\ Len(Tail(c)) = n - 1
    BY <2>3, <2>4
  <2>10. \A k \in 1..(n - 1) : opaque[queue'[k]] = c[k + 1]
    BY <2>2, <2>4, <2>7
  <2>11. Content' = Tail(c)
    <3>1. \A k \in 1..(n - 1) : Tail(c)[k] = c[k + 1]
      BY <2>3, <2>4
    <3>2. PICK d \in Seq(Objects) : d = Tail(c) /\ Len(d) = n - 1
      BY <2>9
    <3>3. d \in [1..(n - 1) -> Objects]
      <4>1. d \in [1..Len(d) -> Objects]
        OBVIOUS
      <4> QED BY <3>2, <4>1
    <3>4. Tail(c) = [k \in 1..(n - 1) |-> Tail(c)[k]]
      BY <3>2, <3>3
    <3> QED BY <2>8, <2>10, <3>1, <3>4
  <2> QED BY <2>4, <2>5, <2>11
<1> QED BY <1>3, <1>4, <1>5, <1>6 DEF Promised!Get

LEMMA MapNext ==
    ASSUME Single
    PROVE  IInv /\ [Next]_vars => [Promised!Next]_(Promised!vars)
<1> SUFFICES ASSUME IInv, [Next]_vars
             PROVE  Promised!Next \/ UNCHANGED <<Spare, Content, Hand>>
  BY DEF Promised!vars
<1>1. IInv'
  BY NextInv
<1>2. ASSUME NEW t \in Threads, Take(t), lifo["lifo_empty"] = old[t]
      PROVE  Promised!Next
  BY <1>2, MapTake DEF Promised!Next
<1>3. ASSUME NEW t \in Threads, Give(t), lifo["lifo_empty"] = old[t]
      PROVE  Promised!Next
  BY <1>3, MapGive DEF Promised!Next
<1>4. ASSUME NEW t \in Threads, FifoGive(t), fifo = seen[t]
      PROVE  Promised!Next
  BY <1>1, <1>4, MapFifoGive DEF Promised!Next
<1>5. ASSUME NEW t \in Threads, TakeOne(t) \/ Behead(t), fifo = seen[t]
      PROVE  Promised!Next
  BY <1>5, MapTaken DEF Promised!Next
<1>6. ASSUME NEW t \in Threads, Step(t)
      PROVE  Promised!Next \/ UNCHANGED <<Spare, Content, Hand>>
  BY <1>2, <1>3, <1>4, <1>5, <1>6, MapSet, QuietSteps, MapQuiet DEF Step
<1>7. ASSUME NEW t \in Producers, NEW v \in outside, CallPush(t, v)
      PROVE  UNCHANGED <<Spare, Content, Hand>>
  BY <1>7, QuietSteps, MapQuiet, Names
<1>8. ASSUME NEW t \in Consumers, CallPop(t)
      PROVE  UNCHANGED <<Spare, Content, Hand>>
  BY <1>8, QuietSteps, MapQuiet, Names
<1>9. CASE UNCHANGED vars
  <2>1. Quiet
    BY <1>9 DEF vars, ring, Quiet
  <2> QED BY <2>1, MapQuiet
<1> QED BY <1>6, <1>7, <1>8, <1>9 DEF Next

(* To its users a ufifo with one consumer is the container: whatever the   *)
(* interleaving, a push puts its object behind the others at once, and a   *)
(* pop takes the first one at once.                                        *)
THEOREM ImplementsContainer ==
    ASSUME Single
    PROVE  Spec => Atomic
BY Invariance, MapInit, MapNext, PTL DEF Spec, Atomic, Promised!Spec
=============================================================================
