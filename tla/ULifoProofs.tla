----------------------------- MODULE ULifoProofs ----------------------------
(***************************************************************************)
(* Proofs about ULifo, for any threads, any number of elements and any     *)
(* width of the tags.  That a successful compare-and-swap of a pop is right*)
(* is proved in URingProofs; here the elements are followed from one list  *)
(* to the other, through the hands of the threads.                         *)
(*                                                                         *)
(* For the refinement of Container, the elements of the ring are counted:  *)
(* as many as there are threads with an object in hand are off the lists,  *)
(* so that the one list is empty when the LIFO is full, and the other when *)
(* it is empty.                                                            *)
(***************************************************************************)
EXTENDS ULifo, Sequences, URingProofs

(* How far a thread is in its call, and what its registers hold there.     *)
Owner == {"set", "load", "link", "give"}

Registered(t) ==
    /\ mine[t] # NULL <=> pc[t] \in Owner
    /\ pc[t] \in Popping => old[t] # Nil
    /\ pc[t] \in {"link", "give"} => new[t] = Described(mine[t])
    /\ pc[t] = "give" => next[mine[t]] = old[t].index

(* Which elements are filled, and which threads have an object in hand.    *)
Filled ==
    /\ \A i \in On("lifo_carrier") : opaque[i] # None
    /\ \A i \in On("lifo_empty") : opaque[i] = None
    /\ \A t \in Threads :
         /\ pc[t] = "set" => (opaque[mine[t]] = None <=> op[t] = "push")
         /\ pc[t] \in Pushing => (opaque[mine[t]] = None <=> op[t] = "pop")

Argued(t) ==
    arg[t] # None <=> \/ op[t] = "push" /\ pc[t] \in Popping \cup {"set"}
                      \/ op[t] = "pop" /\ pc[t] \in Pushing

IInv ==
    /\ TypeOK
    /\ Chained("lifo_empty")
    /\ Chained("lifo_carrier")
    /\ Handed
    /\ \A t \in Threads : Registered(t)
    /\ \A t \in Threads : Snapshot(t, From(t))
    /\ Filled
    /\ \A t \in Threads : Argued(t)

-----------------------------------------------------------------------------
LEMMA InitInv == Init => IInv
<1> SUFFICES ASSUME Init PROVE IInv
  OBVIOUS
<1> USE DEF Init, RingInit
<1>1. TypeOK
  BY RingAssumption, ObjectsAssumption
  DEF TypeOK, RingTypeOK, Descriptors, Nil, Index, NULL, Popping, Pushing
<1>2. On("lifo_carrier") = {} /\ lifo["lifo_carrier"] = Nil
  BY ObjectsAssumption DEF On
<1>3. Chained("lifo_carrier")
  BY <1>2 DEF Chained
<1>4. Chained("lifo_empty")
  BY InitChained, ObjectsAssumption
<1>5. Handed
  BY RingAssumption, ObjectsAssumption DEF Handed, Index, NULL
<1>6. \A t \in Threads : Registered(t) /\ Snapshot(t, From(t))
  BY DEF Registered, Snapshot, Fresh, Owner, Popping
<1>7. Filled /\ \A t \in Threads : Argued(t)
  BY DEF Filled, Argued, Popping, Pushing, On
<1> QED BY <1>1, <1>3, <1>4, <1>5, <1>6, <1>7 DEF IInv

(* The two lists of a ulifo, and the one that a call takes from.           *)
LEMMA ListsOfCalls ==
    ASSUME TypeOK, NEW t \in Threads
    PROVE  /\ From(t) \in Lists /\ To(t) \in Lists
           /\ From(t) \in {"lifo_empty", "lifo_carrier"}
           /\ To(t) \in {"lifo_empty", "lifo_carrier"}
           /\ \A u \in Threads : u \notin Lists
BY RingAssumption, ObjectsAssumption DEF From, To, TypeOK

(* A step of t on its registers alone leaves lists and other threads.      *)
LEMMA LocalStep ==
    ASSUME IInv, NEW t \in Threads, pc[t] # "set",
           UNCHANGED <<tag, next, lifo, where, depth, mine>>,
           \A u \in Threads \ {t} :
             /\ pc'[u] = pc[u] /\ old'[u] = old[u] /\ succ'[u] = succ[u]
             /\ new'[u] = new[u] /\ op'[u] = op[u]
    PROVE  /\ Chained("lifo_empty")' /\ Chained("lifo_carrier")' /\ Handed'
           /\ \A u \in Threads \ {t} : Registered(u)' /\ Snapshot(u, From(u))'
<1>1. Chained("lifo_empty")' /\ Chained("lifo_carrier")' /\ Handed'
  BY DEF IInv, Chained, On, Described, Handed
<1>2. ASSUME NEW u \in Threads \ {t}
      PROVE  Registered(u)'
  BY <1>2 DEF IInv, Registered, Described
<1>3. ASSUME NEW u \in Threads \ {t}
      PROVE  Snapshot(u, From(u))'
  <2>1. From(u)' = From(u)
    BY DEF From
  <2>2. \A w \in Threads : pc[w] = "set" => pc'[w] = "set"
    OBVIOUS
  <2> QED BY <2>1, <2>2 DEF IInv, Snapshot, Fresh, Described
<1> QED BY <1>1, <1>2, <1>3

(* A load of the descriptor, by a thread that holds no element.            *)
LEMMA TryTopKnows ==
    ASSUME IInv, NEW t \in Threads, NEW l \in {"lifo_empty", "lifo_carrier"},
           TryTop(t, l), mine[t] = NULL,
           UNCHANGED <<tag, next, opaque, lifo, where, depth, mine>>,
           From(t)' = l
    PROVE  /\ old' \in [Threads -> Descriptors]
           /\ succ' \in [Threads -> Index \cup {NULL}]
           /\ new' \in [Threads -> Descriptors]
           /\ pc' \in [Threads -> {"idle", "set"} \cup Popping \cup Pushing]
           /\ Registered(t)' /\ Snapshot(t, From(t))'
<1> USE DEF IInv, TypeOK, RingTypeOK, TryTop, Registers, Goto
<1>1. l \in Lists
  BY ObjectsAssumption
<1>2. Nil \in Descriptors
  BY DEF Descriptors
<1>3. /\ old' \in [Threads -> Descriptors]
      /\ succ' \in [Threads -> Index \cup {NULL}]
      /\ new' \in [Threads -> Descriptors]
      /\ old'[t] = lifo[l]
  BY <1>1, <1>2
<1>4. /\ pc' \in [Threads -> {"idle", "set"} \cup Popping \cup Pushing]
      /\ pc'[t] \in {"idle", "next"}
      /\ pc'[t] = "next" => old'[t] # Nil
  BY <1>3 DEF Popping
<1>5. Registered(t)'
  BY <1>4 DEF Registered, Popping, Owner
<1>6. Snapshot(t, From(t))'
  BY <1>3, <1>4 DEF Snapshot, Fresh, Popping, Chained, On, Described
<1> QED BY <1>3, <1>4, <1>5, <1>6

-----------------------------------------------------------------------------
LEMMA CallPushInv ==
    ASSUME IInv, NEW t \in Threads, NEW v \in outside, CallPush(t, v)
    PROVE  IInv'
<1> USE DEF CallPush
<1>1. mine[t] = NULL /\ From(t)' = "lifo_empty"
  BY DEF IInv, Registered, Owner, From, TypeOK
<1>2. /\ old' \in [Threads -> Descriptors]
      /\ succ' \in [Threads -> Index \cup {NULL}]
      /\ new' \in [Threads -> Descriptors]
      /\ pc' \in [Threads -> {"idle", "set"} \cup Popping \cup Pushing]
      /\ Registered(t)' /\ Snapshot(t, From(t))'
  BY <1>1, TryTopKnows
<1>3. TypeOK'
  BY <1>2 DEF IInv, TypeOK, RingTypeOK
<1>4. /\ Chained("lifo_empty")' /\ Chained("lifo_carrier")' /\ Handed'
      /\ \A u \in Threads \ {t} : Registered(u)' /\ Snapshot(u, From(u))'
  BY LocalStep DEF IInv, TypeOK, RingTypeOK, TryTop, Registers, Goto
<1>5. Filled' /\ \A u \in Threads : Argued(u)'
  BY ObjectsAssumption
  DEF IInv, TypeOK, RingTypeOK, Filled, Argued, On, Popping, Pushing, TryTop, Registers, Goto
<1> QED BY <1>2, <1>3, <1>4, <1>5 DEF IInv

LEMMA CallPopInv ==
    ASSUME IInv, NEW t \in Threads, CallPop(t)
    PROVE  IInv'
<1> USE DEF CallPop
<1>1. mine[t] = NULL /\ From(t)' = "lifo_carrier"
  BY DEF IInv, Registered, Owner, From, TypeOK
<1>2. /\ old' \in [Threads -> Descriptors]
      /\ succ' \in [Threads -> Index \cup {NULL}]
      /\ new' \in [Threads -> Descriptors]
      /\ pc' \in [Threads -> {"idle", "set"} \cup Popping \cup Pushing]
      /\ Registered(t)' /\ Snapshot(t, From(t))'
  BY <1>1, TryTopKnows
<1>3. TypeOK'
  BY <1>2 DEF IInv, TypeOK, RingTypeOK
<1>4. /\ Chained("lifo_empty")' /\ Chained("lifo_carrier")' /\ Handed'
      /\ \A u \in Threads \ {t} : Registered(u)' /\ Snapshot(u, From(u))'
  BY LocalStep DEF IInv, TypeOK, RingTypeOK, TryTop, Registers, Goto
<1>5. Filled' /\ \A u \in Threads : Argued(u)'
  BY ObjectsAssumption
  DEF IInv, TypeOK, RingTypeOK, Filled, Argued, On, Popping, Pushing, TryTop, Registers, Goto
<1> QED BY <1>2, <1>3, <1>4, <1>5 DEF IInv

LEMMA PopNextInv ==
    ASSUME IInv, NEW t \in Threads, PopNext(t), UNCHANGED <<op, arg, outside>>
    PROVE  IInv'
<1> USE DEF PopNext, Goto
<1>1. old[t].index \in Index
  BY DescriptorIndex DEF IInv, TypeOK, RingTypeOK, Registered, Popping
<1>2. TypeOK'
  BY <1>1 DEF IInv, TypeOK, RingTypeOK, Popping
<1>3. /\ Chained("lifo_empty")' /\ Chained("lifo_carrier")' /\ Handed'
      /\ \A u \in Threads \ {t} : Registered(u)' /\ Snapshot(u, From(u))'
  BY LocalStep DEF IInv, TypeOK, RingTypeOK
<1>4. pc'[t] = "tag" /\ succ'[t] = next[old[t].index]
  BY DEF IInv, TypeOK, RingTypeOK
<1>5. Registered(t)'
  BY <1>4 DEF IInv, Registered, Popping, Owner
<1>6. Snapshot(t, From(t))'
  <2>1. \A u \in Threads : pc[u] = "set" => pc'[u] = "set"
    BY DEF IInv, TypeOK
  <2>2. From(t)' = From(t)
    BY DEF From
  <2> QED BY <1>4, <2>1, <2>2 DEF IInv, Snapshot, Fresh, Popping
<1>7. Filled' /\ \A u \in Threads : Argued(u)'
  BY DEF IInv, TypeOK, Filled, Argued, On, Popping, Pushing
<1> QED BY <1>2, <1>3, <1>5, <1>6, <1>7 DEF IInv

LEMMA PopTagInv ==
    ASSUME IInv, NEW t \in Threads, PopTag(t), UNCHANGED <<op, arg, outside>>
    PROVE  IInv'
<1> USE DEF PopTag, Goto
<1>1. Described(succ[t]) \in Descriptors
  BY DescribedType DEF IInv, TypeOK, RingTypeOK
<1>2. TypeOK'
  BY <1>1 DEF IInv, TypeOK, RingTypeOK, Popping
<1>3. /\ Chained("lifo_empty")' /\ Chained("lifo_carrier")' /\ Handed'
      /\ \A u \in Threads \ {t} : Registered(u)' /\ Snapshot(u, From(u))'
  BY LocalStep DEF IInv, TypeOK, RingTypeOK
<1>4. pc'[t] = "swap" /\ new'[t] = Described(succ[t])
  BY DEF IInv, TypeOK, RingTypeOK
<1>5. Registered(t)'
  BY <1>4 DEF IInv, Registered, Popping, Owner
<1>6. Snapshot(t, From(t))'
  <2>1. \A u \in Threads : pc[u] = "set" => pc'[u] = "set"
    BY DEF IInv, TypeOK
  <2>2. From(t)' = From(t)
    BY DEF From
  <2> QED BY <1>4, <2>1, <2>2 DEF IInv, Snapshot, Fresh, Popping, Described
<1>7. Filled' /\ \A u \in Threads : Argued(u)'
  BY DEF IInv, TypeOK, Filled, Argued, On, Popping, Pushing
<1> QED BY <1>2, <1>3, <1>5, <1>6, <1>7 DEF IInv

LEMMA PushLoadInv ==
    ASSUME IInv, NEW t \in Threads, PushLoad(t, To(t)), UNCHANGED <<op, arg, outside>>
    PROVE  IInv'
<1> USE DEF PushLoad, Goto, Registers
<1>1. /\ Described(mine[t]) \in Descriptors
      /\ lifo[To(t)] \in Descriptors
  BY DescribedType, ListsOfCalls DEF IInv, TypeOK, RingTypeOK
<1>2. TypeOK'
  BY <1>1 DEF IInv, TypeOK, RingTypeOK, Pushing
<1>3. /\ Chained("lifo_empty")' /\ Chained("lifo_carrier")' /\ Handed'
      /\ \A u \in Threads \ {t} : Registered(u)' /\ Snapshot(u, From(u))'
  BY LocalStep DEF IInv, TypeOK, RingTypeOK
<1>4. pc'[t] = "link" /\ new'[t] = Described(mine[t])
  BY DEF IInv, TypeOK, RingTypeOK
<1>5. Registered(t)' /\ Snapshot(t, From(t))'
  BY <1>4 DEF IInv, Registered, Popping, Owner, Described, Snapshot, Fresh
<1>6. Filled' /\ \A u \in Threads : Argued(u)'
  BY DEF IInv, TypeOK, Filled, Argued, On, Popping, Pushing
<1> QED BY <1>2, <1>3, <1>5, <1>6 DEF IInv

(* A step of the owner of an element on that element: it is on no list.    *)
LEMMA OwnElement ==
    ASSUME IInv, NEW t \in Threads, pc[t] \in Owner
    PROVE  /\ mine[t] \in Index /\ where[mine[t]] = t
           /\ \A l \in {"lifo_empty", "lifo_carrier"} :
                /\ mine[t] \notin On(l)
                /\ \A i \in On(l) : next[i] # mine[t]
           /\ \A u \in Threads \ {t} : mine[u] # mine[t]
<1>1. mine[t] \in Index /\ where[mine[t]] = t
  BY DEF IInv, TypeOK, RingTypeOK, Registered, Handed
<1>2. \A l \in {"lifo_empty", "lifo_carrier"} : mine[t] \notin On(l)
  BY <1>1, ListsOfCalls, ObjectsAssumption DEF On, IInv
<1>3. \A l \in {"lifo_empty", "lifo_carrier"} : \A i \in On(l) : next[i] # mine[t]
  BY <1>1, <1>2 DEF IInv, Chained, Index, NULL
<1>4. \A u \in Threads \ {t} : mine[u] # mine[t]
  BY <1>1 DEF IInv, Handed
<1> QED BY <1>1, <1>2, <1>3, <1>4

LEMMA PushLinkInv ==
    ASSUME IInv, NEW t \in Threads, PushLink(t), UNCHANGED <<op, arg, outside>>
    PROVE  IInv'
<1> USE DEF PushLink, Goto
<1> DEFINE i == mine[t]
<1>1. /\ i \in Index /\ where[i] = t
      /\ \A l \in {"lifo_empty", "lifo_carrier"} :
           /\ i \notin On(l)
           /\ \A j \in On(l) : next[j] # i
      /\ \A u \in Threads \ {t} : mine[u] # i
  BY OwnElement DEF Owner
<1>2. old[t].index \in Index \cup {NULL}
  BY DescriptorIndex DEF IInv, TypeOK, RingTypeOK
<1>3. TypeOK'
  BY <1>1, <1>2 DEF IInv, TypeOK, RingTypeOK, Pushing
<1>4. \A j \in Index \ {i} : next'[j] = next[j]
  BY DEF IInv, TypeOK, RingTypeOK
<1>5. Chained("lifo_empty")' /\ Chained("lifo_carrier")'
  <2>1. ASSUME NEW l \in {"lifo_empty", "lifo_carrier"}
        PROVE  Chained(l)'
    BY <1>1, <1>4, ChainKept DEF IInv, TypeOK, On
  <2> QED BY <2>1
<1>6. Handed'
  BY DEF IInv, Handed
<1>7. /\ pc'[t] = "give" /\ next'[i] = old[t].index
      /\ \A u \in Threads \ {t} : pc'[u] = pc[u]
  BY <1>1 DEF IInv, TypeOK, RingTypeOK
<1>8. ASSUME NEW u \in Threads
      PROVE  Registered(u)'
  <2>1. CASE u = t
    BY <2>1, <1>7, <1>1 DEF IInv, Registered, Owner, Popping, Described
  <2>2. CASE u # t
    <3>1. pc[u] = "give" => mine[u] \in Index \ {i}
      BY <2>2, OwnElement, <1>1 DEF Owner
    <3> QED BY <2>2, <3>1, <1>4, <1>7 DEF IInv, Registered, Described
  <2> QED BY <2>1, <2>2
<1>9. ASSUME NEW u \in Threads
      PROVE  Snapshot(u, From(u))'
  <2> DEFINE k == old[u].index
  <2>1. CASE u = t
    BY <2>1, <1>7 DEF Snapshot, Fresh, Popping
  <2>2. CASE u # t
    <3>1. From(u)' = From(u) /\ From(u) \in {"lifo_empty", "lifo_carrier"}
      BY ListsOfCalls DEF From, IInv
    <3>2. where[k] = From(u) => k # i
      BY <1>1, <3>1, ListsOfCalls, ObjectsAssumption DEF IInv
    <3>3. pc[u] \in Popping => k \in Index
      BY DescriptorIndex DEF IInv, TypeOK, RingTypeOK, Registered
    <3>4. \A w \in Threads : pc[w] = "set" => pc'[w] = "set"
      BY <1>7
    <3>5. Fresh(u)' <=> Fresh(u)
      BY <2>2, <1>7 DEF Fresh
    <3>6. Fresh(u) /\ where[k] = From(u) =>
            /\ next'[k] = next[k]
            /\ Described(next[k])' = Described(next[k])
      BY <3>2, <3>3, <1>4 DEF Fresh, Described
    <3>7. Snapshot(u, From(u))
      BY DEF IInv
    <3> QED BY <2>2, <3>1, <3>4, <3>5, <3>6, <3>7, <1>7 DEF Snapshot
  <2> QED BY <2>1, <2>2
<1>10. Filled' /\ \A u \in Threads : Argued(u)'
  BY DEF IInv, TypeOK, Filled, Argued, On, Popping, Pushing
<1> QED BY <1>3, <1>5, <1>6, <1>8, <1>9, <1>10 DEF IInv

LEMMA SetInv ==
    ASSUME IInv, NEW t \in Threads, Set(t)
    PROVE  IInv'
<1> USE DEF Set, ElemSet, Goto
<1> DEFINE i == mine[t]
           n == (tag[i] + 1) % TagMod
<1>1. /\ i \in Index /\ where[i] = t
      /\ \A l \in {"lifo_empty", "lifo_carrier"} :
           /\ i \notin On(l)
           /\ \A j \in On(l) : next[j] # i
      /\ \A u \in Threads \ {t} : mine[u] # i
  BY OwnElement DEF Owner
<1>2. n \in 0..(TagMod - 1)
  BY <1>1, RingAssumption DEF IInv, TypeOK, RingTypeOK
<1> HIDE DEF n
<1>3. TypeOK'
  BY <1>1, <1>2 DEF IInv, TypeOK, RingTypeOK, Pushing, n
<1>4. \A j \in Index \ {i} : tag'[j] = tag[j] /\ opaque'[j] = opaque[j]
  BY DEF IInv, TypeOK, RingTypeOK
<1>5. Chained("lifo_empty")' /\ Chained("lifo_carrier")'
  <2>1. ASSUME NEW l \in {"lifo_empty", "lifo_carrier"}
        PROVE  Chained(l)'
    BY <1>1, <1>4, ChainKept DEF IInv, TypeOK, On
  <2> QED BY <2>1
<1>6. Handed'
  BY DEF IInv, Handed
<1>7. /\ pc'[t] = "load" /\ tag'[i] = n
      /\ \A u \in Threads \ {t} : pc'[u] = pc[u]
  BY <1>1 DEF IInv, TypeOK, RingTypeOK, n
<1>8. ASSUME NEW u \in Threads
      PROVE  Registered(u)'
  <2>1. CASE u = t
    BY <2>1, <1>7, <1>1 DEF IInv, Registered, Owner, Popping
  <2>2. CASE u # t
    <3>1. pc[u] \in {"link", "give"} => mine[u] \in Index \ {i}
      BY <2>2, OwnElement, <1>1 DEF Owner
    <3>2. pc[u] \in {"link", "give"} =>
            Described(mine[u])' = Described(mine[u])
      BY <3>1, <1>4 DEF Described
    <3> QED BY <2>2, <3>2, <1>7 DEF IInv, Registered
  <2> QED BY <2>1, <2>2
<1>9. ASSUME NEW u \in Threads, Fresh(u)'
      PROVE  Snapshot(u, From(u))'
  <2> DEFINE k == old[u].index
  <2>1. u # t /\ pc'[u] = pc[u] /\ pc[u] \in Popping
    BY <1>7, <1>9 DEF Fresh, Popping
  <2>2. k \in Index /\ old[u] = [tag |-> old[u].tag, index |-> k]
    BY <2>1, DescriptorIndex
    DEF IInv, TypeOK, RingTypeOK, Registered, Descriptors, Nil
  <2>3. k # i
    BY <2>1, <2>2, <1>7, <1>9 DEF Fresh, NotFullCircle, n
  <2>4. Fresh(u)
    BY <2>1, <2>2, <2>3, <1>4, <1>9 DEF Fresh
  <2>5. From(u)' = From(u) /\ From(u) \in {"lifo_empty", "lifo_carrier"}
    BY ListsOfCalls DEF From, IInv
  <2>6. where[k] # t
    BY <2>2, <2>3 DEF IInv, Handed
  <2>7. where[k] = From(u) => Described(next[k])' = Described(next[k])
    <3> SUFFICES ASSUME where[k] = From(u)
                 PROVE  Described(next[k])' = Described(next[k])
      OBVIOUS
    <3>1. next[k] \in (Index \ {i}) \cup {NULL}
      BY <2>2, <2>5, <1>1 DEF On, IInv, TypeOK, RingTypeOK
    <3> QED BY <3>1, <1>4 DEF Described
  <2> QED BY <2>1, <2>2, <2>4, <2>5, <2>6, <2>7, <1>7 DEF IInv, Snapshot
<1>10. Filled' /\ \A u \in Threads : Argued(u)'
  <2>1. opaque'[i] = IF op[t] = "push" THEN arg[t] ELSE None
    BY <1>1 DEF IInv, TypeOK
  <2>2. ASSUME NEW u \in Threads
        PROVE  Argued(u)'
    BY ObjectsAssumption DEF IInv, TypeOK, Filled, Argued, Popping, Pushing
  <2>3. \A l \in {"lifo_empty", "lifo_carrier"} : On(l)' = On(l) /\ On(l) \subseteq Index \ {i}
    BY <1>1 DEF On
  <2>4. ASSUME NEW u \in Threads
        PROVE  /\ pc'[u] = "set" => (opaque'[mine[u]] = None <=> op[u] = "push")
               /\ pc'[u] \in Pushing => (opaque'[mine[u]] = None <=> op[u] = "pop")
    <3>1. CASE u = t
      BY <3>1, <2>1, <1>7 DEF IInv, TypeOK, Filled, Argued, Pushing
    <3>2. CASE u # t
      <4>1. pc[u] \in Owner => mine[u] \in Index \ {i}
        BY <3>2, <1>1, OwnElement
      <4> QED BY <3>2, <4>1, <1>4, <1>7 DEF IInv, Filled, Owner, Pushing
    <3> QED BY <3>1, <3>2
  <2> QED BY <2>2, <2>3, <2>4, <1>4 DEF IInv, Filled
<1>11. \A u \in Threads : Snapshot(u, From(u))'
  BY <1>9 DEF Snapshot
<1> QED BY <1>3, <1>5, <1>6, <1>8, <1>10, <1>11 DEF IInv

(* The tag tells: at a successful compare-and-swap of a pop, the element   *)
(* is the top and the new descriptor is that of the element behind it.     *)
LEMMA SwapKnows ==
    ASSUME IInv, NEW t \in Threads, pc[t] = "swap", lifo[From(t)] = old[t]
    PROVE  LET i == old[t].index
           IN  /\ i \in On(From(t)) /\ i \in Index
               /\ old[t] # Nil /\ i = lifo[From(t)].index
               /\ new[t] = Described(next[i])
<1> DEFINE i == old[t].index
           l == From(t)
<1>1. l \in {"lifo_empty", "lifo_carrier"} /\ old[t] # Nil
  BY ListsOfCalls DEF IInv, Registered, Popping
<1>2. /\ i \in On(l) /\ i \in Index /\ i = lifo[l].index
      /\ new[t] = Described(next[i])
  BY <1>1, SwapSeesTop DEF IInv
<1> QED BY <1>1, <1>2

LEMMA TakeInv ==
    ASSUME IInv, NEW t \in Threads, Take(t)
    PROVE  IInv'
<1> USE DEF Take, PopSwap, Goto
<1> DEFINE i == old[t].index
           l == From(t)
<1>1. /\ l \in {"lifo_empty", "lifo_carrier"} /\ l \in Lists /\ t # l
      /\ From(t)' = l
  BY ListsOfCalls DEF IInv, From
<1>2. mine[t] = NULL
  BY DEF IInv, Registered, Owner
<1>3. CASE lifo[l] # old[t]
  <2>1. TryTop(t, l) /\ UNCHANGED <<lifo, mine, where, depth>>
    BY <1>3
  <2>2. /\ old' \in [Threads -> Descriptors]
        /\ succ' \in [Threads -> Index \cup {NULL}]
        /\ new' \in [Threads -> Descriptors]
        /\ pc' \in [Threads -> {"idle", "set"} \cup Popping \cup Pushing]
        /\ Registered(t)' /\ Snapshot(t, From(t))'
    BY <1>1, <1>2, <2>1, TryTopKnows
  <2>3. /\ arg' \in [Threads -> Objects \cup {None}]
        /\ outside' \subseteq Objects
    BY DEF IInv, TypeOK, Argued, Popping
  <2>4. TypeOK'
    BY <2>1, <2>2, <2>3 DEF IInv, TypeOK, RingTypeOK
  <2>5. /\ Chained("lifo_empty")' /\ Chained("lifo_carrier")' /\ Handed'
        /\ \A u \in Threads \ {t} : Registered(u)' /\ Snapshot(u, From(u))'
    BY <2>1, LocalStep DEF IInv, TypeOK, RingTypeOK, TryTop, Registers
  <2>6. Filled'
    BY <2>1 DEF IInv, TypeOK, Filled, On, Pushing, TryTop
  <2>7. \A u \in Threads : Argued(u)'
    BY <2>1 DEF IInv, TypeOK, Argued, Popping, Pushing, TryTop
  <2> QED BY <2>2, <2>4, <2>5, <2>6, <2>7 DEF IInv
<1>4. CASE lifo[l] = old[t]
  <2>1. /\ i \in On(l) /\ i \in Index /\ where[i] = l
        /\ old[t] # Nil /\ i = lifo[l].index
        /\ new[t] = Described(next[i])
    BY <1>4, SwapKnows DEF On
  <2>2. /\ lifo' = [lifo EXCEPT ![l] = new[t]]
        /\ mine' = [mine EXCEPT ![t] = i]
        /\ where' = [where EXCEPT ![i] = t]
        /\ depth' = [depth EXCEPT ![i] = 0]
        /\ Registers(t, Nil, NULL, Nil)
        /\ pc' = [pc EXCEPT ![t] = "set"]
    BY <1>4
  <2>3. UNCHANGED <<tag, next, opaque, op, arg, outside>>
    BY <2>2 DEF IInv, TypeOK
  <2>4. TypeOK'
    BY <1>1, <2>1, <2>2, <2>3 DEF IInv, TypeOK, RingTypeOK, Registers, Descriptors
  <2>5. Chained(l)'
    <3>1. where \in [Index -> Lists \cup Threads]
      BY ObjectsAssumption DEF IInv, TypeOK
    <3>2. Chained(l)
      BY <1>1 DEF IInv
    <3>3. lifo[l] # Nil
      BY <2>1, <1>4
    <3> QED BY <1>1, <2>1, <2>2, <2>3, <3>1, <3>2, <3>3, ChainPop DEF IInv, TypeOK
  <2>6. ASSUME NEW m \in {"lifo_empty", "lifo_carrier"}, m # l
        PROVE  Chained(m)'
    <3>1. \A j \in Index \ {i} : where'[j] = where[j] /\ depth'[j] = depth[j]
      BY <2>2 DEF IInv, TypeOK, RingTypeOK
    <3>2. where'[i] # m
      BY <2>1, <2>2, ListsOfCalls, ObjectsAssumption DEF IInv, TypeOK
    <3>3. lifo'[m] = lifo[m]
      BY <2>2, <2>6, ObjectsAssumption DEF IInv, TypeOK, RingTypeOK
    <3>4. Chained(m) /\ RingTypeOK
      BY DEF IInv, TypeOK
    <3> QED BY <2>1, <2>3, <2>6, <3>1, <3>2, <3>3, <3>4, ChainKept DEF On
  <2>7. Handed'
    BY <1>1, <1>2, <2>1, <2>2, ListsOfCalls
    DEF IInv, Handed, TypeOK, RingTypeOK, Index, NULL
  <2>8. /\ pc'[t] = "set" /\ mine'[t] = i /\ where'[i] = t
        /\ \A u \in Threads \ {t} :
             /\ pc'[u] = pc[u] /\ mine'[u] = mine[u]
             /\ old'[u] = old[u] /\ succ'[u] = succ[u] /\ new'[u] = new[u]
        /\ \A j \in Index \ {i} : where'[j] = where[j]
    BY <2>1, <2>2 DEF IInv, TypeOK, RingTypeOK, Registers
  <2>9. ASSUME NEW u \in Threads
        PROVE  Registered(u)'
    <3>1. CASE u = t
      BY <3>1, <2>1, <2>8 DEF Registered, Owner, Popping, Index, NULL
    <3>2. CASE u # t
      BY <3>2, <2>3, <2>8 DEF IInv, Registered, Described
    <3> QED BY <3>1, <3>2
  <2>10. ASSUME NEW u \in Threads
         PROVE  Snapshot(u, From(u))'
    <3> DEFINE k == old[u].index
    <3>1. CASE u = t
      BY <3>1, <2>8 DEF Snapshot, Fresh, Popping
    <3>2. CASE u # t
      <4>1. From(u)' = From(u) /\ From(u) \in {"lifo_empty", "lifo_carrier"}
        BY <2>3, ListsOfCalls DEF From, IInv
      <4>2. (Fresh(u)' <=> Fresh(u)) /\ (Fresh(u) => k \in Index)
        BY <3>2, <2>3, <2>8, DescriptorIndex
        DEF Fresh, IInv, TypeOK, RingTypeOK, Registered
      <4>3. Described(next[k])' = Described(next[k])
        BY <3>2, <2>3, <2>8 DEF Described
      <4>4. Snapshot(u, From(u))
        BY DEF IInv
      <4>5. CASE k = i
        <5>1. where'[k] = t /\ where'[k] # From(u)
          BY <4>1, <4>5, <2>8, ListsOfCalls, ObjectsAssumption DEF IInv
        <5> QED BY <5>1, <4>1, <4>2, <3>2, <2>8 DEF Snapshot
      <4>6. CASE k # i
        <5>1. Fresh(u) => where'[k] = where[k]
          BY <4>2, <4>6, <2>8
        <5>2. \A w \in Threads : pc[w] = "set" => pc'[w] = "set"
          BY <2>8
        <5> QED BY <5>1, <5>2, <4>1, <4>2, <4>3, <4>4, <3>2, <2>3, <2>8 DEF Snapshot
      <4> QED BY <4>5, <4>6
    <3> QED BY <3>1, <3>2
  <2>11. Filled'
    <3>1. \A m \in {"lifo_empty", "lifo_carrier"} : On(m)' \subseteq On(m)
      BY <2>8, <1>1, ListsOfCalls, ObjectsAssumption DEF On, IInv
    <3>2. opaque'[mine'[t]] = None <=> op'[t] = "push"
      BY <2>1, <2>3, <2>8 DEF IInv, TypeOK, Filled, From, On
    <3> QED BY <3>1, <3>2, <2>3, <2>8 DEF IInv, Filled, Pushing
  <2>12. \A u \in Threads : Argued(u)'
    BY <2>3, <2>8 DEF IInv, Argued, Popping, Pushing
  <2> QED BY <1>1, <2>4, <2>5, <2>6, <2>7, <2>9, <2>10, <2>11, <2>12 DEF IInv
<1> QED BY <1>3, <1>4

LEMMA GiveInv ==
    ASSUME IInv, NEW t \in Threads, Give(t)
    PROVE  IInv'
<1> USE DEF Give, PushSwap, Goto
<1> DEFINE i == mine[t]
           l == To(t)
<1>1. /\ l \in {"lifo_empty", "lifo_carrier"} /\ l \in Lists /\ t # l
      /\ To(t)' = l
  BY ListsOfCalls DEF IInv, To
<1>2. /\ i \in Index /\ where[i] = t /\ i # NULL
      /\ \A m \in {"lifo_empty", "lifo_carrier"} : i \notin On(m)
      /\ \A u \in Threads \ {t} : mine[u] # i
  BY OwnElement DEF Owner, Index, NULL
<1>3. new[t] = Described(i) /\ next[i] = old[t].index
  BY DEF IInv, Registered
<1>4. /\ arg' \in [Threads -> Objects \cup {None}]
      /\ outside' \subseteq Objects
  BY DEF IInv, TypeOK
<1>5. CASE lifo[l] # old[t]
  <2>1. /\ Registers(t, lifo[l], NULL, new[t])
        /\ pc' = [pc EXCEPT ![t] = "link"]
        /\ UNCHANGED <<tag, next, opaque, lifo, where, depth, mine, op>>
    BY <1>5
  <2>2. pc'[t] = "link" /\ UNCHANGED <<arg, outside>>
    BY <2>1 DEF IInv, TypeOK
  <2>3. TypeOK'
    BY <1>1, <1>4, <2>1, <2>2 DEF IInv, TypeOK, RingTypeOK, Registers, Pushing
  <2>4. /\ Chained("lifo_empty")' /\ Chained("lifo_carrier")' /\ Handed'
        /\ \A u \in Threads \ {t} : Registered(u)' /\ Snapshot(u, From(u))'
    BY <2>1, LocalStep DEF IInv, TypeOK, RingTypeOK, Registers
  <2>5. Registered(t)' /\ Snapshot(t, From(t))'
    BY <1>2, <1>3, <2>1, <2>2
    DEF IInv, TypeOK, RingTypeOK, Registers, Registered, Snapshot, Fresh, Popping,
        Owner, Described
  <2>6. Filled' /\ \A u \in Threads : Argued(u)'
    BY <2>1, <2>2 DEF IInv, TypeOK, Filled, Argued, On, Pushing, Popping
  <2> QED BY <2>3, <2>4, <2>5, <2>6 DEF IInv
<1>6. CASE lifo[l] = old[t]
  <2>1. /\ lifo' = [lifo EXCEPT ![l] = Described(i)]
        /\ where' = [where EXCEPT ![i] = l]
        /\ depth' = [depth EXCEPT ![i] =
                        IF lifo[l] = Nil THEN 1 ELSE depth[lifo[l].index] + 1]
        /\ mine' = [mine EXCEPT ![t] = NULL]
        /\ Registers(t, Nil, NULL, Nil)
        /\ pc' = [pc EXCEPT ![t] = "idle"]
        /\ UNCHANGED <<tag, next, opaque, op>>
    BY <1>3, <1>6
  <2>2. lifo[l] # Nil => lifo[l].index \in Index
    BY <1>1, DescriptorIndex DEF IInv, TypeOK, RingTypeOK
  <2>3. TypeOK'
    <3>1. Described(i) \in Descriptors
      BY <1>2, DescribedType DEF IInv, TypeOK
    <3>2. depth' \in [Index -> Nat]
      <4>1. (IF lifo[l] = Nil THEN 1 ELSE depth[lifo[l].index] + 1) \in Nat
        BY <2>2 DEF IInv, TypeOK, RingTypeOK
      <4> QED BY <2>1, <4>1 DEF IInv, TypeOK, RingTypeOK
    <3>3. /\ lifo' \in [Lists -> Descriptors]
          /\ where' \in [Index -> {"lifo_empty", "lifo_carrier"} \cup Threads]
      BY <1>1, <2>1, <3>1 DEF IInv, TypeOK, RingTypeOK
    <3>4. /\ old' \in [Threads -> Descriptors] /\ new' \in [Threads -> Descriptors]
          /\ succ' \in [Threads -> Index \cup {NULL}]
      BY <2>1 DEF IInv, TypeOK, RingTypeOK, Registers, Descriptors
    <3> QED BY <1>4, <2>1, <3>2, <3>3, <3>4 DEF IInv, TypeOK, RingTypeOK
  <2>4. Chained(l)'
    <3>1. Chained(l) /\ RingTypeOK /\ i \notin On(l) /\ next[i] = lifo[l].index
      BY <1>1, <1>2, <1>3, <1>6 DEF IInv, TypeOK
    <3>2. where \in [Index -> {"lifo_empty", "lifo_carrier"} \cup Threads]
      BY DEF IInv, TypeOK
    <3> QED BY <1>1, <1>2, <2>1, <3>1, <3>2, ChainPush
  <2>5. /\ pc'[t] = "idle" /\ mine'[t] = NULL /\ where'[i] = l
        /\ \A u \in Threads \ {t} :
             /\ pc'[u] = pc[u] /\ mine'[u] = mine[u]
             /\ old'[u] = old[u] /\ succ'[u] = succ[u] /\ new'[u] = new[u]
        /\ \A j \in Index \ {i} : where'[j] = where[j] /\ depth'[j] = depth[j]
    BY <1>2, <2>1 DEF IInv, TypeOK, RingTypeOK, Registers
  <2>6. ASSUME NEW m \in {"lifo_empty", "lifo_carrier"}, m # l
        PROVE  Chained(m)'
    <3>1. lifo'[m] = lifo[m]
      BY <2>1, <2>6, ObjectsAssumption DEF IInv, TypeOK, RingTypeOK
    <3>2. Chained(m) /\ RingTypeOK /\ i \notin On(m)
      BY <1>2 DEF IInv, TypeOK
    <3> QED BY <1>2, <2>1, <2>5, <2>6, <3>1, <3>2, ChainKept DEF On
  <2>7. Handed'
    <3>1. \A u \in Threads : l # u
      BY <1>1, ListsOfCalls DEF IInv
    <3> QED BY <3>1, <1>2, <2>5 DEF IInv, Handed, Index, NULL
  <2>8. ASSUME NEW u \in Threads
        PROVE  Registered(u)'
    <3>1. CASE u = t
      BY <3>1, <2>5 DEF Registered, Owner, Popping
    <3>2. CASE u # t
      BY <3>2, <2>1, <2>5 DEF IInv, Registered, Described
    <3> QED BY <3>1, <3>2
  <2>9. ASSUME NEW u \in Threads
        PROVE  Snapshot(u, From(u))'
    <3> DEFINE k == old[u].index
    <3>1. CASE u = t
      BY <3>1, <2>5 DEF Snapshot, Fresh, Popping
    <3>2. CASE u # t
      <4>1. From(u)' = From(u) /\ From(u) \in {"lifo_empty", "lifo_carrier"}
        BY <2>1, ListsOfCalls DEF From, IInv
      <4>2. (Fresh(u)' <=> Fresh(u)) /\ (Fresh(u) => k \in Index)
        BY <3>2, <2>1, <2>5, DescriptorIndex
        DEF Fresh, IInv, TypeOK, RingTypeOK, Registered
      <4>3. Described(next[k])' = Described(next[k])
        BY <3>2, <2>1, <2>5 DEF Described
      <4>4. Snapshot(u, From(u))
        BY DEF IInv
      <4>5. Fresh(u) => k # i
        BY <1>2, <4>1, <4>4, ListsOfCalls, ObjectsAssumption
        DEF IInv, Snapshot
      <4>6. Fresh(u) => where'[k] = where[k] /\ where[k] # t
        BY <4>2, <4>5, <2>5, <1>2 DEF IInv, Handed
      <4> QED BY <3>2, <4>1, <4>2, <4>3, <4>4, <4>6, <2>1, <2>5 DEF Snapshot
    <3> QED BY <3>1, <3>2
  <2>10. Filled'
    <3>1. \A m \in {"lifo_empty", "lifo_carrier"} :
            On(m)' = IF m = l THEN On(m) \cup {i} ELSE On(m)
      BY <1>2, <2>5 DEF On
    <3>2. opaque[i] = None <=> l = "lifo_empty"
      BY DEF IInv, Filled, Pushing, To, TypeOK
    <3> QED BY <3>1, <3>2, <2>1, <2>5 DEF IInv, Filled, Pushing
  <2>11. \A u \in Threads : Argued(u)'
    BY <2>1, <2>5 DEF IInv, TypeOK, Argued, Popping, Pushing
  <2> QED BY <1>1, <2>3, <2>4, <2>6, <2>7, <2>8, <2>9, <2>10, <2>11 DEF IInv
<1> QED BY <1>5, <1>6

-----------------------------------------------------------------------------
LEMMA NextInv == IInv /\ [Next]_vars => IInv'
<1> SUFFICES ASSUME IInv, [Next]_vars PROVE IInv'
  OBVIOUS
<1>1. ASSUME NEW t \in Threads, Call(t)
      PROVE  IInv'
  BY <1>1, CallPushInv, CallPopInv DEF Call
<1>2. ASSUME NEW t \in Threads, Step(t)
      PROVE  IInv'
  BY <1>2, PopNextInv, PopTagInv, PushLoadInv, PushLinkInv, TakeInv, SetInv, GiveInv
  DEF Step, RingStep
<1>3. CASE UNCHANGED vars
  BY <1>3 DEF vars, ring, IInv, TypeOK, RingTypeOK, Chained, On, Handed, Registered,
     Snapshot, Fresh, From, Described, Filled, Argued
<1> QED BY <1>1, <1>2, <1>3 DEF Next

THEOREM Invariance == Spec => []IInv
BY InitInv, NextInv, PTL DEF Spec

(* What threads read and write of a ring stays in its bounds: in particular*)
(* every index that a step dereferences is one of an element.              *)
THEOREM TypeCorrect == Spec => []TypeOK
<1>1. IInv => TypeOK
  BY DEF IInv
<1> QED BY <1>1, Invariance, PTL

(* However threads interleave in uring_lifo_pop and uring_lifo_push, and   *)
(* with tags of any width that do not come full circle during one attempt, *)
(* the two lists of a ulifo stay chained and disjoint, and an element is   *)
(* never given to two threads.                                             *)
THEOREM ListsStayIntact == Spec => []ListsIntact
<1>1. IInv => ListsIntact
  BY DEF IInv, ListsIntact
<1> QED BY <1>1, Invariance, PTL

-----------------------------------------------------------------------------
(* Objects move from one holder to one other.                              *)
OneHolder == \A v \in Objects : \E h \in Holders(v) : Holders(v) = {h}

(* A step that moves at most one object, from a to b.                      *)
LEMMA ObjectMoves ==
    ASSUME OneHolder, NEW o, NEW a, NEW b,
           o \in Objects => a \in Holders(o) /\ Holders(o)' = (Holders(o) \ {a}) \cup {b},
           \A v \in Objects \ {o} : Holders(v)' = Holders(v)
    PROVE  OneHolder'
<1> SUFFICES ASSUME NEW v \in Objects
             PROVE  (\E h \in Holders(v) : Holders(v) = {h})'
  BY DEF OneHolder
<1>1. PICK h \in Holders(v) : Holders(v) = {h}
  BY DEF OneHolder
<1>2. CASE v = o
  <2>1. Holders(o)' = {b}
    BY <1>1, <1>2
  <2> QED BY <2>1, <1>2
<1>3. CASE v # o
  BY <1>1, <1>3
<1> QED BY <1>2, <1>3

LEMMA ObjectsStill ==
    ASSUME OneHolder, UNCHANGED <<opaque, arg, outside>>
    PROVE  OneHolder'
BY DEF OneHolder, Holders

LEMMA ObjectsStep == IInv /\ OneHolder /\ [Next]_vars => OneHolder'
<1> SUFFICES ASSUME IInv, OneHolder, [Next]_vars PROVE OneHolder'
  OBVIOUS
<1>1. ASSUME NEW t \in Threads, NEW o \in outside, CallPush(t, o)
      PROVE  OneHolder'
  <2>1. CASE lifo["lifo_empty"] = Nil
    BY <1>1, <2>1, ObjectsStill DEF CallPush
  <2>2. CASE lifo["lifo_empty"] # Nil
    <3>1. /\ arg' = [arg EXCEPT ![t] = o] /\ outside' = outside \ {o}
          /\ opaque' = opaque /\ arg[t] = None /\ o \in Objects
      BY <1>1, <2>2 DEF CallPush, IInv, TypeOK, Argued, Popping, Pushing
    <3>2. \A v \in Objects : {u \in Threads : arg'[u] = v} =
            {u \in Threads : arg[u] = v} \cup (IF v = o THEN {t} ELSE {})
      BY <3>1, ObjectsAssumption DEF IInv, TypeOK
    <3>3. \A v \in Objects :
            {v} \cap outside' = IF v = o THEN {} ELSE {v} \cap outside
      BY <3>1
    <3>4. \A v \in Objects \ {o} : Holders(v)' = Holders(v)
      BY <3>1, <3>2, <3>3 DEF Holders
    <3>5. <<"outside", o>> \in Holders(o)
      BY <1>1 DEF Holders
    <3>6. Holders(o)' = (Holders(o) \ {<<"outside", o>>}) \cup {<<"thread", t>>}
      BY <3>1, <3>2, <3>3 DEF Holders
    <3> QED BY <3>4, <3>5, <3>6, ObjectMoves
  <2> QED BY <2>1, <2>2
<1>2. ASSUME NEW t \in Threads, Take(t)
      PROVE  OneHolder'
  <2>1. CASE UNCHANGED <<arg, outside>>
    BY <1>2, <2>1, ObjectsStill DEF Take, PopSwap
  <2>2. CASE ~UNCHANGED <<arg, outside>>
    <3>0. PICK o : o = arg[t]
      OBVIOUS
    <3>1. /\ arg' = [arg EXCEPT ![t] = None] /\ outside' = outside \cup {o}
          /\ opaque' = opaque
      BY <1>2, <2>2, <3>0 DEF Take, PopSwap
    <3>2. o \in Objects
      BY <1>2, <2>2, <3>0 DEF Take, PopSwap, IInv, TypeOK, Argued, Popping
    <3>3. \A v \in Objects : {u \in Threads : arg'[u] = v} =
            {u \in Threads : arg[u] = v} \ (IF v = o THEN {t} ELSE {})
      BY <3>0, <3>1, ObjectsAssumption DEF IInv, TypeOK
    <3>4. \A v \in Objects :
            {v} \cap outside' = IF v = o THEN {o} ELSE {v} \cap outside
      BY <3>1
    <3>5. \A v \in Objects \ {o} : Holders(v)' = Holders(v)
      BY <3>1, <3>3, <3>4 DEF Holders
    <3>6. <<"thread", t>> \in Holders(o)
      BY <3>0 DEF Holders
    <3>7. Holders(o)' = (Holders(o) \ {<<"thread", t>>}) \cup {<<"outside", o>>}
      BY <3>1, <3>2, <3>3, <3>4 DEF Holders
    <3> QED BY <3>5, <3>6, <3>7, ObjectMoves
  <2> QED BY <2>1, <2>2
<1>3. ASSUME NEW t \in Threads, Set(t)
      PROVE  OneHolder'
  <2>0. PICK i, o : /\ i = mine[t] /\ i \in Index
                    /\ o = IF op[t] = "push" THEN arg[t] ELSE opaque[i]
    BY <1>3, OwnElement DEF Set, Owner
  <2>1. o \in Objects
    BY <1>3, <2>0 DEF Set, IInv, TypeOK, Argued, Filled, Popping
  <2>2. outside' = outside
    BY <1>3 DEF Set
  <2>3. CASE op[t] = "push"
    <3>1. /\ arg[t] = o /\ arg' = [arg EXCEPT ![t] = None]
          /\ opaque[i] = None /\ opaque' = [opaque EXCEPT ![i] = o]
      BY <1>3, <2>0, <2>3 DEF Set, ElemSet, IInv, Filled
    <3>2. \A v \in Objects : {u \in Threads : arg'[u] = v} =
            {u \in Threads : arg[u] = v} \ (IF v = o THEN {t} ELSE {})
      BY <3>1, ObjectsAssumption DEF IInv, TypeOK
    <3>3. \A v \in Objects : {j \in Index : opaque'[j] = v} =
            {j \in Index : opaque[j] = v} \cup (IF v = o THEN {i} ELSE {})
      BY <2>0, <3>1, ObjectsAssumption DEF IInv, TypeOK
    <3>4. \A v \in Objects \ {o} : Holders(v)' = Holders(v)
      BY <2>2, <3>2, <3>3 DEF Holders
    <3>5. <<"thread", t>> \in Holders(o)
      BY <3>1 DEF Holders
    <3>6. Holders(o)' = (Holders(o) \ {<<"thread", t>>}) \cup {<<"element", i>>}
      BY <2>1, <2>2, <3>2, <3>3 DEF Holders
    <3> QED BY <3>4, <3>5, <3>6, ObjectMoves
  <2>4. CASE op[t] # "push"
    <3>1. /\ opaque[i] = o /\ opaque' = [opaque EXCEPT ![i] = None]
          /\ arg[t] = None /\ arg' = [arg EXCEPT ![t] = o]
      BY <1>3, <2>0, <2>4 DEF Set, ElemSet, IInv, Argued, Pushing
    <3>2. \A v \in Objects : {u \in Threads : arg'[u] = v} =
            {u \in Threads : arg[u] = v} \cup (IF v = o THEN {t} ELSE {})
      BY <3>1, ObjectsAssumption DEF IInv, TypeOK
    <3>3. \A v \in Objects : {j \in Index : opaque'[j] = v} =
            {j \in Index : opaque[j] = v} \ (IF v = o THEN {i} ELSE {})
      BY <2>0, <3>1, ObjectsAssumption DEF IInv, TypeOK
    <3>4. \A v \in Objects \ {o} : Holders(v)' = Holders(v)
      BY <2>2, <3>2, <3>3 DEF Holders
    <3>5. <<"element", i>> \in Holders(o)
      BY <2>0, <3>1 DEF Holders
    <3>6. Holders(o)' = (Holders(o) \ {<<"element", i>>}) \cup {<<"thread", t>>}
      BY <2>1, <2>2, <3>2, <3>3 DEF Holders
    <3> QED BY <3>4, <3>5, <3>6, ObjectMoves
  <2> QED BY <2>3, <2>4
<1>4. ASSUME NEW t \in Threads, Give(t)
      PROVE  OneHolder'
  <2>0. PICK o : o = arg[t]
    OBVIOUS
  <2>1. opaque' = opaque
    BY <1>4 DEF Give, PushSwap
  <2>2. CASE UNCHANGED <<arg, outside>>
    BY <2>1, <2>2, ObjectsStill
  <2>3. CASE ~UNCHANGED <<arg, outside>>
    <3>1. /\ arg' = [arg EXCEPT ![t] = None]
          /\ outside' = outside \cup ({o} \ {None})
      BY <1>4, <2>0, <2>3 DEF Give
    <3>2. o # None
      BY <2>0, <2>3, <3>1 DEF IInv, TypeOK
    <3>3. o \in Objects
      BY <2>0, <3>2 DEF IInv, TypeOK
    <3>4. \A v \in Objects : {u \in Threads : arg'[u] = v} =
            {u \in Threads : arg[u] = v} \ (IF v = o THEN {t} ELSE {})
      BY <2>0, <3>1, ObjectsAssumption DEF IInv, TypeOK
    <3>5. \A v \in Objects :
            {v} \cap outside' = IF v = o THEN {o} ELSE {v} \cap outside
      BY <3>1, <3>2
    <3>6. \A v \in Objects \ {o} : Holders(v)' = Holders(v)
      BY <2>1, <3>4, <3>5 DEF Holders
    <3>7. <<"thread", t>> \in Holders(o)
      BY <2>0 DEF Holders
    <3>8. Holders(o)' = (Holders(o) \ {<<"thread", t>>}) \cup {<<"outside", o>>}
      BY <2>1, <3>3, <3>4, <3>5 DEF Holders
    <3> QED BY <3>6, <3>7, <3>8, ObjectMoves
  <2> QED BY <2>2, <2>3
<1>5. ASSUME NEW t \in Threads, CallPop(t) \/ RingStep(t)
      PROVE  OneHolder'
  BY <1>5, ObjectsStill DEF CallPop, RingStep, PopNext, PopTag, PushLoad, PushLink
<1>6. CASE UNCHANGED vars
  BY <1>6, ObjectsStill DEF vars, ring
<1> QED BY <1>1, <1>2, <1>3, <1>4, <1>5, <1>6 DEF Next, Call, Step

LEMMA ObjectsInit == Init => OneHolder
<1> SUFFICES ASSUME Init, NEW v \in Objects
             PROVE  \E h \in Holders(v) : Holders(v) = {h}
  BY DEF OneHolder
<1>1. Holders(v) = {<<"outside", v>>}
  BY ObjectsAssumption DEF Init, RingInit, Holders
<1> QED BY <1>1

(* An object is always at exactly one place, so that a pool never hands    *)
(* one object to two threads and loses none.                               *)
THEOREM ObjectsStayKept == Spec => []ObjectsKept
<1>1. Init => IInv /\ OneHolder
  BY InitInv, ObjectsInit
<1>2. IInv /\ OneHolder /\ [Next]_vars => (IInv /\ OneHolder)'
  BY NextInv, ObjectsStep
<1>3. IInv /\ OneHolder => ObjectsKept
  BY DEF IInv, Filled, OneHolder, ObjectsKept
<1> QED BY <1>1, <1>2, <1>3, PTL DEF Spec

(* So nothing is lost on the ring, on any number of threads.               *)
THEOREM RingStaysWhole == Spec => []RingKept
BY ListsStayIntact, ObjectsStayKept, PTL DEF RingKept

-----------------------------------------------------------------------------
(* The container that the two lists make.  Depths count the elements of a  *)
(* list, so that the deepest is at 1 and the top at their number.          *)
Counted(l) == \A i \in On(l) : depth[i] <= Cardinality(On(l))

CInv == IInv /\ Counted("lifo_empty") /\ Counted("lifo_carrier")

(* Every depth up to their number is that of one element.                  *)
LEMMA Positions ==
    ASSUME RingTypeOK, NEW l, Chained(l), Counted(l)
    PROVE  /\ \A i \in On(l) : depth[i] \in 1..Cardinality(On(l))
           /\ \A k \in 1..Cardinality(On(l)) : \E i \in On(l) : depth[i] = k
<1> DEFINE n == Cardinality(On(l))
           f == [i \in On(l) |-> depth[i]]
<1>1. IsFiniteSet(On(l)) /\ n \in Nat
  BY OnFinite
<1>2. \A i \in On(l) : depth[i] \in 1..n
  BY <1>1 DEF Chained, Counted, RingTypeOK, On
<1>3. f \in Injection(On(l), 1..n)
  BY <1>2 DEF Chained, Injection, IsInjective
<1>4. IsFiniteSet(1..n) /\ Cardinality(1..n) = n
  BY <1>1, FS_Interval
<1>5. f \in Surjection(On(l), 1..n)
  <2> HIDE DEF f
  <2> QED BY <1>3, <1>4, FS_Injection
<1>6. \A k \in 1..n : \E i \in On(l) : f[i] = k
  BY <1>5 DEF Surjection
<1> QED BY <1>2, <1>6

(* Content says, by depth, what the carried elements hold.                 *)
Carried ==
    LET n == Cardinality(On("lifo_carrier"))
    IN  /\ n \in Nat
        /\ Content \in [1..n -> Objects]
        /\ \A i \in On("lifo_carrier") :
             depth[i] \in 1..n /\ Content[depth[i]] = opaque[i]
        /\ \A k \in 1..n : \E i \in On("lifo_carrier") : depth[i] = k

LEMMA ContentCarried == CInv => Carried
<1> SUFFICES ASSUME CInv PROVE Carried
  OBVIOUS
<1> DEFINE n == Cardinality(On("lifo_carrier"))
           e(k) == CHOOSE i \in On("lifo_carrier") : depth[i] = k
<1>1. n \in Nat
  BY OnFinite
<1>2. /\ \A i \in On("lifo_carrier") : depth[i] \in 1..n
      /\ \A k \in 1..n : \E i \in On("lifo_carrier") : depth[i] = k
  BY Positions DEF CInv, IInv, TypeOK
<1>3. \A k \in 1..n : e(k) \in On("lifo_carrier") /\ depth[e(k)] = k
  BY <1>2
<1>4. Content = [k \in 1..n |-> opaque[e(k)]]
  BY DEF Content
<1> HIDE DEF e
<1>5. \A i \in On("lifo_carrier") : opaque[i] \in Objects
  BY DEF CInv, IInv, TypeOK, Filled, On
<1>6. Content \in [1..n -> Objects]
  BY <1>3, <1>4, <1>5
<1>7. \A i \in On("lifo_carrier") : Content[depth[i]] = opaque[i]
  <2> TAKE i \in On("lifo_carrier")
  <2>1. e(depth[i]) = i
    BY <1>2, <1>3 DEF CInv, IInv, Chained
  <2> QED BY <2>1, <1>2, <1>4
<1> QED BY <1>1, <1>2, <1>6, <1>7 DEF Carried

LEMMA ContentPrimed == CInv' => Carried'
BY ContentCarried, PTL

(* Nothing happens to the carried elements.                                *)
LEMMA ContentKept ==
    ASSUME Carried, Carried',
           On("lifo_carrier")' = On("lifo_carrier"),
           \A i \in On("lifo_carrier") :
             depth'[i] = depth[i] /\ opaque'[i] = opaque[i]
    PROVE  Content' = Content
<1> DEFINE S == On("lifo_carrier")
           n == Cardinality(S)
<1>1. PICK D : D = 1..n
  OBVIOUS
<1>2. Content \in [D -> Objects] /\ Content' \in [D -> Objects]
  BY <1>1 DEF Carried
<1>3. \A k \in D : Content'[k] = Content[k]
  <2> TAKE k \in D
  <2>1. PICK i \in S : depth[i] = k
    BY <1>1 DEF Carried
  <2> QED BY <2>1 DEF Carried
<1> HIDE DEF n
<1> QED BY <1>2, <1>3

(* One more element is carried, on the top.                                *)
LEMMA ContentPushed ==
    ASSUME Carried, Carried', NEW i,
           i \notin On("lifo_carrier"),
           On("lifo_carrier")' = On("lifo_carrier") \cup {i},
           \A j \in On("lifo_carrier") :
             depth'[j] = depth[j] /\ opaque'[j] = opaque[j]
    PROVE  Content' = Append(Content, opaque'[i])
<1> DEFINE S == On("lifo_carrier")
           n == Cardinality(S)
<1>1. Cardinality(S)' = n + 1 /\ n \in Nat
  BY OnFinite, FS_AddElement
<1>2. /\ Content \in [1..n -> Objects] /\ Content' \in [1..(n + 1) -> Objects]
      /\ Content \in Seq(Objects) /\ Len(Content) = n
  BY <1>1 DEF Carried
<1>3. ASSUME NEW k \in 1..n
      PROVE  Content'[k] = Content[k]
  <2>1. PICK j \in S : depth[j] = k
    BY DEF Carried
  <2> QED BY <2>1 DEF Carried
<1>4. depth'[i] = n + 1
  <2>1. PICK j \in On("lifo_carrier")' : depth'[j] = n + 1
    BY <1>1 DEF Carried
  <2>2. j \notin S
    BY <2>1, <1>1 DEF Carried
  <2> QED BY <2>1, <2>2
<1>5. Content'[n + 1] = opaque'[i]
  BY <1>4 DEF Carried
<1> QED BY <1>1, <1>2, <1>3, <1>5

(* The top element is carried no more.                                     *)
LEMMA ContentPopped ==
    ASSUME Carried, Carried', NEW i \in On("lifo_carrier"),
           depth[i] = Cardinality(On("lifo_carrier")),
           On("lifo_carrier")' = On("lifo_carrier") \ {i},
           \A j \in On("lifo_carrier") \ {i} :
             depth'[j] = depth[j] /\ opaque'[j] = opaque[j]
    PROVE  /\ Content # <<>>
           /\ Content[Len(Content)] = opaque[i]
           /\ Content' = SubSeq(Content, 1, Len(Content) - 1)
<1> DEFINE S == On("lifo_carrier")
           n == Cardinality(S)
<1>1. Cardinality(S)' = n - 1 /\ n \in Nat \ {0}
  <2>1. Cardinality(S)' = n - 1
    BY OnFinite, FS_RemoveElement
  <2> QED BY <2>1 DEF Carried
<1>2. /\ Content \in [1..n -> Objects] /\ Content' \in [1..(n - 1) -> Objects]
      /\ Content \in Seq(Objects) /\ Len(Content) = n
  BY <1>1 DEF Carried
<1>3. ASSUME NEW k \in 1..(n - 1)
      PROVE  Content'[k] = Content[k]
  <2>1. PICK j \in On("lifo_carrier")' : depth'[j] = k
    BY <1>1 DEF Carried
  <2> QED BY <2>1 DEF Carried
<1>4. Content[n] = opaque[i]
  BY DEF Carried
<1>5. Content' = SubSeq(Content, 1, n - 1)
  BY <1>1, <1>2, <1>3
<1> QED BY <1>1, <1>2, <1>4, <1>5

-----------------------------------------------------------------------------
(* What a successful compare-and-swap does to the two lists: a pop takes   *)
(* the top one from its list, at the greatest depth, and a push adds one   *)
(* above all.  The other list stays.                                       *)
LEMMA Tops ==
    ASSUME CInv, NEW l \in {"lifo_empty", "lifo_carrier"}
    PROVE  /\ lifo[l] # Nil => /\ lifo[l].index \in On(l)
                               /\ depth[lifo[l].index] = Cardinality(On(l))
           /\ lifo[l] = Nil => Cardinality(On(l)) = 0
<1> DEFINE n == Cardinality(On(l))
<1>1. n \in Nat /\ IsFiniteSet(On(l))
  BY OnFinite
<1>2. /\ \A i \in On(l) : depth[i] \in 1..n
      /\ \A k \in 1..n : \E i \in On(l) : depth[i] = k
  BY Positions DEF CInv, IInv, TypeOK
<1>3. Chained(l)
  BY DEF CInv, IInv
<1>4. CASE lifo[l] = Nil
  BY <1>3, <1>4, FS_EmptySet DEF Chained
<1>5. CASE lifo[l] # Nil
  <2>1. lifo[l].index \in On(l) /\ \A i \in On(l) : depth[i] <= depth[lifo[l].index]
    BY <1>3, <1>5 DEF Chained
  <2>2. n \in 1..n
    BY <1>1, <1>2, <2>1
  <2>3. PICK i \in On(l) : depth[i] = n
    BY <1>2, <2>2
  <2>4. depth[lifo[l].index] \in 1..n /\ depth[lifo[l].index] >= n
    BY <1>2, <2>1, <2>3
  <2>5. depth[lifo[l].index] = n
    BY <1>1, <2>4
  <2> QED BY <1>5, <2>1, <2>5
<1> QED BY <1>4, <1>5

LEMMA TakeLists ==
    ASSUME CInv, NEW t \in Threads, Take(t), lifo[From(t)] = old[t],
           NEW i, i = old[t].index
    PROVE  /\ i \in Index /\ mine[t] = NULL
           /\ i \in On(From(t)) /\ depth[i] = Cardinality(On(From(t)))
           /\ \A l \in {"lifo_empty", "lifo_carrier"} :
                On(l)' = IF l = From(t) THEN On(l) \ {i} ELSE On(l)
           /\ \A j \in Index \ {i} : depth'[j] = depth[j]
           /\ mine' = [mine EXCEPT ![t] = i]
           /\ UNCHANGED <<opaque, op, arg>>
<1> DEFINE l == From(t)
<1>1. l \in {"lifo_empty", "lifo_carrier"} /\ \A u \in Threads : u \notin Lists
  BY ListsOfCalls DEF CInv, IInv
<1>2. mine[t] = NULL
  BY DEF CInv, IInv, Registered, Owner, Take, PopSwap
<1>3. i \in On(l) /\ i \in Index /\ old[t] # Nil /\ i = lifo[l].index
  BY SwapKnows DEF CInv, Take, PopSwap
<1>4. depth[i] = Cardinality(On(l))
  BY <1>1, <1>3, Tops
<1>5. /\ where' = [where EXCEPT ![i] = t]
      /\ depth' = [depth EXCEPT ![i] = 0]
      /\ mine' = [mine EXCEPT ![t] = i]
      /\ opaque' = opaque /\ op' = op /\ pc' = [pc EXCEPT ![t] = "set"]
  BY DEF Take, PopSwap, Goto
<1>6. arg' = arg
  BY <1>5 DEF Take, CInv, IInv, TypeOK
<1>7. \A j \in Index \ {i} : depth'[j] = depth[j] /\ where'[j] = where[j]
  BY <1>5 DEF CInv, IInv, TypeOK, RingTypeOK
<1>8. where'[i] = t /\ t \notin {"lifo_empty", "lifo_carrier"} /\ where[i] = l
  BY <1>1, <1>3, <1>5, ObjectsAssumption DEF CInv, IInv, TypeOK, On
<1>9. \A m \in {"lifo_empty", "lifo_carrier"} :
        On(m)' = IF m = l THEN On(m) \ {i} ELSE On(m)
  BY <1>7, <1>8 DEF On
<1> QED BY <1>2, <1>3, <1>4, <1>5, <1>6, <1>7, <1>9

LEMMA GiveLists ==
    ASSUME CInv, NEW t \in Threads, Give(t), lifo[To(t)] = old[t],
           NEW i, i = mine[t]
    PROVE  /\ i \in Index
           /\ \A l \in {"lifo_empty", "lifo_carrier"} :
                /\ i \notin On(l)
                /\ On(l)' = IF l = To(t) THEN On(l) \cup {i} ELSE On(l)
           /\ depth'[i] = Cardinality(On(To(t))) + 1
           /\ \A j \in Index \ {i} : depth'[j] = depth[j]
           /\ mine' = [mine EXCEPT ![t] = NULL]
           /\ arg' = [arg EXCEPT ![t] = None]
           /\ UNCHANGED <<opaque, op>>
<1> DEFINE l == To(t)
<1>1. l \in {"lifo_empty", "lifo_carrier"}
  BY ListsOfCalls DEF CInv, IInv
<1>2. /\ i \in Index
      /\ \A m \in {"lifo_empty", "lifo_carrier"} : i \notin On(m)
  BY OwnElement DEF CInv, Give, PushSwap, Owner
<1>3. /\ where' = [where EXCEPT ![i] = l]
      /\ depth' = [depth EXCEPT ![i] =
                     IF lifo[l] = Nil THEN 1 ELSE depth[lifo[l].index] + 1]
      /\ mine' = [mine EXCEPT ![t] = NULL]
      /\ opaque' = opaque /\ op' = op /\ pc' = [pc EXCEPT ![t] = "idle"]
  BY DEF Give, PushSwap, Goto
<1>4. arg' = [arg EXCEPT ![t] = None]
  BY <1>3 DEF Give, CInv, IInv, TypeOK
<1>5. depth'[i] = Cardinality(On(l)) + 1
  BY <1>1, <1>2, <1>3, Tops DEF CInv, IInv, TypeOK, RingTypeOK
<1>6. /\ where'[i] = l
      /\ \A j \in Index \ {i} : depth'[j] = depth[j] /\ where'[j] = where[j]
  BY <1>2, <1>3 DEF CInv, IInv, TypeOK, RingTypeOK
<1>7. \A m \in {"lifo_empty", "lifo_carrier"} :
        On(m)' = IF m = l THEN On(m) \cup {i} ELSE On(m)
  BY <1>2, <1>6 DEF On
<1> QED BY <1>2, <1>3, <1>4, <1>5, <1>6, <1>7

(* A failed one does nothing to the lists, nor do the other steps.         *)
LEMMA ListsStill ==
    ASSUME CInv, NEW t \in Threads,
           \/ Call(t) \/ RingStep(t) \/ Set(t)
           \/ Take(t) /\ lifo[From(t)] # old[t]
           \/ Give(t) /\ lifo[To(t)] # old[t]
    PROVE  UNCHANGED <<where, depth, mine>>
BY DEF Call, CallPop, CallPush, RingStep, PopNext, PopTag, PushLoad, PushLink, Set,
   Take, PopSwap, Give, PushSwap

LEMMA CountedStep == CInv /\ [Next]_vars => CInv'
<1> SUFFICES ASSUME CInv, [Next]_vars,
                    NEW l \in {"lifo_empty", "lifo_carrier"}
             PROVE  Counted(l)'
  BY NextInv DEF CInv
<1>1. Counted(l) /\ IsFiniteSet(On(l)) /\ Cardinality(On(l)) \in Nat
  BY OnFinite DEF CInv
<1>2. ASSUME UNCHANGED <<where, depth>> PROVE Counted(l)'
  <2>1. On(l)' = On(l)
    BY <1>2 DEF On
  <2> QED BY <1>1, <1>2, <2>1 DEF Counted
<1>3. \A i \in On(l) : i \in Index /\ depth[i] \in Nat
  BY DEF CInv, IInv, TypeOK, RingTypeOK, On
<1>4. ASSUME NEW t \in Threads, Take(t), lifo[From(t)] = old[t]
      PROVE  Counted(l)'
  <2> DEFINE i == old[t].index
  <2>1. /\ i \in On(From(t)) /\ depth[i] = Cardinality(On(From(t)))
        /\ On(l)' = IF l = From(t) THEN On(l) \ {i} ELSE On(l)
        /\ \A j \in Index \ {i} : depth'[j] = depth[j]
    BY <1>4, TakeLists
  <2>2. CASE l = From(t)
    <3>1. Cardinality(On(l) \ {i}) = Cardinality(On(l)) - 1
      BY <1>1, <2>1, <2>2, FS_RemoveElement
    <3>2. \A j \in On(l) \ {i} : depth[j] # depth[i]
      BY <2>1, <2>2 DEF CInv, IInv, Chained
    <3> QED BY <1>1, <1>3, <2>1, <2>2, <3>1, <3>2 DEF Counted
  <2>3. CASE l # From(t)
    <3>1. i \notin On(l)
      BY <2>1, <2>3 DEF On
    <3> QED BY <1>1, <1>3, <2>1, <2>3, <3>1 DEF Counted
  <2> QED BY <2>2, <2>3
<1>5. ASSUME NEW t \in Threads, Give(t), lifo[To(t)] = old[t]
      PROVE  Counted(l)'
  <2> DEFINE i == mine[t]
  <2>1. /\ i \notin On(l)
        /\ On(l)' = IF l = To(t) THEN On(l) \cup {i} ELSE On(l)
        /\ depth'[i] = Cardinality(On(To(t))) + 1
        /\ \A j \in Index \ {i} : depth'[j] = depth[j]
    BY <1>5, GiveLists
  <2>2. CASE l = To(t)
    <3>1. Cardinality(On(l) \cup {i}) = Cardinality(On(l)) + 1
      BY <1>1, <2>1, FS_AddElement
    <3> QED BY <1>1, <1>3, <2>1, <2>2, <3>1 DEF Counted
  <2>3. CASE l # To(t)
    BY <1>1, <1>3, <2>1, <2>3 DEF Counted
  <2> QED BY <2>2, <2>3
<1>6. ASSUME NEW t \in Threads, Call(t) \/ Step(t)
      PROVE  Counted(l)'
  BY <1>2, <1>4, <1>5, <1>6, ListsStill DEF Step
<1>7. CASE UNCHANGED vars
  BY <1>2, <1>7 DEF vars, ring
<1> QED BY <1>6, <1>7 DEF Next

-----------------------------------------------------------------------------
(* Each step of a ulifo is one of the container, or none.  The slot of a   *)
(* push is taken with the empty element; its object is in once the carried *)
(* list has the element.                                                   *)
LEMMA HandOf ==
    ASSUME CInv, NEW t \in Threads
    PROVE  /\ mine[t] = NULL => Hand[t] = None
           /\ mine[t] # NULL => Hand[t] = IF opaque[mine[t]] = None THEN arg[t]
                                          ELSE opaque[mine[t]]
           /\ Hand \in [Threads -> Objects \cup {None}]
BY DEF Hand, CInv, IInv, TypeOK, RingTypeOK

LEMMA CountedInit == Init => CInv
<1> SUFFICES ASSUME Init PROVE CInv
  OBVIOUS
<1>1. IInv
  BY InitInv
<1>2. \A i \in Index : depth[i] = Length + 1 - i /\ i \in 1..Length
  BY DEF Init, RingInit, Index
<1>3. On("lifo_empty") = Index /\ On("lifo_carrier") = {}
  BY ObjectsAssumption DEF Init, RingInit, On
<1>4. Cardinality(Index) = Length
  BY RingAssumption, FS_Interval DEF Index
<1> QED BY <1>1, <1>2, <1>3, <1>4, RingAssumption DEF CInv, Counted

LEMMA MapInit == Init => Promised!Init
<1> SUFFICES ASSUME Init PROVE Promised!Init
  OBVIOUS
<1>1. Spare = Length
  <2>1. On("lifo_empty") = 1..Length
    BY DEF Init, RingInit, On, Index
  <2> QED BY <2>1, RingAssumption, FS_Interval DEF Spare
<1>2. Content = <<>>
  <2>1. On("lifo_carrier") = {}
    BY ObjectsAssumption DEF Init, RingInit, On
  <2>2. Cardinality(On("lifo_carrier")) = 0
    BY <2>1, FS_EmptySet
  <2> QED BY <2>2 DEF Content
<1>3. Hand = [t \in Threads |-> None]
  BY DEF Init, RingInit, Hand
<1> QED BY <1>1, <1>2, <1>3 DEF Promised!Init

(* Lists that stay, with the objects of their elements.                    *)
LEMMA MapStill ==
    ASSUME Carried, Carried', UNCHANGED <<where, depth>>,
           \A i \in On("lifo_carrier") : opaque'[i] = opaque[i]
    PROVE  UNCHANGED <<Spare, Content>>
<1>1. \A l : On(l)' = On(l)
  BY DEF On
<1>2. Spare' = Spare
  BY <1>1 DEF Spare
<1> QED BY <1>1, <1>2, ContentKept

LEMMA MapTake ==
    ASSUME CInv, Carried, CInv', Carried',
           NEW t \in Threads, Take(t), lifo[From(t)] = old[t]
    PROVE  IF op[t] = "push" THEN Promised!Reserve(t, arg[t]) /\ arg[t] \in Objects
           ELSE Promised!Get(t)
<1> DEFINE i == old[t].index
<1>1. /\ i \in Index /\ mine[t] = NULL
      /\ i \in On(From(t)) /\ depth[i] = Cardinality(On(From(t)))
      /\ \A l \in {"lifo_empty", "lifo_carrier"} :
           On(l)' = IF l = From(t) THEN On(l) \ {i} ELSE On(l)
      /\ \A j \in Index \ {i} : depth'[j] = depth[j]
      /\ mine' = [mine EXCEPT ![t] = i]
      /\ UNCHANGED <<opaque, op, arg>>
  BY TakeLists
<1>2. Hand[t] = None /\ Hand \in [Threads -> Objects \cup {None}]
  BY <1>1, HandOf
<1>3. Hand' = [Hand EXCEPT ![t] = IF opaque[i] = None THEN arg[t] ELSE opaque[i]]
  <2>1. i # NULL /\ t \in DOMAIN mine /\ mine'[t] = i
    BY <1>1 DEF Index, NULL, CInv, IInv, TypeOK, RingTypeOK
  <2>2. \A u \in Threads \ {t} : mine'[u] = mine[u]
    BY <1>1 DEF CInv, IInv, TypeOK, RingTypeOK
  <2>3. Hand'[t] = IF opaque[i] = None THEN arg[t] ELSE opaque[i]
    BY <1>1, <2>1 DEF Hand
  <2>4. \A u \in Threads \ {t} : Hand'[u] = Hand[u]
    BY <1>1, <2>2 DEF Hand
  <2> QED BY <2>3, <2>4 DEF Hand
<1>4. CASE op[t] = "push"
  <2>1. From(t) = "lifo_empty"
    BY <1>4 DEF From
  <2>2. opaque[i] = None /\ arg[t] \in Objects
    BY <1>1, <1>4, <2>1 DEF CInv, IInv, TypeOK, Filled, Argued, Popping, Take, PopSwap
  <2>3. Spare' = Spare - 1 /\ Spare > 0
    <3>1. IsFiniteSet(On("lifo_empty")) /\ Spare \in Nat
      BY OnFinite DEF Spare
    <3>2. Spare' = Spare - 1
      BY <1>1, <2>1, <3>1, FS_RemoveElement DEF Spare
    <3>3. Spare # 0
      BY <1>1, <2>1, <3>1, FS_EmptySet DEF Spare
    <3> QED BY <3>1, <3>2, <3>3
  <2>4. Content' = Content
    <3>1. i \notin On("lifo_carrier") /\ On("lifo_carrier") \subseteq Index
      BY <1>1, <2>1 DEF On
    <3> QED BY <1>1, <2>1, <3>1, ContentKept
  <2> QED BY <1>2, <1>3, <1>4, <2>2, <2>3, <2>4 DEF Promised!Reserve
<1>5. CASE op[t] # "push"
  <2>1. From(t) = "lifo_carrier"
    BY <1>5 DEF From
  <2>2. opaque[i] # None
    BY <1>1, <2>1 DEF CInv, IInv, Filled
  <2>3. Spare' = Spare
    BY <1>1, <2>1 DEF Spare
  <2>4. /\ Content # <<>>
        /\ Content[Len(Content)] = opaque[i]
        /\ Content' = SubSeq(Content, 1, Len(Content) - 1)
    <3>1. On("lifo_carrier") \subseteq Index
      BY DEF On
    <3> QED BY <1>1, <2>1, <3>1, ContentPopped
  <2> QED BY <1>2, <1>3, <1>5, <2>2, <2>3, <2>4 DEF Promised!Get
<1> QED BY <1>4, <1>5

LEMMA MapGive ==
    ASSUME CInv, Carried, CInv', Carried',
           NEW t \in Threads, Give(t), lifo[To(t)] = old[t]
    PROVE  Promised!Put(t) \/ Promised!Release(t)
<1> DEFINE i == mine[t]
<1>1. /\ i \in Index
      /\ \A l \in {"lifo_empty", "lifo_carrier"} :
           /\ i \notin On(l)
           /\ On(l)' = IF l = To(t) THEN On(l) \cup {i} ELSE On(l)
      /\ \A j \in Index \ {i} : depth'[j] = depth[j]
      /\ mine' = [mine EXCEPT ![t] = NULL]
      /\ arg' = [arg EXCEPT ![t] = None]
      /\ UNCHANGED <<opaque, op>>
  BY GiveLists
<1>2. /\ Hand[t] = IF opaque[i] = None THEN arg[t] ELSE opaque[i]
      /\ Hand \in [Threads -> Objects \cup {None}]
  BY <1>1, HandOf DEF Index, NULL
<1>3. Hand' = [Hand EXCEPT ![t] = None]
  BY <1>1 DEF Hand, CInv, IInv, TypeOK, RingTypeOK
<1>4. On("lifo_carrier") \subseteq Index
  BY DEF On
<1>5. CASE op[t] = "push"
  <2>1. To(t) = "lifo_carrier" /\ opaque[i] # None
    BY <1>5 DEF To, CInv, IInv, Filled, Give, PushSwap, Pushing
  <2>2. Content' = Append(Content, opaque[i])
    BY <1>1, <1>4, <2>1, ContentPushed
  <2>3. Spare' = Spare
    BY <1>1, <2>1 DEF Spare
  <2> QED BY <1>2, <1>3, <2>1, <2>2, <2>3 DEF Promised!Put
<1>6. CASE op[t] # "push"
  <2>1. To(t) = "lifo_empty" /\ opaque[i] = None /\ arg[t] # None
    BY <1>6 DEF To, CInv, IInv, TypeOK, Filled, Argued, Give, PushSwap, Pushing
  <2>2. Content' = Content
    BY <1>1, <1>4, <2>1, ContentKept
  <2>3. Spare' = Spare + 1
    BY <1>1, <2>1, OnFinite, FS_AddElement DEF Spare
  <2> QED BY <1>2, <1>3, <2>1, <2>2, <2>3 DEF Promised!Release
<1> QED BY <1>5, <1>6

(* The other steps do not show.                                            *)
LEMMA MapQuiet ==
    ASSUME CInv, Carried, CInv', Carried', NEW t \in Threads,
           \/ Call(t) \/ RingStep(t) \/ Set(t)
           \/ Take(t) /\ lifo[From(t)] # old[t]
           \/ Give(t) /\ lifo[To(t)] # old[t]
    PROVE  UNCHANGED <<Spare, Content, Hand>>
<1>1. UNCHANGED <<where, depth, mine>>
  BY ListsStill
<1>2. CASE Set(t)
  <2> DEFINE i == mine[t]
  <2>1. /\ i \in Index /\ i \notin On("lifo_carrier")
        /\ \A u \in Threads \ {t} : mine[u] # i
    BY <1>2, OwnElement DEF CInv, Set, Owner
  <2>2. /\ opaque' = [opaque EXCEPT ![i] = IF op[t] = "push" THEN arg[t] ELSE None]
        /\ arg' = [arg EXCEPT ![t] = IF op[t] = "push" THEN None ELSE opaque[i]]
    BY <1>2 DEF Set, ElemSet
  <2>3. /\ opaque[i] = None <=> op[t] = "push"
        /\ op[t] = "push" => arg[t] # None
    BY <1>2 DEF Set, CInv, IInv, Filled, Argued
  <2>4. \A j \in Index \ {i} : opaque'[j] = opaque[j]
    BY <2>2 DEF CInv, IInv, TypeOK
  <2>5. \A u \in Threads : Hand'[u] = Hand[u]
    <3> TAKE u \in Threads
    <3>1. CASE u = t
      BY <1>1, <2>1, <2>2, <2>3, <3>1 DEF Hand, CInv, IInv, TypeOK
    <3>2. CASE u # t
      BY <1>1, <2>1, <2>2, <2>4, <3>2 DEF Hand, CInv, IInv, TypeOK, RingTypeOK
    <3> QED BY <3>1, <3>2
  <2>6. Hand' = Hand
    BY <2>5 DEF Hand
  <2>7. UNCHANGED <<Spare, Content>>
    BY <1>1, <2>1, <2>4, MapStill DEF On
  <2> QED BY <2>6, <2>7
<1>3. CASE ~Set(t)
  <2>1. opaque' = opaque
    BY <1>3 DEF Call, CallPop, CallPush, RingStep, PopNext, PopTag, PushLoad, PushLink,
       Take, PopSwap, Give, PushSwap
  <2>2. \A u \in Threads : mine[u] # NULL => arg'[u] = arg[u]
    BY <1>3 DEF Call, CallPop, CallPush, RingStep, Take, PopSwap, Give, PushSwap, Goto,
       TryTop, CInv, IInv, TypeOK, Registered, Owner
  <2>3. Hand' = Hand
    BY <1>1, <2>1, <2>2 DEF Hand
  <2> QED BY <1>1, <2>1, <2>3, MapStill
<1> QED BY <1>2, <1>3

LEMMA MapNext == CInv /\ [Next]_vars => [Promised!Next]_(Promised!vars)
<1> SUFFICES ASSUME CInv, [Next]_vars
             PROVE  Promised!Next \/ UNCHANGED <<Spare, Content, Hand>>
  BY DEF Promised!vars
<1>1. CInv' /\ Carried /\ Carried'
  BY CountedStep, ContentCarried, ContentPrimed
<1>2. ASSUME NEW t \in Threads, Take(t), lifo[From(t)] = old[t]
      PROVE  Promised!Next
  BY <1>1, <1>2, MapTake DEF Promised!Next
<1>3. ASSUME NEW t \in Threads, Give(t), lifo[To(t)] = old[t]
      PROVE  Promised!Next
  BY <1>1, <1>3, MapGive DEF Promised!Next
<1>4. ASSUME NEW t \in Threads, Call(t) \/ Step(t)
      PROVE  Promised!Next \/ UNCHANGED <<Spare, Content, Hand>>
  BY <1>1, <1>2, <1>3, <1>4, MapQuiet DEF Step
<1>5. CASE UNCHANGED vars
  <2>1. UNCHANGED <<Spare, Content>>
    BY <1>1, <1>5, MapStill DEF vars, ring
  <2> QED BY <1>5, <2>1 DEF Hand, vars, ring
<1> QED BY <1>4, <1>5 DEF Next

(* To its users a ulifo is the container: whatever the interleaving, a push*)
(* puts its object on top at once, and a pop takes the one on top at once. *)
THEOREM ImplementsContainer == Spec => Atomic
<1>1. Spec => []CInv
  BY CountedInit, CountedStep, PTL DEF Spec
<1> QED BY <1>1, MapInit, MapNext, PTL DEF Spec, Atomic, Promised!Spec
=============================================================================
