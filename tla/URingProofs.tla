----------------------------- MODULE URingProofs ----------------------------
(***************************************************************************)
(* Facts about the lists of a ring, whoever composes them: ULifoProofs and *)
(* UFifoProofs rest on them.                                               *)
(*                                                                         *)
(* What makes a successful compare-and-swap of a pop right is that the tag *)
(* of the element has not changed since the load: then the element never   *)
(* left its list, and what was read behind it is still there.  Snapshot    *)
(* states it at each point of a pop.                                       *)
(***************************************************************************)
EXTENDS URing, FiniteSetTheorems, TLAPS

(* What a thread in the middle of a pop from l knows of the element i that *)
(* it saw at the top, as long as the tag of i is the one it saw.           *)
Fresh(t) == pc[t] \in Popping /\ tag[old[t].index] = old[t].tag

Snapshot(t, l) ==
    LET i == old[t].index
    IN  Fresh(t) =>
          /\ where[i] = l \/ \E u \in Threads : where[i] = u /\ pc[u] = "set"
          /\ where[i] = l /\ pc[t] = "tag" => succ[t] = next[i]
          /\ where[i] = l /\ pc[t] = "swap" => new[t] = Described(next[i])
-----------------------------------------------------------------------------
(* A descriptor is that of an element or Nil, and Nil is none's.           *)
LEMMA DescribedType ==
    ASSUME RingTypeOK, NEW i \in Index \cup {NULL}
    PROVE  /\ Described(i) \in Descriptors
           /\ Described(i) = Nil <=> i = NULL
           /\ Described(i).index = i
BY RingAssumption DEF RingTypeOK, Described, Descriptors, Nil, Index, NULL

LEMMA DescriptorIndex ==
    ASSUME NEW d \in Descriptors
    PROVE  /\ d.index \in Index \cup {NULL}
           /\ d # Nil <=> d.index \in Index
           /\ d = Nil <=> d.index = NULL
BY RingAssumption DEF Descriptors, Nil, Index, NULL

(* A list that a step does not touch keeps its chain: neither the elements *)
(* on it, nor their tags, next and depth change.                           *)
LEMMA ChainKept ==
    ASSUME NEW l, RingTypeOK, Chained(l),
           lifo'[l] = lifo[l],
           \A i \in Index : where'[i] = l <=> where[i] = l,
           \A i \in On(l) : /\ tag'[i] = tag[i]
                            /\ next'[i] = next[i]
                            /\ depth'[i] = depth[i]
    PROVE  Chained(l)'
<1>1. On(l)' = On(l)
  BY DEF On
<1>2. lifo[l] # Nil => Described(lifo[l].index)' = Described(lifo[l].index)
  BY DEF Chained, Described
<1> QED BY <1>1, <1>2 DEF Chained, On

(* The top of a list is taken away, and what is behind it becomes the top. *)
LEMMA ChainPop ==
    ASSUME NEW l \in Lists, NEW t, t # l, RingTypeOK, Chained(l),
           lifo[l] # Nil,
           NEW i, i = lifo[l].index,
           lifo' = [lifo EXCEPT ![l] = Described(next[i])],
           NEW W, where \in [Index -> W],
           where' = [where EXCEPT ![i] = t],
           depth' = [depth EXCEPT ![i] = 0],
           UNCHANGED <<tag, next>>
    PROVE  Chained(l)'
<1>0. i \in On(l) /\ i \in Index
  BY DEF Chained, On
<1>1. On(l)' = On(l) \ {i}
  BY <1>0 DEF On
<1>2. \A j \in On(l)' : depth'[j] = depth[j] /\ j \in On(l) /\ j # i /\ depth[j] \in Nat
  BY <1>0, <1>1 DEF RingTypeOK, On
<1>3. depth[i] \in Nat
  BY <1>0 DEF RingTypeOK
<1>4. \A j \in On(l)' : depth[j] < depth[i]
  BY <1>0, <1>2, <1>3 DEF Chained
<1>5. CASE depth[i] = 1
  <2>1. next[i] = NULL
    BY <1>0, <1>5 DEF Chained
  <2>2. On(l)' = {}
    BY <1>2, <1>4, <1>5 DEF Chained
  <2>3. lifo'[l] = Nil
    BY <2>1 DEF Described, RingTypeOK
  <2> QED BY <2>2, <2>3 DEF Chained
<1>6. CASE depth[i] # 1
  <2> DEFINE n == next[i]
  <2>1. n \in On(l) /\ depth[n] = depth[i] - 1
    BY <1>0, <1>6 DEF Chained
  <2>2. n # i /\ n \in On(l)' /\ n # NULL /\ n \in Index
    BY <2>1, <1>1, <1>3 DEF On, Index, NULL
  <2>3. lifo'[l] = Described(n)' /\ lifo'[l].index = n /\ lifo'[l] # Nil
    BY <2>2 DEF Described, RingTypeOK, Nil
  <2>4. \A j \in On(l)' : depth'[j] <= depth'[n]
    BY <2>1, <2>2, <1>2, <1>3, <1>4
  <2>5. \A j \in On(l)' :
          /\ depth'[j] >= 1
          /\ IF depth'[j] = 1 THEN next'[j] = NULL
             ELSE next'[j] \in On(l)' /\ depth'[next'[j]] = depth'[j] - 1
    <3> TAKE j \in On(l)'
    <3>1. depth[j] >= 1 /\ (depth[j] = 1 => next[j] = NULL)
      BY <1>2 DEF Chained
    <3>2. ASSUME depth[j] # 1
          PROVE  next[j] \in On(l)' /\ depth'[next[j]] = depth[j] - 1
      <4>1. next[j] \in On(l) /\ depth[next[j]] = depth[j] - 1
        BY <1>2, <3>2 DEF Chained
      <4>2. next[j] # i
        BY <4>1, <1>2, <1>3, <1>4
      <4> QED BY <4>1, <4>2, <1>1, <1>2
    <3> QED BY <3>1, <3>2, <1>2
  <2>6. \A j, k \in On(l)' : depth'[j] = depth'[k] => j = k
    BY <1>2 DEF Chained
  <2> QED BY <2>2, <2>3, <2>4, <2>5, <2>6 DEF Chained
<1> QED BY <1>5, <1>6

(* An element of nobody's list, linked to the top, becomes the top.        *)
LEMMA ChainPush ==
    ASSUME NEW l \in Lists, RingTypeOK, Chained(l),
           NEW i \in Index, i \notin On(l),
           next[i] = lifo[l].index,
           lifo' = [lifo EXCEPT ![l] = Described(i)],
           NEW W, where \in [Index -> W],
           where' = [where EXCEPT ![i] = l],
           depth' = [depth EXCEPT ![i] =
                       IF lifo[l] = Nil THEN 1 ELSE depth[lifo[l].index] + 1],
           UNCHANGED <<tag, next>>
    PROVE  Chained(l)'
<1>1. On(l)' = On(l) \cup {i}
  BY DEF On
<1>2. \A j \in On(l) : depth'[j] = depth[j] /\ depth[j] \in Nat /\ j # i
  BY DEF RingTypeOK, On
<1>3. lifo'[l] = Described(i)' /\ lifo'[l].index = i /\ lifo'[l] # Nil
  BY DEF Described, RingTypeOK, Nil, Index, NULL
<1>4. CASE lifo[l] = Nil
  <2>1. On(l) = {} /\ next[i] = NULL /\ depth'[i] = 1
    BY <1>4 DEF Chained, Nil, RingTypeOK
  <2> QED BY <2>1, <1>1, <1>3 DEF Chained
<1>5. CASE lifo[l] # Nil
  <2> DEFINE n == lifo[l].index
  <2>1. n \in On(l) /\ depth'[i] = depth[n] + 1 /\ next[i] = n
    BY <1>5 DEF Chained, RingTypeOK
  <2>2. \A j \in On(l) : depth[j] <= depth[n] /\ depth[j] >= 1
    BY <1>5 DEF Chained
  <2>3. \A j \in On(l)' : depth'[j] <= depth'[i]
    BY <1>1, <1>2, <2>1, <2>2
  <2>4. \A j \in On(l)' :
          /\ depth'[j] >= 1
          /\ IF depth'[j] = 1 THEN next'[j] = NULL
             ELSE next'[j] \in On(l)' /\ depth'[next'[j]] = depth'[j] - 1
    <3> TAKE j \in On(l)'
    <3>1. CASE j = i
      BY <3>1, <1>1, <1>2, <2>1, <2>2
    <3>2. CASE j \in On(l)
      BY <3>2, <1>1, <1>2 DEF Chained
    <3> QED BY <3>1, <3>2, <1>1
  <2>5. \A j, k \in On(l)' : depth'[j] = depth'[k] => j = k
    <3> TAKE j, k \in On(l)'
    <3>1. CASE j \in On(l) /\ k \in On(l)
      BY <3>1, <1>2 DEF Chained
    <3>2. CASE j = i /\ k \in On(l)
      BY <3>2, <1>2, <2>1, <2>2
    <3>3. CASE j \in On(l) /\ k = i
      BY <3>3, <1>2, <2>1, <2>2
    <3> QED BY <3>1, <3>2, <3>3, <1>1
  <2> QED BY <1>1, <1>3, <2>3, <2>4, <2>5 DEF Chained
<1> QED BY <1>4, <1>5

(* As made by uring_init, the first list is chained.                       *)
LEMMA InitChained ==
    ASSUME NEW l \in Lists, RingInit(l)
    PROVE  Chained(l)
<1> USE DEF RingInit
<1>1. On(l) = Index
  BY DEF On
<1>2. /\ lifo[l] = Described(1) /\ lifo[l] # Nil
      /\ lifo[l].index = 1 /\ 1 \in Index
  BY RingAssumption DEF Described, Index, NULL, Nil
<1>3. \A i \in Index :
        /\ depth[i] = Length + 1 - i /\ i \in 1..Length
        /\ next[i] = IF i = Length THEN 0 ELSE i + 1
  BY DEF Index, NULL
<1>4. \A i \in Index : depth[i] <= depth[1] /\ depth[i] >= 1
  BY <1>2, <1>3, RingAssumption
<1>5. \A i \in Index : IF depth[i] = 1 THEN next[i] = NULL
                       ELSE next[i] \in Index /\ depth[next[i]] = depth[i] - 1
  <2> TAKE i \in Index
  <2>1. CASE i = Length
    BY <2>1, <1>3, RingAssumption DEF NULL
  <2>2. CASE i # Length
    <3>1. next[i] = i + 1 /\ i + 1 \in Index
      BY <2>2, <1>3, RingAssumption DEF Index
    <3> QED BY <3>1, <2>2, <1>3, RingAssumption
  <2> QED BY <2>1, <2>2
<1>6. \A i, j \in Index : depth[i] = depth[j] => i = j
  BY <1>3, RingAssumption
<1> QED BY <1>1, <1>2, <1>4, <1>5, <1>6 DEF Chained

(* The tag tells: at a successful compare-and-swap of a pop, the element   *)
(* is the top and the new descriptor is that of the element behind it.     *)
LEMMA SwapSeesTop ==
    ASSUME NEW t, NEW l, Chained(l), Snapshot(t, l), lifo[l] = old[t],
           pc[t] = "swap", old[t] # Nil,
           NEW i, i = old[t].index
    PROVE  /\ i \in On(l) /\ i \in Index /\ where[i] = l
           /\ i = lifo[l].index
           /\ new[t] = Described(next[i])
<1>1. i \in On(l) /\ old[t] = Described(i)
  BY DEF Chained
<1>2. i \in Index /\ where[i] = l /\ tag[i] = old[t].tag
  BY <1>1 DEF On, Described, Index, NULL
<1>3. Fresh(t)
  BY <1>2 DEF Fresh, Popping
<1> QED BY <1>1, <1>2, <1>3 DEF Snapshot

LEMMA OnFinite ==
    ASSUME NEW l
    PROVE  IsFiniteSet(On(l)) /\ Cardinality(On(l)) \in Nat
<1>1. IsFiniteSet(Index)
  BY RingAssumption, FS_Interval DEF Index
<1>2. On(l) \in SUBSET Index
  BY DEF On
<1> QED BY <1>1, <1>2, FS_Subset, FS_CardinalityType
=============================================================================
