---------------------------- MODULE EventLoopProofs --------------------------
(***************************************************************************)
(* Proofs about threads that run event loops: first udeal, with which they *)
(* share a resource (module UDeal), then the pumps of a loop (UpumpEv),    *)
(* then the pipes that a thread has run by the loop of another one         *)
(* (UpipeTransfer).                                                        *)
(***************************************************************************)
EXTENDS UDeal, UpumpEv, UpipeTransfer, SequenceTheorems, FiniteSetTheorems, TLAPS

(***************************************************************************)
(* Proofs about udeal for any finite set of clients, of either style, and  *)
(* any number of accesses.                                                 *)
(*                                                                         *)
(* The two counters are redundant with the program counters: access counts *)
(* the clients between a fetch_add and its fetch_sub, waiters those that   *)
(* have started and not left.  With these two equations a fetch_add that   *)
(* reads 0 tells that nobody else is in, and a fetch_sub that reads 1 that *)
(* nobody else is left, which is all the algorithm relies on.              *)
(***************************************************************************)
Accessing == Attempting \cup Critical
Waiting == States \ (Idle \cup {"notify"})
Active == States \ (Idle \cup {"loop"})

(* In the "loop" style, whoever drains the descriptor is followed by a     *)
(* write: by the last of those that attempt, or by the one that is in, who *)
(* will see the drainer among the waiters.                                 *)
WriteToCome ==
    style = "loop" /\ ~event =>
        \/ In({"read", "recheck", "rewrite", "notify"}) # {}
        \/ In({"loop"}) # {} /\ In({"use", "yield", "leave"}) # {}

DealInv ==
    /\ DealTypeOK
    /\ access = Cardinality(In(Accessing))
    /\ waiters = Cardinality(In(Waiting))
    /\ MutualExclusion
    /\ NoLostWakeup
    /\ WriteToCome

-----------------------------------------------------------------------------
(* How many clients are in a set of states.                                *)
LEMMA InFinite ==
    ASSUME NEW S
    PROVE  IsFiniteSet(In(S)) /\ Cardinality(In(S)) \in Nat
<1>1. In(S) \in SUBSET Clients
  BY DEF In
<1> QED BY <1>1, ClientsAssumption, FS_Subset, FS_CardinalityType

(* A step of c adds it to the number of clients in a set of states when it *)
(* enters it, and removes it when it leaves it.                            *)
LEMMA Counts ==
    ASSUME NEW S, NEW c \in Clients, NEW s,
           pc \in [Clients -> States], Goto(c, s)
    PROVE  Cardinality(In(S)') =
             Cardinality(In(S)) + (IF s \in S THEN 1 ELSE 0)
                                - (IF pc[c] \in S THEN 1 ELSE 0)
<1>1. pc'[c] = s /\ \A u \in Clients \ {c} : pc'[u] = pc[u]
  BY DEF Goto
<1>2. PICK A, B : A = In(S) /\ B = In(S)'
  OBVIOUS
<1>3. IsFiniteSet(A) /\ Cardinality(A) \in Nat /\ (c \in A <=> pc[c] \in S)
  BY <1>2, InFinite DEF In
<1>4. CASE s \in S
  <2>1. B = A \cup {c}
    BY <1>1, <1>2, <1>4 DEF In
  <2>2. Cardinality(B) = IF c \in A THEN Cardinality(A) ELSE Cardinality(A) + 1
    BY <1>3, <2>1, FS_AddElement
  <2> QED BY <1>2, <1>3, <1>4, <2>2
<1>5. CASE s \notin S
  <2>1. B = A \ {c}
    BY <1>1, <1>2, <1>5 DEF In
  <2>2. Cardinality(B) = IF c \in A THEN Cardinality(A) - 1 ELSE Cardinality(A)
    BY <1>3, <2>1, FS_RemoveElement
  <2> QED BY <1>2, <1>3, <1>5, <2>2
<1> QED BY <1>4, <1>5

(* A client is in S when the count of S is positive, and another one than  *)
(* c when c is in it and the count exceeds 1.                              *)
LEMMA Positive ==
    ASSUME NEW S
    PROVE  /\ Cardinality(In(S)) = 0 <=> In(S) = {}
           /\ \A c \in In(S) : Cardinality(In(S)) > 1 <=> In(S) \ {c} # {}
<1>1. PICK A : A = In(S) /\ IsFiniteSet(A) /\ Cardinality(A) \in Nat
  BY InFinite
<1>2. Cardinality(A) = 0 <=> A = {}
  BY <1>1, FS_EmptySet
<1>3. ASSUME NEW c \in A
      PROVE  Cardinality(A) > 1 <=> A \ {c} # {}
  <2>1. PICK B : B = A \ {c} /\ IsFiniteSet(B) /\ Cardinality(B) = Cardinality(A) - 1
    BY <1>1, FS_RemoveElement
  <2>2. Cardinality(B) = 0 <=> B = {}
    BY <2>1, FS_EmptySet
  <2>3. Cardinality(A) # 0
    BY <1>2
  <2> QED BY <1>1, <2>1, <2>2, <2>3
<1> QED BY <1>1, <1>2, <1>3

-----------------------------------------------------------------------------
(* Who is counted, in terms of the counters.                               *)
LEMMA Facts ==
    ASSUME DealInv
    PROVE  /\ access = 0 <=> In(Accessing) = {}
           /\ waiters = 0 <=> In(Waiting) = {}
           /\ \A c \in In(Accessing) : access > 1 <=> In(Accessing) \ {c} # {}
           /\ \A c \in In(Waiting) : waiters > 1 <=> In(Waiting) \ {c} # {}
BY Positive DEF DealInv

LEMMA InitDealInv == DealInit => DealInv
<1> SUFFICES ASSUME DealInit PROVE DealInv
  OBVIOUS
<1>1. DealTypeOK
  BY DEF DealInit, DealTypeOK, States, Idle
<1>2. \A S : "out" \notin S => In(S) = {}
  BY DEF DealInit, In
<1>3. In(Accessing) = {} /\ In(Waiting) = {} /\ In(Critical) = {}
  <2>1. "out" \notin Accessing /\ "out" \notin Waiting /\ "out" \notin Critical
    BY DEF Accessing, Attempting, Critical, Waiting, Idle
  <2> QED BY <2>1, <1>2
<1>4. Cardinality({}) = 0
  BY FS_EmptySet
<1> QED BY <1>1, <1>3, <1>4
        DEF DealInit, DealInv, MutualExclusion, NoLostWakeup, WriteToCome

(* The type and the two counters: a step moves one client, and its         *)
(* arithmetic follows the move.                                            *)
LEMMA NextCounters ==
    ASSUME DealInv, NEW c \in Clients,
           DealStart(c) \/ Trigger(c) \/ Run(c) \/ AbortOutside(c)
    PROVE  /\ DealTypeOK'
           /\ access' = Cardinality(In(Accessing)')
           /\ waiters' = Cardinality(In(Waiting)')
<1> USE DEF States, Idle, Attempting, Critical, Accessing, Waiting
<1>1. DealTypeOK /\ c \in Clients
  BY DEF DealInv
<1>2. PICK s \in States : Goto(c, s)
  BY <1>1 DEF DealTypeOK, DealStart, Trigger, Run, AbortOutside, GrabAdd,
       GrabRead,
     GrabSub, GrabWrite, Use, YieldAccess, YieldWaiters, YieldWrite,
     AbortInside
<1>3. pc' = [pc EXCEPT ![c] = s] /\ pc'[c] = s
  BY <1>1, <1>2 DEF Goto, DealTypeOK
<1>4. /\ Cardinality(In(Accessing)') \in Nat
      /\ Cardinality(In(Waiting)') \in Nat
  <2>1. IsFiniteSet(In(Accessing)') /\ IsFiniteSet(In(Waiting)')
    <3>1. In(Accessing)' \in SUBSET Clients /\ In(Waiting)' \in SUBSET Clients
      BY DEF In
    <3> QED BY <3>1, ClientsAssumption, FS_Subset
  <2> QED BY <2>1, FS_CardinalityType
<1>5. access' = Cardinality(In(Accessing)')
  <2>1. Cardinality(In(Accessing)') = access
          + (IF s \in Accessing THEN 1 ELSE 0)
          - (IF pc[c] \in Accessing THEN 1 ELSE 0)
    BY <1>1, <1>2, Counts DEF DealInv, DealTypeOK
  <2> QED BY <1>1, <1>3, <2>1
          DEF DealTypeOK, DealStart, Trigger, Run, AbortOutside, GrabAdd, GrabRead,
          GrabSub, GrabWrite, Use, YieldAccess, YieldWaiters, YieldWrite,
          AbortInside, Goto
<1>6. waiters' = Cardinality(In(Waiting)')
  <2>1. Cardinality(In(Waiting)') = waiters
          + (IF s \in Waiting THEN 1 ELSE 0)
          - (IF pc[c] \in Waiting THEN 1 ELSE 0)
    BY <1>1, <1>2, Counts DEF DealInv, DealTypeOK
  <2> QED BY <1>1, <1>3, <2>1
          DEF DealTypeOK, DealStart, Trigger, Run, AbortOutside, GrabAdd, GrabRead,
          GrabSub, GrabWrite, Use, YieldAccess, YieldWaiters, YieldWrite,
          AbortInside, Goto
<1>7. DealTypeOK'
  <2>1. access' \in Nat /\ waiters' \in Nat
    BY <1>4, <1>5, <1>6
  <2>2. pc' \in [Clients -> States]
    BY <1>1, <1>3 DEF DealTypeOK
  <2>3. event' \in BOOLEAN /\ turns' \in [Clients -> Nat] /\ style' = style
    <3>0. style' = style
      BY DEF DealStart, Trigger, Run, AbortOutside, GrabAdd, GrabRead, GrabSub,
         GrabWrite, Use, YieldAccess, YieldWaiters, YieldWrite, AbortInside
    <3>1. event' \in {event, TRUE, FALSE}
      BY DEF DealStart, Trigger, Run, AbortOutside, GrabAdd, GrabRead, GrabSub,
         GrabWrite, Use, YieldAccess, YieldWaiters, YieldWrite, AbortInside
    <3>2. turns' = turns \/ turns' = [turns EXCEPT ![c] = @ + 1]
      BY DEF DealStart, Trigger, Run, AbortOutside, GrabAdd, GrabRead, GrabSub,
         GrabWrite, Use, YieldAccess, YieldWaiters, YieldWrite, AbortInside
    <3>3. event' \in BOOLEAN
      BY <1>1, <3>1, Zenon DEF DealTypeOK
    <3>4. turns' \in [Clients -> Nat]
      BY <1>1, <3>2 DEF DealTypeOK
    <3> QED BY <3>0, <3>3, <3>4
  <2> QED BY <1>1, <2>1, <2>2, <2>3 DEF DealTypeOK, Styles
<1> QED BY <1>5, <1>6, <1>7

(* Mutual exclusion: the only way in is a fetch_add that read 0, when      *)
(* nobody else is counted.                                                 *)
LEMMA NextExclusion ==
    ASSUME DealInv, NEW c \in Clients,
           DealStart(c) \/ Trigger(c) \/ Run(c) \/ AbortOutside(c)
    PROVE  MutualExclusion'
<1> USE DEF Attempting, Critical, Accessing
<1>1. pc \in [Clients -> States] /\ MutualExclusion
  BY DEF DealInv, DealTypeOK
<1>2. CASE GrabAdd(c)
  <2>1. CASE access > 0
    BY <1>1, <1>2, <2>1 DEF GrabAdd, Goto, MutualExclusion, In
  <2>2. CASE ~(access > 0)
    <3>1. In(Accessing) = {}
      BY <2>2, Facts DEF DealInv, DealTypeOK
    <3> QED BY <1>1, <1>2, <3>1 DEF GrabAdd, Goto, MutualExclusion, In
  <2> QED BY <2>1, <2>2
<1>3. CASE Use(c)
  BY <1>1, <1>3 DEF Use, Goto, MutualExclusion, In
<1>4. CASE ~GrabAdd(c) /\ ~Use(c)
  <2>1. PICK s \in States \ Critical : Goto(c, s)
    BY <1>4 DEF DealStart, Trigger, Run, AbortOutside, GrabRead, GrabSub,
       GrabWrite, YieldAccess, YieldWaiters, YieldWrite, AbortInside, States,
       Idle
  <2> QED BY <1>1, <2>1 DEF Goto, MutualExclusion, In
<1> QED BY <1>2, <1>3, <1>4

(* The waiters of a "loop" client: one case per step that drains the       *)
(* descriptor, fails, or leaves.                                           *)
LEMMA NextWriteToCome ==
    ASSUME DealInv, NEW c \in Clients,
           DealStart(c) \/ Trigger(c) \/ Run(c) \/ AbortOutside(c)
    PROVE  WriteToCome'
<1> USE DEF Attempting, Critical, Accessing, Waiting, States, Idle
<1>0. style' = style
  BY DEF DealStart, Trigger, Run, AbortOutside, GrabAdd, GrabRead, GrabSub,
     GrabWrite, Use, YieldAccess, YieldWaiters, YieldWrite, AbortInside
<1> SUFFICES ASSUME style = "loop", ~event'
             PROVE  \/ In({"read", "recheck", "rewrite", "notify"})' # {}
                    \/ /\ In({"loop"})' # {}
                       /\ In({"use", "yield", "leave"})' # {}
  BY <1>0 DEF WriteToCome
<1>1. pc \in [Clients -> States]
  BY DEF DealInv, DealTypeOK
<1>2. CASE GrabRead(c)
  BY <1>1, <1>2 DEF GrabRead, Goto, In
<1>3. CASE GrabWrite(c) \/ YieldWrite(c)
  BY <1>3 DEF GrabWrite, YieldWrite
<1>4. ASSUME UNCHANGED event
      PROVE  \/ In({"read", "recheck", "rewrite", "notify"}) # {}
             \/ In({"loop"}) # {} /\ In({"use", "yield", "leave"}) # {}
  BY <1>4 DEF DealInv, WriteToCome
<1>5. CASE GrabSub(c)
  <2>1. CASE access > 1
    <3>1. c \in In(Accessing)
      BY <1>5 DEF GrabSub, In
    <3>2. PICK d \in In(Accessing) : d # c
      BY <2>1, <3>1, Facts
    <3> QED BY <1>1, <1>5, <2>1, <3>2 DEF GrabSub, Goto, In
  <2>2. CASE ~(access > 1)
    BY <1>1, <1>5, <2>2 DEF GrabSub, Goto, In
  <2> QED BY <2>1, <2>2
<1>6. CASE YieldWaiters(c)
  <2>1. CASE waiters > 1
    BY <1>1, <1>6, <2>1 DEF YieldWaiters, Goto, In
  <2>2. CASE ~(waiters > 1)
    <3>1. c \in In(Waiting)
      BY <1>6 DEF YieldWaiters, In
    <3>2. In({"loop"}) = {}
      BY <1>6, <2>2, <3>1, Facts DEF YieldWaiters, In
    <3> QED BY <1>1, <1>4, <1>6, <3>2 DEF YieldWaiters, Goto, In
  <2> QED BY <2>1, <2>2
<1>7. CASE GrabAdd(c)
  BY <1>1, <1>4, <1>7 DEF GrabAdd, Goto, In
<1>8. CASE DealStart(c) \/ Use(c) \/ YieldAccess(c) \/ AbortInside(c)
  BY <1>1, <1>4, <1>8 DEF DealStart, Use, YieldAccess, AbortInside, Goto, In
<1>9. CASE Trigger(c)
  BY <1>9 DEF Trigger
<1>10. CASE AbortOutside(c)
  BY <1>10 DEF AbortOutside
<1> QED BY <1>2, <1>3, <1>5, <1>6, <1>7, <1>8, <1>9, <1>10 DEF Run

(* No lost wake-up: a client goes to sleep because it saw another one that *)
(* counts, and the last one to leave sees the sleepers.                    *)
LEMMA NextNoLostWakeup ==
    ASSUME DealInv, NEW c \in Clients, WriteToCome',
           DealStart(c) \/ Trigger(c) \/ Run(c) \/ AbortOutside(c)
    PROVE  NoLostWakeup'
<1> USE DEF Attempting, Critical, Accessing, Waiting, States, Idle
<1> SUFFICES ASSUME In({"loop"})' # {}, ~event'
             PROVE  In(Active)' # {}
  BY DEF NoLostWakeup, Active
<1>1. pc \in [Clients -> States] /\ style' = style
  BY DEF DealInv, DealTypeOK, DealStart, Trigger, Run, AbortOutside, GrabAdd,
       GrabRead,
     GrabSub, GrabWrite, Use, YieldAccess, YieldWaiters, YieldWrite,
     AbortInside
<1>2. CASE style = "loop"
  BY <1>1, <1>2 DEF WriteToCome, In, Active
<1>3. CASE style = "open"
  <2>1. CASE DealStart(c)
    <3>1. CASE waiters = 0
      BY <1>1, <2>1, <3>1 DEF DealStart, Goto, In, Active
    <3>2. CASE waiters # 0
      <4>1. In(Waiting) # {}
        BY <3>2, Facts
      <4>2. PICK d \in Clients : d # c /\ pc[d] \in Active
        <5>1. In({"loop"}) = {} => In(Active) # {}
          BY <4>1 DEF In, Active
        <5>2. In(Active) # {}
          BY <2>1, <5>1 DEF DealInv, NoLostWakeup, Active, DealStart
        <5> QED BY <2>1, <5>2 DEF DealStart, In, Active
      <4> QED BY <1>1, <2>1, <4>2 DEF DealStart, Goto, In, Active
    <3> QED BY <3>1, <3>2
  <2>2. CASE GrabSub(c)
    <3>1. CASE access > 1
      <4>1. c \in In(Accessing)
        BY <2>2 DEF GrabSub, In
      <4>2. PICK d \in In(Accessing) : d # c
        BY <3>1, <4>1, Facts
      <4> QED BY <1>1, <2>2, <4>2 DEF GrabSub, Goto, In, Active
    <3>2. CASE ~(access > 1)
      BY <1>1, <2>2, <3>2 DEF GrabSub, Goto, In, Active
    <3> QED BY <3>1, <3>2
  <2>3. CASE YieldWaiters(c)
    <3>1. CASE waiters > 1
      BY <1>1, <2>3, <3>1 DEF YieldWaiters, Goto, In, Active
    <3>2. CASE ~(waiters > 1)
      <4>1. c \in In(Waiting)
        BY <2>3 DEF YieldWaiters, In
      <4>2. In({"loop"}) = {}
        BY <2>3, <3>2, <4>1, Facts DEF YieldWaiters, In
      <4> QED BY <1>1, <2>3, <3>2, <4>2 DEF YieldWaiters, Goto, In
    <3> QED BY <3>1, <3>2
  <2>4. CASE GrabAdd(c) \/ GrabRead(c) \/ Use(c) \/ YieldAccess(c)
    BY <1>1, <2>4 DEF GrabAdd, GrabRead, Use, YieldAccess, Goto, In, Active
  <2>5. CASE GrabWrite(c) \/ YieldWrite(c) \/ Trigger(c) \/ AbortInside(c)
    BY <1>3, <2>5 DEF GrabWrite, YieldWrite, Trigger, AbortInside
  <2>6. CASE AbortOutside(c)
    BY <1>1, <2>6
       DEF AbortOutside, Goto, In, Active, DealInv, NoLostWakeup
  <2> QED BY <2>1, <2>2, <2>3, <2>4, <2>5, <2>6 DEF Run
<1> QED BY <1>2, <1>3 DEF DealInv, DealTypeOK, Styles

LEMMA NextDealInv == DealInv /\ [DealNext]_dealVars => DealInv'
<1> SUFFICES ASSUME DealInv, [DealNext]_dealVars PROVE DealInv'
  OBVIOUS
<1>1. CASE UNCHANGED dealVars
  BY <1>1 DEF DealInv, dealVars, DealTypeOK, In, MutualExclusion, NoLostWakeup,
     WriteToCome
<1>2. CASE DealNext
  <2>1. PICK c \in Clients :
            DealStart(c) \/ Trigger(c) \/ Run(c) \/ AbortOutside(c)
    BY <1>2 DEF DealNext
  <2>2. WriteToCome'
    BY <2>1, NextWriteToCome
  <2> QED BY <2>1, <2>2, NextCounters, NextExclusion, NextNoLostWakeup
          DEF DealInv
<1> QED BY <1>1, <1>2

-----------------------------------------------------------------------------
THEOREM DealInvariance == DealSpec => []DealInv
BY InitDealInv, NextDealInv, PTL DEF DealSpec

(* Every variable of udeal and of its clients keeps its type: in           *)
(* particular no counter goes below zero.                                  *)
THEOREM DealTypeCorrect == DealSpec => []DealTypeOK
<1>1. DealInv => DealTypeOK
  BY DEF DealInv
<1> QED BY <1>1, DealInvariance, PTL

(* Two clients are never both between a successful udeal_grab and the      *)
(* fetch_sub of udeal_yield, however many they are.                        *)
THEOREM Exclusion == DealSpec => []MutualExclusion
<1>1. DealInv => MutualExclusion
  BY DEF DealInv
<1> QED BY <1>1, DealInvariance, PTL

(* A client never waits for an unreadable descriptor while all the others  *)
(* are away or wait too.                                                   *)
THEOREM WakeupsKept == DealSpec => []NoLostWakeup
<1>1. DealInv => NoLostWakeup
  BY DEF DealInv
<1> QED BY <1>1, DealInvariance, PTL

(* The resource is free just when access is zero, and waiters is zero just *)
(* when every client is away.                                              *)
THEOREM CountersCorrect == DealSpec => []CountersSettle
<1>1. DealInv => CountersSettle
  <2> SUFFICES ASSUME DealInv PROVE CountersSettle
    OBVIOUS
  <2>1. access = 0 <=> In(Attempting \cup Critical) = {}
    BY Facts DEF Accessing
  <2>2. In(Waiting) = {} <=> Clients = In(Idle \cup {"notify"})
    BY DEF DealInv, DealTypeOK, In, Waiting
  <2> QED BY <2>1, <2>2, Facts DEF CountersSettle
<1> QED BY <1>1, DealInvariance, PTL

-----------------------------------------------------------------------------
(***************************************************************************)
(* Proofs about pumps for any number of pumps and blockers.                *)
(*                                                                         *)
(* A call looks at started and at the list of blockers only, and takes for *)
(* granted that the watcher agrees: that an unblocked pump that was not    *)
(* started is inactive, and that one that is stopped or blocked for the    *)
(* first time is active or has expired.  This agreement is the invariant;  *)
(* the count of the loop follows from it, provided that a pump with status *)
(* false neither expires nor is restarted.                                 *)
(***************************************************************************)
(* Only a pump that is allocated is started.                               *)
Owned == \A p \in Pumps : started[p] => allocated[p]

Agreement == TypeOK /\ Owned /\ Gated /\ Armed

(* The pumps with status false are on descriptors, signals or idlers, or   *)
(* timers that repeat and are never restarted.                             *)
Steady == NonBlocking \cap (OneShots \cup Restarted) = {}

Waking == {p \in Pumps : active[p] /\ status[p]}

LoopInv ==
    /\ Agreement
    /\ \A p \in Pumps \ NonBlocking : status[p]
    /\ count = Cardinality(Waking)

-----------------------------------------------------------------------------
LEMMA InitAgreement == Init => Agreement
<1> USE PumpsAssumption DEF Init
<1>1. Init => TypeOK
  BY DEF TypeOK
<1>2. Init => Owned /\ Gated /\ Armed
  BY DEF Owned, Gated, Armed, Pumps, Timers
<1> QED BY <1>1, <1>2 DEF Agreement

(* Every call leaves the watcher as the pump and its blockers say.         *)
LEMMA ClientAgrees ==
    ASSUME Agreement, NEW p \in Pumps, Client(p)
    PROVE  Agreement'
<1> USE PumpsAssumption
    DEF Agreement, TypeOK, Owned, Gated, Armed, Unblocked, One, Same,
        RealStart, RealStop, RealRestart
<1>0. Fds \cup Repeats \subseteq Pumps
  BY DEF Pumps, Timers
<1>1. CASE Alloc(p)
  <2>1. TypeOK'
    <3>1. allocated' \in [Pumps -> BOOLEAN] /\ started' \in [Pumps -> BOOLEAN]
      BY <1>1 DEF Alloc
    <3>2. status' \in [Pumps -> BOOLEAN] /\ active' \in [Pumps -> BOOLEAN]
      BY <1>1 DEF Alloc
    <3>3. due' \in [Pumps -> BOOLEAN]
      BY <1>1 DEF Alloc
    <3>4. blockers' \in [Pumps -> 0..MaxBlockers]
      BY <1>1 DEF Alloc
    <3>5. count' \in Int
      BY <1>1 DEF Alloc
    <3> QED BY <3>1, <3>2, <3>3, <3>4, <3>5
  <2>2. Owned'
    BY <1>1 DEF Alloc
  <2>3. Gated'
    BY <1>1 DEF Alloc
  <2>4. Armed'
    BY <1>1, <1>0 DEF Alloc
  <2> QED BY <2>1, <2>2, <2>3, <2>4
<1>2. CASE Start(p)
  <2>1. TypeOK'
    <3>1. allocated' \in [Pumps -> BOOLEAN] /\ started' \in [Pumps -> BOOLEAN]
      BY <1>2 DEF Start
    <3>2. status' \in [Pumps -> BOOLEAN] /\ active' \in [Pumps -> BOOLEAN]
      BY <1>2 DEF Start
    <3>3. due' \in [Pumps -> BOOLEAN]
      BY <1>2 DEF Start
    <3>4. blockers' \in [Pumps -> 0..MaxBlockers]
      BY <1>2 DEF Start
    <3>5. count' \in Int
      BY <1>2 DEF Start
    <3> QED BY <3>1, <3>2, <3>3, <3>4, <3>5
  <2>2. Owned'
    BY <1>2 DEF Start
  <2>3. Gated'
    BY <1>2 DEF Start
  <2>4. Armed'
    BY <1>2, <1>0 DEF Start
  <2> QED BY <2>1, <2>2, <2>3, <2>4
<1>3. CASE Restart(p)
  <2>1. TypeOK'
    <3>1. allocated' \in [Pumps -> BOOLEAN] /\ started' \in [Pumps -> BOOLEAN]
      BY <1>3 DEF Restart
    <3>2. status' \in [Pumps -> BOOLEAN] /\ active' \in [Pumps -> BOOLEAN]
      BY <1>3 DEF Restart
    <3>3. due' \in [Pumps -> BOOLEAN]
      BY <1>3 DEF Restart
    <3>4. blockers' \in [Pumps -> 0..MaxBlockers]
      BY <1>3 DEF Restart
    <3>5. count' \in Int
      BY <1>3 DEF Restart
    <3> QED BY <3>1, <3>2, <3>3, <3>4, <3>5
  <2>2. Owned'
    BY <1>3 DEF Restart
  <2>3. Gated'
    BY <1>3 DEF Restart
  <2>4. Armed'
    BY <1>3, <1>0 DEF Restart
  <2> QED BY <2>1, <2>2, <2>3, <2>4
<1>4. CASE Stop(p)
  <2>1. TypeOK'
    <3>1. allocated' \in [Pumps -> BOOLEAN] /\ started' \in [Pumps -> BOOLEAN]
      BY <1>4 DEF Stop
    <3>2. status' \in [Pumps -> BOOLEAN] /\ active' \in [Pumps -> BOOLEAN]
      BY <1>4 DEF Stop
    <3>3. due' \in [Pumps -> BOOLEAN]
      BY <1>4 DEF Stop
    <3>4. blockers' \in [Pumps -> 0..MaxBlockers]
      BY <1>4 DEF Stop
    <3>5. count' \in Int
      BY <1>4 DEF Stop
    <3> QED BY <3>1, <3>2, <3>3, <3>4, <3>5
  <2>2. Owned'
    BY <1>4 DEF Stop
  <2>3. Gated'
    BY <1>4 DEF Stop
  <2>4. Armed'
    BY <1>4, <1>0 DEF Stop
  <2> QED BY <2>1, <2>2, <2>3, <2>4
<1>5. CASE Free(p)
  <2>1. TypeOK'
    <3>1. allocated' \in [Pumps -> BOOLEAN] /\ started' \in [Pumps -> BOOLEAN]
      BY <1>5 DEF Free
    <3>2. status' \in [Pumps -> BOOLEAN] /\ active' \in [Pumps -> BOOLEAN]
      BY <1>5 DEF Free
    <3>3. due' \in [Pumps -> BOOLEAN]
      BY <1>5 DEF Free
    <3>4. blockers' \in [Pumps -> 0..MaxBlockers]
      BY <1>5 DEF Free
    <3>5. count' \in Int
      BY <1>5 DEF Free
    <3> QED BY <3>1, <3>2, <3>3, <3>4, <3>5
  <2>2. Owned'
    BY <1>5 DEF Free
  <2>3. Gated'
    BY <1>5 DEF Free
  <2>4. Armed'
    BY <1>5, <1>0 DEF Free
  <2> QED BY <2>1, <2>2, <2>3, <2>4
<1>6. ASSUME NEW s \in BOOLEAN, SetStatus(p, s) PROVE Agreement'
  <2>1. TypeOK'
    <3>1. allocated' \in [Pumps -> BOOLEAN] /\ started' \in [Pumps -> BOOLEAN]
      BY <1>6 DEF SetStatus
    <3>2. status' \in [Pumps -> BOOLEAN] /\ active' \in [Pumps -> BOOLEAN]
      BY <1>6 DEF SetStatus
    <3>3. due' \in [Pumps -> BOOLEAN]
      BY <1>6 DEF SetStatus
    <3>4. blockers' \in [Pumps -> 0..MaxBlockers]
      BY <1>6 DEF SetStatus
    <3>5. count' \in Int
      BY <1>6 DEF SetStatus
    <3> QED BY <3>1, <3>2, <3>3, <3>4, <3>5
  <2>2. Owned'
    BY <1>6 DEF SetStatus
  <2>3. Gated'
    BY <1>6 DEF SetStatus
  <2>4. Armed'
    BY <1>6, <1>0 DEF SetStatus
  <2> QED BY <2>1, <2>2, <2>3, <2>4
<1>7. CASE AllocBlocker(p)
  <2>1. TypeOK'
    <3>1. allocated' \in [Pumps -> BOOLEAN] /\ started' \in [Pumps -> BOOLEAN]
      BY <1>7 DEF AllocBlocker
    <3>2. status' \in [Pumps -> BOOLEAN] /\ active' \in [Pumps -> BOOLEAN]
      BY <1>7 DEF AllocBlocker
    <3>3. due' \in [Pumps -> BOOLEAN]
      BY <1>7 DEF AllocBlocker
    <3>4. blockers' \in [Pumps -> 0..MaxBlockers]
      BY <1>7 DEF AllocBlocker
    <3>5. count' \in Int
      BY <1>7 DEF AllocBlocker
    <3> QED BY <3>1, <3>2, <3>3, <3>4, <3>5
  <2>2. Owned'
    BY <1>7 DEF AllocBlocker
  <2>3. Gated'
    BY <1>7 DEF AllocBlocker
  <2>4. Armed'
    BY <1>7, <1>0 DEF AllocBlocker
  <2> QED BY <2>1, <2>2, <2>3, <2>4
<1>8. CASE FreeBlocker(p)
  <2>1. TypeOK'
    <3>1. allocated' \in [Pumps -> BOOLEAN] /\ started' \in [Pumps -> BOOLEAN]
      BY <1>8 DEF FreeBlocker
    <3>2. status' \in [Pumps -> BOOLEAN] /\ active' \in [Pumps -> BOOLEAN]
      BY <1>8 DEF FreeBlocker
    <3>3. due' \in [Pumps -> BOOLEAN]
      BY <1>8 DEF FreeBlocker
    <3>4. blockers' \in [Pumps -> 0..MaxBlockers]
      BY <1>8 DEF FreeBlocker
    <3>5. count' \in Int
      BY <1>8 DEF FreeBlocker
    <3> QED BY <3>1, <3>2, <3>3, <3>4, <3>5
  <2>2. Owned'
    BY <1>8 DEF FreeBlocker
  <2>3. Gated'
    BY <1>8 DEF FreeBlocker
  <2>4. Armed'
    BY <1>8, <1>0 DEF FreeBlocker
  <2> QED BY <2>1, <2>2, <2>3, <2>4
<1> QED BY <1>1, <1>2, <1>3, <1>4, <1>5, <1>6, <1>7, <1>8 DEF Client

(* So does the loop.                                                       *)
LEMMA LoopAgrees ==
    ASSUME Agreement, NEW p \in Pumps, Loop(p)
    PROVE  Agreement'
<1> USE PumpsAssumption
    DEF Agreement, TypeOK, Owned, Gated, Armed, Unblocked
<1>0. Fds \cup Repeats \subseteq Pumps \ OneShots
  BY DEF Pumps, Timers
<1>1. CASE Happen(p)
  <2>1. TypeOK'
    <3>1. active' \in [Pumps -> BOOLEAN] /\ due' \in [Pumps -> BOOLEAN]
      BY <1>1 DEF Happen
    <3>2. count' \in Int
      BY <1>1 DEF Happen
    <3> QED BY <1>1, <3>1, <3>2 DEF Happen
  <2>2. Owned' /\ Gated'
    BY <1>1 DEF Happen
  <2>3. Armed'
    BY <1>0, <1>1 DEF Happen
  <2> QED BY <2>1, <2>2, <2>3
<1>2. CASE Dispatch(p)
  <2>1. TypeOK'
    BY <1>2 DEF Dispatch
  <2>2. Owned' /\ Gated'
    BY <1>2 DEF Dispatch
  <2>3. Armed'
    BY <1>0, <1>2 DEF Dispatch
  <2> QED BY <2>1, <2>2, <2>3
<1> QED BY <1>1, <1>2 DEF Loop

LEMMA AgreementKept == Agreement /\ [Next]_vars => Agreement'
<1> SUFFICES ASSUME Agreement, [Next]_vars
             PROVE  Agreement'
  OBVIOUS
<1>1. CASE Next
  BY <1>1, ClientAgrees, LoopAgrees DEF Next
<1>2. CASE UNCHANGED vars
  BY <1>2 DEF vars, Agreement, TypeOK, Owned, Gated, Armed, Unblocked
<1> QED BY <1>1, <1>2

THEOREM AgreementHolds == Spec => []Agreement
<1>1. Init => Agreement
  BY InitAgreement
<1>2. Agreement /\ [Next]_vars => Agreement'
  BY AgreementKept
<1> QED BY <1>1, <1>2, PTL DEF Spec

(* The state of a pump, its watcher and its due call-back have their types *)
(* whatever calls are made.                                                *)
THEOREM TypeCorrect == Spec => []TypeOK
BY AgreementHolds, PTL DEF Agreement

(* No call-back is due for a pump that is freed, stopped or blocked.       *)
THEOREM NoStrayCallBack == Spec => []Gated
BY AgreementHolds, PTL DEF Agreement

(* No sequence of calls leaves a started pump without blocker inactive.    *)
THEOREM StartedPumpsRun == Spec => []Armed
BY AgreementHolds, PTL DEF Agreement

(* So each watcher is active just as long as its pump may run.             *)
THEOREM WatchersFollow == Spec => []RunsAsAsked
BY NoStrayCallBack, StartedPumpsRun, PTL DEF RunsAsAsked

-----------------------------------------------------------------------------
(* A step that leaves all pumps but p as they are changes the number of    *)
(* counted pumps by what p becomes and was.                                *)
LEMMA Recount ==
    ASSUME TypeOK, NEW p \in Pumps,
           active' \in [Pumps -> BOOLEAN], status' \in [Pumps -> BOOLEAN],
           \A q \in Pumps \ {p} : active'[q] = active[q] /\ status'[q] = status[q]
    PROVE  Cardinality(Waking') =
             Cardinality(Waking) + One(active'[p] /\ status'[p])
                                  - One(active[p] /\ status[p])
<1>1. PICK A, B : A = Waking /\ B = Waking'
  OBVIOUS
<1>2. A \in SUBSET Pumps /\ IsFiniteSet(Pumps)
  BY <1>1, PumpsAssumption DEF Waking
<1>3. IsFiniteSet(A) /\ Cardinality(A) \in Nat /\ (p \in A <=> active[p] /\ status[p])
  BY <1>1, <1>2, FS_Subset, FS_CardinalityType DEF Waking
<1>4. CASE active'[p] /\ status'[p]
  <2>1. B = A \cup {p}
    BY <1>1, <1>4 DEF Waking
  <2>2. Cardinality(B) = IF p \in A THEN Cardinality(A) ELSE Cardinality(A) + 1
    BY <1>3, <2>1, FS_AddElement
  <2> QED BY <1>1, <1>3, <1>4, <2>2 DEF One
<1>5. CASE ~(active'[p] /\ status'[p])
  <2>1. B = A \ {p}
    BY <1>1, <1>5 DEF Waking
  <2>2. Cardinality(B) = IF p \in A THEN Cardinality(A) - 1 ELSE Cardinality(A)
    BY <1>3, <2>1, FS_RemoveElement
  <2> QED BY <1>1, <1>3, <1>5, <2>2 DEF One
<1> QED BY <1>4, <1>5

(* Each step changes the loop's count by just that, when status is steady. *)
LEMMA CountFollows ==
    ASSUME Steady, LoopInv, NEW p \in Pumps, Client(p) \/ Loop(p)
    PROVE  /\ count' = count + One(active'[p] /\ status'[p])
                             - One(active[p] /\ status[p])
           /\ \A q \in Pumps \ {p} : active'[q] = active[q] /\ status'[q] = status[q]
           /\ \A q \in Pumps \ NonBlocking : status'[q]
<1> DEFINE Follows ==
      /\ count' = count + One(active'[p] /\ status'[p]) - One(active[p] /\ status[p])
      /\ \A q \in Pumps \ {p} : active'[q] = active[q] /\ status'[q] = status[q]
      /\ \A q \in Pumps \ NonBlocking : status'[q]
<1> USE DEF LoopInv, Agreement, TypeOK, Owned, Gated, Armed, Unblocked, One,
            Same, RealStart, RealStop, RealRestart
<1>0. /\ p \in OneShots \cup Restarted => status[p]
      /\ p \notin OneShots => p \in Fds \cup Repeats
  BY DEF Steady, Pumps, Timers
<1>1. CASE Alloc(p)
  BY <1>0, <1>1 DEF Alloc
<1>2. CASE Start(p)
  BY <1>0, <1>2 DEF Start
<1>3. CASE Restart(p)
  BY <1>0, <1>3 DEF Restart
<1>4. CASE Stop(p)
  BY <1>0, <1>4 DEF Stop
<1>5. CASE Free(p)
  BY <1>0, <1>5 DEF Free
<1>6. ASSUME NEW s \in BOOLEAN, SetStatus(p, s) PROVE Follows
  BY <1>0, <1>6 DEF SetStatus
<1>7. CASE AllocBlocker(p)
  BY <1>0, <1>7 DEF AllocBlocker
<1>8. CASE FreeBlocker(p)
  BY <1>0, <1>8 DEF FreeBlocker
<1>9. CASE Happen(p)
  BY <1>0, <1>9 DEF Happen
<1>10. CASE Dispatch(p)
  BY <1>0, <1>10 DEF Dispatch
<1> QED BY <1>1, <1>2, <1>3, <1>4, <1>5, <1>6, <1>7, <1>8, <1>9, <1>10 DEF
     Client, Loop

LEMMA InitLoopInv == Init => LoopInv
<1> SUFFICES ASSUME Init PROVE LoopInv
  OBVIOUS
<1>1. Agreement
  BY InitAgreement
<1>2. Waking = {}
  BY DEF Init, Waking
<1>3. Cardinality({}) = 0
  BY FS_EmptySet
<1> QED BY <1>1, <1>2, <1>3 DEF Init, LoopInv

LEMMA NextLoopInv ==
    ASSUME Steady, LoopInv, [Next]_vars
    PROVE  LoopInv'
<1>1. ASSUME NEW p \in Pumps, Client(p) \/ Loop(p)
      PROVE  LoopInv'
  <2>1. Agreement /\ Agreement'
    BY <1>1, ClientAgrees, LoopAgrees DEF LoopInv
  <2>2. /\ count' = count + One(active'[p] /\ status'[p])
                           - One(active[p] /\ status[p])
        /\ \A q \in Pumps \ {p} : active'[q] = active[q] /\ status'[q] = status[q]
        /\ \A q \in Pumps \ NonBlocking : status'[q]
    BY <1>1, CountFollows
  <2>3. Cardinality(Waking') =
          Cardinality(Waking) + One(active'[p] /\ status'[p])
                               - One(active[p] /\ status[p])
    BY <2>1, <2>2, Recount DEF Agreement, TypeOK
  <2>4. count' = Cardinality(Waking')
    BY <2>2, <2>3 DEF LoopInv
  <2> QED BY <2>1, <2>2, <2>4 DEF LoopInv
<1>2. CASE UNCHANGED vars
  <2>1. Agreement'
    BY AgreementKept DEF LoopInv
  <2> QED BY <2>1, <1>2 DEF vars, LoopInv, Waking
<1> QED BY <1>1, <1>2 DEF Next

(* The count is that of the active pumps with status true, and so the loop *)
(* returns when there is none and not before, whatever calls are made, if  *)
(* the pumps with status false neither expire nor are restarted.           *)
THEOREM LoopCountCorrect ==
    ASSUME Steady
    PROVE  Spec => []CountExact
<1>1. Init => LoopInv
  BY InitLoopInv
<1>2. LoopInv /\ [Next]_vars => LoopInv'
  BY NextLoopInv
<1>3. LoopInv => CountExact
  BY DEF LoopInv, CountExact, Waking
<1> QED BY <1>1, <1>2, <1>3, PTL DEF Spec

-----------------------------------------------------------------------------
(***************************************************************************)
(* Proofs about transferred pipes for any finite set of them, any length   *)
(* of the queues, and any order in which the two threads let go.           *)
(*                                                                         *)
(* The references say who may still speak of whom.  Those of the manager   *)
(* are of the application, of a freeze, of one that has failed, and of each*)
(* xfer pipe that is not freed; those of an xfer pipe are its own, one for *)
(* each message that comes back to it, and one for its watcher while it    *)
(* runs.  Its own is given back with the message of the death of the remote*)
(* pipe, which is the last one, since the remote pipe no longer speaks: it *)
(* lives until all have let go of it (kept), and the message of its release*)
(* is the last one to it.  And a message to the manager other than DETACH  *)
(* is about a pipe that is alive, so that there is none when the last      *)
(* reference on the manager goes.                                          *)
(***************************************************************************)
(* The types, but for the counts, which are natural numbers because of what*)
(* they count.                                                             *)
ThreadsTyped ==
    /\ main \in Pipes \cup {"idle"} /\ remote \in {"idle", Manager}
    /\ pushing \subseteq {Manager} /\ remote_pushing \subseteq Pipes
FlagsTyped ==
    /\ used \in BOOLEAN /\ mgr_freed \in BOOLEAN /\ attached \in BOOLEAN
    /\ frozen \in BOOLEAN /\ readable \in BOOLEAN /\ lost \in BOOLEAN /\ leaked \in BOOLEAN
QueuesTyped ==
    /\ uqueue \in Seq(Messages) /\ Len(uqueue) <= QueueLength
    /\ xfer_uqueue \in [Pipes -> Seq(Events \cup {"DEAD"})]
PipesTyped ==
    /\ xfer \in [Pipes -> {"none", "used", "released", "freed"}]
    /\ xfer_readable \in [Pipes -> BOOLEAN] /\ alive \in [Pipes -> BOOLEAN]
    /\ xfer_refs \in [Pipes -> Int] /\ kept \subseteq Pipes

Typed == ThreadsTyped /\ FlagsTyped /\ QueuesTyped /\ PipesTyped /\ mgr_refs \in Int

(* The xfer pipes that have a reference on the manager.                    *)
Standing == {"used", "released"}
Present == {p \in Pipes : xfer[p] \in Standing}

MgrCounted ==
    mgr_refs = Cardinality(Present) + One(used) + One(frozen) + One(leaked)

MgrEnds ==
    /\ mgr_freed => mgr_refs = 0 /\ uqueue = <<>>
    /\ \A i \in DOMAIN uqueue :
         uqueue[i].type = "DETACH" => mgr_refs = 0 /\ Len(uqueue) = 1

(* What waits in the queue of the manager is about pipes that are alive    *)
(* and have not been released.                                             *)
AboutAlive ==
    \A i \in DOMAIN uqueue :
      uqueue[i].type # "DETACH" =>
        /\ uqueue[i].pipe \in Pipes /\ alive[uqueue[i].pipe]
        /\ uqueue[i].pipe \notin kept

ReleaseIsLast ==
    \A i \in DOMAIN uqueue :
      uqueue[i].type = "RELEASE" =>
        /\ xfer[uqueue[i].pipe] = "released"
        /\ \A j \in DOMAIN uqueue : i < j => uqueue[j].pipe # uqueue[i].pipe

(* The references on an xfer pipe.  Once its own is given back, only that  *)
(* of the watcher that did it is left.                                     *)
Whole(p) == xfer_refs[p] = 1 + Len(xfer_uqueue[p]) + One(main = p)

Parting(p) ==
    /\ xfer[p] = "released" /\ ~alive[p]
    /\ main = p /\ xfer_uqueue[p] = <<>> /\ xfer_refs[p] = 1

Absent(p) == ~alive[p] /\ main # p /\ xfer_uqueue[p] = <<>> /\ xfer_refs[p] = 0

Counted(p) == IF xfer[p] \in Standing THEN Whole(p) \/ Parting(p) ELSE Absent(p)

(* A remote pipe in use is alive, and DEAD is the last message of one.     *)
InUse(p) == xfer[p] = "used" => alive[p]
KeptAlive(p) == p \in kept => alive[p] /\ xfer[p] = "released"

DeadIsLast(p) ==
    \A i \in DOMAIN xfer_uqueue[p] :
      xfer_uqueue[p][i] = "DEAD" =>
        i = Len(xfer_uqueue[p]) /\ ~alive[p] /\ xfer[p] = "released"

Stilled == frozen => remote = "idle" /\ remote_pushing = {}

PipeInv ==
    \A p \in Pipes : Counted(p) /\ InUse(p) /\ KeptAlive(p) /\ DeadIsLast(p)
MgrInv == MgrCounted /\ MgrEnds
QueueInv == AboutAlive /\ ReleaseIsLast

TransferInv == Typed /\ PipeInv /\ MgrInv /\ QueueInv /\ Stilled

(* What is added to a queue and taken from it.                             *)
LEMMA Appended ==
    ASSUME NEW S, NEW s \in Seq(S), NEW e \in S
    PROVE  /\ Append(s, e) \in Seq(S)
           /\ Len(s) \in Nat /\ Len(Append(s, e)) = Len(s) + 1
           /\ DOMAIN s = 1..Len(s)
           /\ DOMAIN Append(s, e) = 1..Len(s) + 1
           /\ \A i \in 1..Len(s) : Append(s, e)[i] = s[i]
           /\ Append(s, e)[Len(s) + 1] = e
BY AppendProperties, LenProperties

LEMMA Shifted ==
    ASSUME NEW S, NEW s \in Seq(S), s # <<>>
    PROVE  /\ Tail(s) \in Seq(S)
           /\ Len(s) \in Nat \ {0} /\ Len(Tail(s)) = Len(s) - 1
           /\ DOMAIN s = 1..Len(s)
           /\ DOMAIN Tail(s) = 1..Len(s) - 1
           /\ \A i \in 1..Len(s) - 1 : Tail(s)[i] = s[i + 1]
           /\ Head(s) = s[1] /\ Head(s) \in S
BY HeadTailProperties, LenProperties, EmptySeq

(* A message that finds room keeps the queue in its bounds.                *)
LEMMA SendTyped ==
    ASSUME QueuesTyped, NEW p \in Pipes \cup {Manager},
           NEW type \in Commands \cup {"RELEASE", "DETACH"}, Send(type, p)
    PROVE  uqueue' \in Seq(Messages) /\ Len(uqueue') <= QueueLength
<1> USE TransferAssumption DEF QueuesTyped
<1>1. Message(type, p) \in Messages
  BY DEF Message, Messages
<1>2. CASE uqueue' = Append(uqueue, Message(type, p)) /\ Len(uqueue) < QueueLength
  BY <1>1, <1>2, Appended
<1> QED BY <1>2 DEF Send

LEMMA SendBackTyped ==
    ASSUME QueuesTyped, NEW p \in Pipes, NEW type \in Events \cup {"DEAD"},
           SendBack(p, type)
    PROVE  xfer_uqueue' \in [Pipes -> Seq(Events \cup {"DEAD"})]
<1>1. Append(xfer_uqueue[p], type) \in Seq(Events \cup {"DEAD"})
  BY Appended DEF QueuesTyped
<1> QED BY <1>1 DEF SendBack, QueuesTyped

(* A pipe that is about to be released is one that is alive.              *)
LEMMA HeadAlive ==
    ASSUME QueuesTyped, AboutAlive, PopRelease
    PROVE  /\ uqueue \in Seq(Messages) /\ uqueue # <<>> /\ Head(uqueue) = uqueue[1]
           /\ 1 \in DOMAIN uqueue
           /\ Head(uqueue).pipe \in Pipes /\ alive[Head(uqueue).pipe]
<1>1. uqueue \in Seq(Messages) /\ uqueue # <<>> /\ Head(uqueue).type = "RELEASE"
  BY DEF PopRelease, Popped, QueuesTyped
<1>2. Head(uqueue) = uqueue[1] /\ 1 \in DOMAIN uqueue
  BY <1>1, Shifted
<1> QED BY <1>1, <1>2 DEF AboutAlive

-----------------------------------------------------------------------------
(* The types, and the loop that stands still.                              *)
LEMMA StilledKept ==
    ASSUME Stilled, TransferNext
    PROVE  Stilled'
<1> USE TransferAssumption DEF Stilled, Running, SendBack, Popped,
         transferVars, mainVars, remoteVars, mgrVars, xferVars, pipeVars
<1>1. ASSUME NEW p \in Pipes, XferAlloc(p) PROVE Stilled'
  BY <1>1 DEF XferAlloc
<1>2. ASSUME NEW p \in Pipes, XferRelease(p) PROVE Stilled'
  BY <1>2 DEF XferRelease
<1>3. ASSUME NEW p \in Pipes, XferWatch(p) PROVE Stilled'
  BY <1>3 DEF XferWatch
<1>4. ASSUME NEW p \in Pipes, XferPop(p) PROVE Stilled'
  BY <1>4 DEF XferPop
<1>5. ASSUME NEW p \in Pipes, XferEnd(p) PROVE Stilled'
  BY <1>5 DEF XferEnd
<1>6. ASSUME NEW p \in Pipes, EndRemotePush(p) PROVE Stilled'
  BY <1>6 DEF EndRemotePush
<1>7. ASSUME NEW p \in Pipes, NEW c \in Commands, Control(p, c) PROVE Stilled'
  BY <1>7 DEF Control
<1>8. ASSUME NEW p \in Pipes, NEW e \in Events, Event(p, e) PROVE Stilled'
  BY <1>8 DEF Event
<1>9. CASE Release
  BY <1>9 DEF Release
<1>10. CASE Freeze
  BY <1>10 DEF Freeze
<1>11. CASE Thaw
  BY <1>11 DEF Thaw
<1>12. CASE EndPush
  BY <1>12 DEF EndPush
<1>13. CASE Attach
  BY <1>13 DEF Attach
<1>14. CASE Watch
  BY <1>14 DEF Watch
<1>15. CASE PopCommand
  BY <1>15 DEF PopCommand
<1>16. CASE PopRelease
  BY <1>16, HeadAlive DEF PopRelease
<1>17. CASE PopDetach
  BY <1>17 DEF PopDetach
<1>18. CASE EndWatch
  BY <1>18 DEF EndWatch
<1>19. CASE FreezeFails
  BY <1>19 DEF FreezeFails
<1>20. ASSUME NEW p \in Pipes, Die(p) PROVE Stilled'
  BY <1>20 DEF Die
<1> QED
  BY <1>1, <1>2, <1>3, <1>4, <1>5, <1>6, <1>7, <1>8, <1>9, <1>10, <1>11, <1>12,
       <1>13, <1>14, <1>15, <1>16, <1>17, <1>18, <1>19,
       <1>20 DEF TransferNext, Worker, XferThread

LEMMA ThreadsKept ==
    ASSUME ThreadsTyped, QueuesTyped, AboutAlive, TransferNext
    PROVE  ThreadsTyped'
<1> USE TransferAssumption DEF ThreadsTyped, Send, SendBack, ReleaseMgr,
         Popped, transferVars, mainVars, remoteVars, mgrVars, xferVars, pipeVars
<1>1. ASSUME NEW p \in Pipes, XferAlloc(p) PROVE ThreadsTyped'
  BY <1>1 DEF XferAlloc
<1>2. ASSUME NEW p \in Pipes, XferRelease(p) PROVE ThreadsTyped'
  BY <1>2 DEF XferRelease
<1>3. ASSUME NEW p \in Pipes, XferWatch(p) PROVE ThreadsTyped'
  BY <1>3 DEF XferWatch
<1>4. ASSUME NEW p \in Pipes, XferPop(p) PROVE ThreadsTyped'
  BY <1>4 DEF XferPop
<1>5. ASSUME NEW p \in Pipes, XferEnd(p) PROVE ThreadsTyped'
  BY <1>5 DEF XferEnd
<1>6. ASSUME NEW p \in Pipes, EndRemotePush(p) PROVE ThreadsTyped'
  BY <1>6 DEF EndRemotePush
<1>7. ASSUME NEW p \in Pipes, NEW c \in Commands, Control(p, c) PROVE ThreadsTyped'
  BY <1>7 DEF Control
<1>8. ASSUME NEW p \in Pipes, NEW e \in Events, Event(p, e) PROVE ThreadsTyped'
  BY <1>8 DEF Event
<1>9. CASE Release
  BY <1>9 DEF Release
<1>10. CASE Freeze
  BY <1>10 DEF Freeze
<1>11. CASE Thaw
  BY <1>11 DEF Thaw
<1>12. CASE EndPush
  BY <1>12 DEF EndPush
<1>13. CASE Attach
  BY <1>13 DEF Attach
<1>14. CASE Watch
  BY <1>14 DEF Watch
<1>15. CASE PopCommand
  BY <1>15 DEF PopCommand
<1>16. CASE PopRelease
  BY <1>16, HeadAlive DEF PopRelease
<1>17. CASE PopDetach
  BY <1>17 DEF PopDetach
<1>18. CASE EndWatch
  BY <1>18 DEF EndWatch
<1>19. CASE FreezeFails
  BY <1>19 DEF FreezeFails
<1>20. ASSUME NEW p \in Pipes, Die(p) PROVE ThreadsTyped'
  BY <1>20 DEF Die
<1> QED
  BY <1>1, <1>2, <1>3, <1>4, <1>5, <1>6, <1>7, <1>8, <1>9, <1>10, <1>11, <1>12,
       <1>13, <1>14, <1>15, <1>16, <1>17, <1>18, <1>19,
       <1>20 DEF TransferNext, Worker, XferThread

LEMMA FlagsKept ==
    ASSUME FlagsTyped, TransferNext
    PROVE  FlagsTyped'
<1> USE TransferAssumption DEF FlagsTyped, Send, SendBack, ReleaseMgr, Popped,
         transferVars, mainVars, remoteVars, mgrVars, xferVars, pipeVars
<1>1. ASSUME NEW p \in Pipes, XferAlloc(p) PROVE FlagsTyped'
  BY <1>1 DEF XferAlloc
<1>2. ASSUME NEW p \in Pipes, XferRelease(p) PROVE FlagsTyped'
  BY <1>2 DEF XferRelease
<1>3. ASSUME NEW p \in Pipes, XferWatch(p) PROVE FlagsTyped'
  BY <1>3 DEF XferWatch
<1>4. ASSUME NEW p \in Pipes, XferPop(p) PROVE FlagsTyped'
  BY <1>4 DEF XferPop
<1>5. ASSUME NEW p \in Pipes, XferEnd(p) PROVE FlagsTyped'
  BY <1>5 DEF XferEnd
<1>6. ASSUME NEW p \in Pipes, EndRemotePush(p) PROVE FlagsTyped'
  BY <1>6 DEF EndRemotePush
<1>7. ASSUME NEW p \in Pipes, NEW c \in Commands, Control(p, c) PROVE FlagsTyped'
  BY <1>7 DEF Control
<1>8. ASSUME NEW p \in Pipes, NEW e \in Events, Event(p, e) PROVE FlagsTyped'
  BY <1>8 DEF Event
<1>9. CASE Release
  BY <1>9 DEF Release
<1>10. CASE Freeze
  BY <1>10 DEF Freeze
<1>11. CASE Thaw
  BY <1>11 DEF Thaw
<1>12. CASE EndPush
  BY <1>12 DEF EndPush
<1>13. CASE Attach
  BY <1>13 DEF Attach
<1>14. CASE Watch
  BY <1>14 DEF Watch
<1>15. CASE PopCommand
  BY <1>15 DEF PopCommand
<1>16. CASE PopRelease
  BY <1>16, HeadAlive DEF PopRelease
<1>17. CASE PopDetach
  BY <1>17 DEF PopDetach
<1>18. CASE EndWatch
  BY <1>18 DEF EndWatch
<1>19. CASE FreezeFails
  BY <1>19 DEF FreezeFails
<1>20. ASSUME NEW p \in Pipes, Die(p) PROVE FlagsTyped'
  BY <1>20 DEF Die
<1> QED
  BY <1>1, <1>2, <1>3, <1>4, <1>5, <1>6, <1>7, <1>8, <1>9, <1>10, <1>11, <1>12,
       <1>13, <1>14, <1>15, <1>16, <1>17, <1>18, <1>19,
       <1>20 DEF TransferNext, Worker, XferThread

LEMMA PipesKept ==
    ASSUME PipesTyped, QueuesTyped, AboutAlive, TransferNext
    PROVE  PipesTyped'
<1> USE TransferAssumption DEF PipesTyped, SendBack, Popped, transferVars,
         mainVars, remoteVars, mgrVars, xferVars, pipeVars
<1>1. ASSUME NEW p \in Pipes, XferAlloc(p) PROVE PipesTyped'
  BY <1>1 DEF XferAlloc
<1>2. ASSUME NEW p \in Pipes, XferRelease(p) PROVE PipesTyped'
  BY <1>2 DEF XferRelease
<1>3. ASSUME NEW p \in Pipes, XferWatch(p) PROVE PipesTyped'
  BY <1>3 DEF XferWatch
<1>4. ASSUME NEW p \in Pipes, XferPop(p) PROVE PipesTyped'
  BY <1>4 DEF XferPop
<1>5. ASSUME NEW p \in Pipes, XferEnd(p) PROVE PipesTyped'
  BY <1>5 DEF XferEnd
<1>6. ASSUME NEW p \in Pipes, EndRemotePush(p) PROVE PipesTyped'
  BY <1>6 DEF EndRemotePush
<1>7. ASSUME NEW p \in Pipes, NEW c \in Commands, Control(p, c) PROVE PipesTyped'
  BY <1>7 DEF Control
<1>8. ASSUME NEW p \in Pipes, NEW e \in Events, Event(p, e) PROVE PipesTyped'
  BY <1>8 DEF Event
<1>9. CASE Release
  BY <1>9 DEF Release
<1>10. CASE Freeze
  BY <1>10 DEF Freeze
<1>11. CASE Thaw
  BY <1>11 DEF Thaw
<1>12. CASE EndPush
  BY <1>12 DEF EndPush
<1>13. CASE Attach
  BY <1>13 DEF Attach
<1>14. CASE Watch
  BY <1>14 DEF Watch
<1>15. CASE PopCommand
  BY <1>15 DEF PopCommand
<1>16. CASE PopRelease
  BY <1>16, HeadAlive DEF PopRelease
<1>17. CASE PopDetach
  BY <1>17 DEF PopDetach
<1>18. CASE EndWatch
  BY <1>18 DEF EndWatch
<1>19. CASE FreezeFails
  BY <1>19 DEF FreezeFails
<1>20. ASSUME NEW p \in Pipes, Die(p) PROVE PipesTyped'
  BY <1>20 DEF Die
<1> QED
  BY <1>1, <1>2, <1>3, <1>4, <1>5, <1>6, <1>7, <1>8, <1>9, <1>10, <1>11, <1>12,
       <1>13, <1>14, <1>15, <1>16, <1>17, <1>18, <1>19,
       <1>20 DEF TransferNext, Worker, XferThread

LEMMA QueuesKept ==
    ASSUME QueuesTyped, AboutAlive, TransferNext
    PROVE  QueuesTyped'
<1> USE TransferAssumption DEF QueuesTyped, Popped, ReleaseMgr, transferVars,
         mainVars, remoteVars, mgrVars, xferVars, pipeVars
<1>1. ASSUME NEW p \in Pipes, XferAlloc(p) PROVE QueuesTyped'
  BY <1>1 DEF XferAlloc
<1>2. ASSUME NEW p \in Pipes, XferRelease(p) PROVE QueuesTyped'
  BY <1>2, SendTyped DEF XferRelease
<1>3. ASSUME NEW p \in Pipes, XferWatch(p) PROVE QueuesTyped'
  BY <1>3 DEF XferWatch
<1>4. ASSUME NEW p \in Pipes, XferPop(p) PROVE QueuesTyped'
  BY <1>4, Shifted DEF XferPop
<1>5. ASSUME NEW p \in Pipes, XferEnd(p) PROVE QueuesTyped'
  BY <1>5, SendTyped DEF XferEnd
<1>6. ASSUME NEW p \in Pipes, EndRemotePush(p) PROVE QueuesTyped'
  BY <1>6 DEF EndRemotePush
<1>7. ASSUME NEW p \in Pipes, NEW c \in Commands, Control(p, c) PROVE QueuesTyped'
  BY <1>7, SendTyped DEF Control
<1>8. ASSUME NEW p \in Pipes, NEW e \in Events, Event(p, e) PROVE QueuesTyped'
  BY <1>8, SendBackTyped DEF Event
<1>9. CASE Release
  BY <1>9, SendTyped DEF Release
<1>10. CASE Freeze
  BY <1>10 DEF Freeze
<1>11. CASE Thaw
  BY <1>11, SendTyped DEF Thaw
<1>12. CASE EndPush
  BY <1>12 DEF EndPush
<1>13. CASE Attach
  BY <1>13 DEF Attach
<1>14. CASE Watch
  BY <1>14 DEF Watch
<1>15. CASE PopCommand
  BY <1>15, Shifted DEF PopCommand
<1>16. CASE PopRelease
  <2>1. uqueue' \in Seq(Messages) /\ Len(uqueue') <= QueueLength
    BY <1>16, Shifted DEF PopRelease
  <2>2. Head(uqueue).pipe \in Pipes
    BY <1>16, HeadAlive
  <2> QED BY <1>16, <2>1, <2>2, SendBackTyped DEF PopRelease
<1>17. CASE PopDetach
  BY <1>17, Shifted DEF PopDetach
<1>18. CASE EndWatch
  BY <1>18 DEF EndWatch
<1>19. CASE FreezeFails
  BY <1>19 DEF FreezeFails
<1>20. ASSUME NEW p \in Pipes, Die(p) PROVE QueuesTyped'
  BY <1>20, SendBackTyped DEF Die
<1> QED
  BY <1>1, <1>2, <1>3, <1>4, <1>5, <1>6, <1>7, <1>8, <1>9, <1>10, <1>11, <1>12,
       <1>13, <1>14, <1>15, <1>16, <1>17, <1>18, <1>19,
       <1>20 DEF TransferNext, Worker, XferThread

-----------------------------------------------------------------------------
(* The pipes that a step does not speak of stay as they are.               *)
SamePipe(p) ==
    /\ xfer'[p] = xfer[p] /\ xfer_refs'[p] = xfer_refs[p]
    /\ xfer_uqueue'[p] = xfer_uqueue[p] /\ alive'[p] = alive[p]
    /\ main' = p <=> main = p
    /\ p \in kept' <=> p \in kept

OnePipe(p) == Counted(p) /\ InUse(p) /\ KeptAlive(p) /\ DeadIsLast(p)

LEMMA SameKept ==
    ASSUME NEW p \in Pipes, OnePipe(p), SamePipe(p)
    PROVE  OnePipe(p)'
BY DEF OnePipe, SamePipe, Counted, Whole, Parting, Absent, One, InUse,
     KeptAlive, DeadIsLast

LEMMA OthersKept ==
    ASSUME PipeInv, NEW p \in Pipes, OnePipe(p)', \A q \in Pipes \ {p} : SamePipe(q)
    PROVE  PipeInv'
<1>1. ASSUME NEW q \in Pipes PROVE OnePipe(q)'
  <2>1. OnePipe(q)
    BY DEF PipeInv, OnePipe
  <2> QED BY <2>1, SameKept
<1> QED BY <1>1 DEF PipeInv, OnePipe

LEMMA AllSame ==
    ASSUME PipeInv, \A q \in Pipes : SamePipe(q)
    PROVE  PipeInv'
<1>1. ASSUME NEW q \in Pipes PROVE OnePipe(q)'
  <2>1. OnePipe(q)
    BY DEF PipeInv, OnePipe
  <2> QED BY <2>1, SameKept
<1> QED BY <1>1 DEF PipeInv, OnePipe

(* The references of the messages that come back.                          *)
LEMMA SentBack ==
    ASSUME PipesTyped, QueuesTyped, NEW p \in Pipes, OnePipe(p), alive[p],
           NEW type \in Events \cup {"DEAD"}, SendBack(p, type), UNCHANGED <<main, xfer>>,
           alive'[p] \in BOOLEAN,
           type = "DEAD" => ~alive'[p], type # "DEAD" => alive'[p],
           ~alive'[p] => xfer[p] = "released" /\ p \notin kept',
           p \in kept' => p \in kept
    PROVE  OnePipe(p)'
<1> DEFINE q == xfer_uqueue[p]
<1> USE DEF OnePipe, Counted, InUse, KeptAlive, DeadIsLast, Whole, Parting, Absent
<1>0. q \in Seq(Events \cup {"DEAD"})
  BY DEF QueuesTyped
<1>1. xfer[p] \in Standing /\ Whole(p)
  OBVIOUS
<1>2. \A i \in DOMAIN q : q[i] # "DEAD"
  OBVIOUS
<1>3. CASE /\ xfer_uqueue' = [xfer_uqueue EXCEPT ![p] = Append(@, type)]
           /\ xfer_refs' = [xfer_refs EXCEPT ![p] = @ + 1]
  <2>1. /\ xfer_uqueue'[p] = Append(q, type) /\ xfer_refs'[p] = xfer_refs[p] + 1
    BY <1>3 DEF QueuesTyped, PipesTyped
  <2>2. /\ DOMAIN xfer_uqueue'[p] = 1..Len(q) + 1 /\ Len(q) \in Nat
        /\ Len(xfer_uqueue'[p]) = Len(q) + 1
        /\ xfer_uqueue'[p][Len(q) + 1] = type
        /\ \A i \in 1..Len(q) : xfer_uqueue'[p][i] # "DEAD"
    BY <2>1, <1>0, <1>2, Appended
  <2>3. Whole(p)'
    <3>1. PICK n \in Nat : n = Len(q)
      BY <2>2
    <3>2. PICK d \in {0, 1} : d = One(main = p)
      BY DEF One
    <3>3. xfer_refs[p] = 1 + n + d
      BY <1>1, <3>1, <3>2
    <3>4. xfer_refs'[p] = 1 + (n + 1) + d
      BY <2>1, <3>3
    <3>5. Len(xfer_uqueue'[p]) = n + 1 /\ One(main' = p) = d
      BY <2>2, <3>1, <3>2
    <3> QED BY <3>4, <3>5
  <2>4. DeadIsLast(p)'
    BY <2>2
  <2> QED BY <1>1, <2>3, <2>4
<1>4. CASE UNCHANGED <<xfer_uqueue, xfer_refs>>
  BY <1>1, <1>2, <1>4
<1> QED BY <1>3, <1>4 DEF SendBack

(* Each step keeps the account of the references on the xfer pipes.        *)
LEMMA PipeKept ==
    ASSUME PipeInv, PipesTyped, QueuesTyped, AboutAlive, ReleaseIsLast, TransferNext
    PROVE  PipeInv'
<1> USE TransferAssumption DEF PipesTyped, QueuesTyped, transferVars, mainVars,
         remoteVars, mgrVars, xferVars, pipeVars
<1>1. ASSUME NEW p \in Pipes, XferAlloc(p) PROVE PipeInv'
  <2>1. OnePipe(p)'
    <3>1. Absent(p) /\ p \notin kept /\ kept' = kept
      BY <1>1 DEF XferAlloc, PipeInv, Counted, KeptAlive, Standing
    <3>2. /\ xfer'[p] = "used" /\ alive'[p] /\ xfer_refs'[p] = 1
          /\ xfer_uqueue'[p] = <<>> /\ main' # p
      BY <1>1, <3>1 DEF XferAlloc, Absent
    <3> QED BY <3>1, <3>2 DEF OnePipe, Counted, Whole, One, InUse, KeptAlive, DeadIsLast,
         Standing
  <2>2. \A q \in Pipes \ {p} : SamePipe(q)
    BY <1>1 DEF XferAlloc, SamePipe
  <2> QED BY <2>1, <2>2, OthersKept
<1>2. ASSUME NEW p \in Pipes, XferRelease(p) PROVE PipeInv'
  <2>1. OnePipe(p)'
    <3>1. Whole(p) /\ DeadIsLast(p) /\ KeptAlive(p) /\ UNCHANGED <<kept, alive>>
      BY <1>2 DEF XferRelease, PipeInv, Counted, Parting, Standing
    <3>2. xfer'[p] = "released"
      BY <1>2 DEF XferRelease
    <3> QED BY <1>2, <3>1, <3>2
            DEF XferRelease, OnePipe, Counted, Whole, InUse, KeptAlive, DeadIsLast, Standing
  <2>2. \A q \in Pipes \ {p} : SamePipe(q)
    BY <1>2 DEF XferRelease, SamePipe
  <2> QED BY <2>1, <2>2, OthersKept
<1>3. ASSUME NEW p \in Pipes, XferWatch(p) PROVE PipeInv'
  <2>1. OnePipe(p)'
    <3>1. /\ Whole(p) /\ InUse(p) /\ KeptAlive(p) /\ DeadIsLast(p)
          /\ xfer[p] \in Standing /\ kept' = kept
      BY <1>3 DEF XferWatch, PipeInv, Counted, Parting, Standing
    <3>2. main # p /\ main' = p /\ xfer_refs'[p] = xfer_refs[p] + 1
      BY <1>3 DEF XferWatch
    <3>3. Len(xfer_uqueue[p]) \in Nat
      BY LenProperties
    <3>4. Whole(p)'
      BY <1>3, <3>1, <3>2, <3>3 DEF XferWatch, Whole, One
    <3> QED BY <1>3, <3>1, <3>4 DEF XferWatch, OnePipe, Counted, InUse, KeptAlive,
         DeadIsLast
  <2>2. \A q \in Pipes \ {p} : SamePipe(q)
    BY <1>3 DEF XferWatch, SamePipe
  <2> QED BY <2>1, <2>2, OthersKept
<1>4. ASSUME NEW p \in Pipes, XferPop(p) PROVE PipeInv'
  <2> DEFINE q == xfer_uqueue[p]
  <2>1. OnePipe(p)'
    <3>1. /\ Whole(p) /\ InUse(p) /\ KeptAlive(p) /\ DeadIsLast(p)
          /\ xfer[p] \in Standing /\ kept' = kept
      BY <1>4 DEF XferPop, PipeInv, Counted, Parting, Absent
    <3>2. /\ xfer_uqueue'[p] = Tail(q) /\ q # <<>> /\ main = p /\ main' = p
          /\ xfer_refs'[p] = IF Head(q) = "DEAD" THEN xfer_refs[p] - 2
                                                 ELSE xfer_refs[p] - 1
          /\ xfer'[p] = xfer[p] /\ alive'[p] = alive[p]
      BY <1>4 DEF XferPop
    <3>3. /\ Len(q) \in Nat \ {0} /\ Len(Tail(q)) = Len(q) - 1
          /\ DOMAIN q = 1..Len(q) /\ DOMAIN Tail(q) = 1..Len(q) - 1
          /\ \A i \in 1..Len(q) - 1 : Tail(q)[i] = q[i + 1]
          /\ Head(q) = q[1] /\ Tail(q) \in Seq(Events \cup {"DEAD"})
      BY <3>2, Shifted
    <3>4. DeadIsLast(p)'
      BY <3>1, <3>2, <3>3 DEF DeadIsLast
    <3>5. CASE Head(q) = "DEAD"
      <4>0. 1 \in DOMAIN q /\ q[1] = "DEAD"
        BY <3>3, <3>5
      <4>1. Len(q) = 1 /\ ~alive[p] /\ xfer[p] = "released"
        BY <3>1, <4>0 DEF DeadIsLast
      <4>2. xfer_refs[p] = 3
        BY <3>1, <3>2, <4>1 DEF Whole, One
      <4>3. Tail(q) = <<>>
        BY <3>3, <4>1, EmptySeq
      <4>4. Parting(p)'
        BY <3>2, <3>5, <4>1, <4>2, <4>3 DEF Parting
      <4> QED BY <3>1, <3>2, <3>4, <4>4 DEF OnePipe, Counted, InUse, KeptAlive
    <3>6. CASE Head(q) # "DEAD"
      <4>1. Whole(p)'
        BY <3>1, <3>2, <3>3, <3>6 DEF Whole, One
      <4> QED BY <3>1, <3>2, <3>4, <4>1 DEF OnePipe, Counted, InUse, KeptAlive
    <3> QED BY <3>5, <3>6
  <2>2. \A r \in Pipes \ {p} : SamePipe(r)
    BY <1>4 DEF XferPop, SamePipe
  <2> QED BY <2>1, <2>2, OthersKept
<1>5. ASSUME NEW p \in Pipes, XferEnd(p) PROVE PipeInv'
  <2>1. OnePipe(p)'
    <3>1. OnePipe(p) /\ main = p /\ xfer_uqueue[p] = <<>> /\ Len(<<>>) = 0
      BY <1>5 DEF XferEnd, PipeInv, OnePipe
    <3>2. /\ xfer_uqueue'[p] = <<>> /\ main' # p /\ alive'[p] = alive[p]
          /\ kept' = kept
          /\ xfer_refs'[p] = xfer_refs[p] - 1
      BY <1>5 DEF XferEnd
    <3>3. CASE xfer_refs[p] = 1
      <4>1. xfer'[p] = "freed" /\ xfer_refs'[p] = 0
        BY <1>5, <3>2, <3>3 DEF XferEnd
      <4>2. ~alive[p] /\ p \notin kept
        BY <3>1, <3>3 DEF OnePipe, Counted, Whole, Parting, Absent, One, KeptAlive
      <4> QED BY <3>2, <4>1, <4>2
              DEF OnePipe, Counted, Absent, InUse, KeptAlive, DeadIsLast, Standing
    <3>4. CASE xfer_refs[p] # 1
      <4>1. xfer'[p] = xfer[p]
        BY <1>5, <3>4 DEF XferEnd
      <4>2. xfer[p] \in Standing /\ Whole(p)
        BY <3>1, <3>4 DEF OnePipe, Counted, Parting, Absent
      <4>3. Whole(p)'
        BY <3>1, <3>2, <4>2 DEF Whole, One
      <4> QED BY <3>1, <3>2, <4>1, <4>2, <4>3 DEF OnePipe, Counted, InUse, KeptAlive,
           DeadIsLast
    <3> QED BY <3>3, <3>4
  <2>2. \A q \in Pipes \ {p} : SamePipe(q)
    BY <1>5 DEF XferEnd, SamePipe
  <2> QED BY <2>1, <2>2, OthersKept
<1>6. ASSUME NEW p \in Pipes, EndRemotePush(p) PROVE PipeInv'
  BY <1>6, AllSame DEF EndRemotePush, SamePipe
<1>7. ASSUME NEW p \in Pipes, NEW c \in Commands, Control(p, c) PROVE PipeInv'
  BY <1>7, AllSame DEF Control, SamePipe
<1>8. ASSUME NEW p \in Pipes, NEW e \in Events, Event(p, e) PROVE PipeInv'
  <2>1. /\ OnePipe(p) /\ alive[p] /\ e # "DEAD" /\ SendBack(p, e)
        /\ UNCHANGED <<main, xfer, kept>> /\ alive' = alive
    BY <1>8 DEF Event, PipeInv, OnePipe
  <2>2. OnePipe(p)'
    BY <2>1, SentBack
  <2>3. \A q \in Pipes \ {p} : SamePipe(q)
    BY <2>1 DEF SendBack, SamePipe
  <2> QED BY <2>2, <2>3, OthersKept
<1>9. CASE Release
  BY <1>9, AllSame DEF Release, SamePipe
<1>10. CASE Freeze
  BY <1>10, AllSame DEF Freeze, SamePipe
<1>11. CASE Thaw
  BY <1>11, AllSame DEF Thaw, SamePipe
<1>12. CASE EndPush
  BY <1>12, AllSame DEF EndPush, SamePipe
<1>13. CASE Attach
  BY <1>13, AllSame DEF Attach, SamePipe
<1>14. CASE Watch
  BY <1>14, AllSame DEF Watch, SamePipe
<1>15. CASE PopCommand
  BY <1>15, AllSame DEF PopCommand, SamePipe
<1>16. CASE PopRelease
  <2>1. PICK p \in Pipes : p = Head(uqueue).pipe /\ alive[p]
    BY <1>16, HeadAlive
  <2>2. xfer[p] = "released"
    BY <1>16, <2>1, HeadAlive DEF PopRelease, ReleaseIsLast
  <2>3. /\ OnePipe(p) /\ UNCHANGED <<main, xfer, xfer_refs, xfer_uqueue, alive>>
        /\ kept' = kept \cup {p}
    BY <1>16, <2>1 DEF PopRelease, PipeInv, OnePipe
  <2>4. OnePipe(p)'
    BY <2>1, <2>2, <2>3 DEF OnePipe, Counted, Whole, Parting, Absent, InUse,
         KeptAlive, DeadIsLast
  <2>5. \A q \in Pipes \ {p} : SamePipe(q)
    BY <2>3 DEF SamePipe
  <2> QED BY <2>4, <2>5, OthersKept
<1>17. CASE PopDetach
  BY <1>17, AllSame DEF PopDetach, SamePipe
<1>18. CASE EndWatch
  BY <1>18, AllSame DEF EndWatch, SamePipe
<1>19. CASE FreezeFails
  BY <1>19, AllSame DEF FreezeFails, SamePipe
<1>20. ASSUME NEW p \in Pipes, Die(p) PROVE PipeInv'
  <2>1. OnePipe(p) /\ alive[p] /\ xfer[p] = "released"
    BY <1>20 DEF Die, PipeInv, OnePipe, KeptAlive
  <2>2. /\ SendBack(p, "DEAD") /\ UNCHANGED <<main, xfer>>
        /\ alive' = [alive EXCEPT ![p] = FALSE] /\ kept' = kept \ {p}
    BY <1>20 DEF Die
  <2>3. alive'[p] = FALSE /\ p \notin kept'
    BY <2>2
  <2>4. OnePipe(p)'
    BY <2>1, <2>2, <2>3, SentBack
  <2>5. \A q \in Pipes \ {p} : SamePipe(q)
    BY <2>2 DEF SendBack, SamePipe
  <2> QED BY <2>4, <2>5, OthersKept
<1> QED
  BY <1>1, <1>2, <1>3, <1>4, <1>5, <1>6, <1>7, <1>8, <1>9, <1>10, <1>11, <1>12,
       <1>13, <1>14, <1>15, <1>16, <1>17, <1>18, <1>19,
       <1>20 DEF TransferNext, Worker, XferThread

-----------------------------------------------------------------------------
(* The xfer pipes that stand are finitely many, none if there are zero, and*)
(* one with another if there are more than one.                            *)
LEMMA PresentFinite == IsFiniteSet(Present) /\ Cardinality(Present) \in Nat
<1>1. Present \in SUBSET Pipes
  BY DEF Present
<1> QED BY <1>1, TransferAssumption, FS_Subset, FS_CardinalityType

LEMMA PresentPositive ==
    /\ Cardinality(Present) = 0 <=> Present = {}
    /\ \A p \in Present : Cardinality(Present) > 1 <=> Present \ {p} # {}
<1>1. PICK A : A = Present /\ IsFiniteSet(A) /\ Cardinality(A) \in Nat
  BY PresentFinite
<1>2. Cardinality(A) = 0 <=> A = {}
  BY <1>1, FS_EmptySet
<1>3. ASSUME NEW p \in A
      PROVE  Cardinality(A) > 1 <=> A \ {p} # {}
  <2>1. PICK B : B = A \ {p} /\ IsFiniteSet(B) /\ Cardinality(B) = Cardinality(A) - 1
    BY <1>1, FS_RemoveElement
  <2>2. Cardinality(B) = 0 <=> B = {}
    BY <2>1, FS_EmptySet
  <2>3. Cardinality(A) # 0
    BY <1>2
  <2> QED BY <1>1, <2>1, <2>2, <2>3
<1> QED BY <1>1, <1>2, <1>3

(* The manager has references as long as somebody may speak to it, and so  *)
(* neither has it been freed nor is it about to be.                        *)
LEMMA Referenced ==
    ASSUME TransferInv, used \/ frozen \/ \E p \in Pipes : xfer[p] \in Standing
    PROVE  /\ mgr_refs > 0 /\ ~mgr_freed
           /\ \A i \in DOMAIN uqueue : uqueue[i].type # "DETACH"
<1>1. IsFiniteSet(Present) /\ Cardinality(Present) \in Nat
  BY PresentFinite
<1>2. Present # {} => Cardinality(Present) # 0
  BY PresentPositive
<1>3. (\E p \in Pipes : xfer[p] \in Standing) => Present # {}
  BY DEF Present
<1>4. mgr_refs > 0
  BY <1>1, <1>2, <1>3 DEF TransferInv, MgrInv, MgrCounted, One
<1> QED BY <1>4 DEF TransferInv, MgrInv, MgrEnds

(* Nothing waits in the queue when no pipe is alive.                       *)
LEMMA NothingToSay ==
    ASSUME TransferInv, \A p \in Pipes : ~alive[p], mgr_refs # 0
    PROVE  uqueue = <<>>
<1> SUFFICES ASSUME uqueue # <<>> PROVE FALSE
  OBVIOUS
<1>1. 1 \in DOMAIN uqueue
  BY Shifted DEF TransferInv, Typed, QueuesTyped
<1> QED BY <1>1 DEF TransferInv, MgrInv, MgrEnds, QueueInv, AboutAlive

(* The last reference on the manager: nothing else stands.                 *)
LEMMA LastIsApplication ==
    ASSUME TransferInv, mgr_refs = 1, used \/ frozen
    PROVE  uqueue = <<>>
<1>1. Cardinality(Present) \in Nat
  BY PresentFinite
<1>2. Cardinality(Present) = 0
  BY <1>1 DEF TransferInv, MgrInv, MgrCounted, One
<1>3. Present = {}
  BY <1>2, PresentPositive
<1>4. \A p \in Pipes : ~alive[p]
  BY <1>3 DEF Present, TransferInv, PipeInv, Counted, Absent
<1> QED BY <1>4, NothingToSay

LEMMA LastIsXfer ==
    ASSUME TransferInv, mgr_refs = 1, NEW p \in Pipes, Parting(p)
    PROVE  uqueue = <<>>
<1>1. Cardinality(Present) \in Nat
  BY PresentFinite
<1>2. ~(Cardinality(Present) > 1)
  BY <1>1 DEF TransferInv, MgrInv, MgrCounted, One
<1>3. p \in Present
  BY DEF Present, Parting, Standing
<1>4. Present \ {p} = {}
  BY <1>2, <1>3, PresentPositive
<1>5. \A q \in Pipes \ {p} : ~alive[q]
  BY <1>4 DEF Present, TransferInv, PipeInv, Counted, Absent
<1> QED BY <1>5, NothingToSay DEF Parting

-----------------------------------------------------------------------------
(* What may happen to the queue of the manager.                            *)
LEMMA QueueSame ==
    ASSUME QueueInv, UNCHANGED uqueue, kept' \subseteq kept,
           \A p \in Pipes : alive[p] /\ p \notin kept => alive'[p],
           \A p \in Pipes : alive[p] /\ xfer[p] = "released" => xfer'[p] = "released"
    PROVE  QueueInv'
<1>0. uqueue' = uqueue
  OBVIOUS
<1>1. AboutAlive'
  <2> SUFFICES ASSUME NEW i \in DOMAIN uqueue, uqueue[i].type # "DETACH"
               PROVE  /\ uqueue[i].pipe \in Pipes /\ alive'[uqueue[i].pipe]
                      /\ uqueue[i].pipe \notin kept'
    BY <1>0 DEF AboutAlive
  <2>1. /\ uqueue[i].pipe \in Pipes /\ alive[uqueue[i].pipe]
        /\ uqueue[i].pipe \notin kept
    BY DEF QueueInv, AboutAlive
  <2> QED BY <2>1
<1>2. ReleaseIsLast'
  <2> SUFFICES ASSUME NEW i \in DOMAIN uqueue, uqueue[i].type = "RELEASE"
               PROVE  /\ xfer'[uqueue[i].pipe] = "released"
                      /\ \A j \in DOMAIN uqueue :
                           i < j => uqueue[j].pipe # uqueue[i].pipe
    BY <1>0 DEF ReleaseIsLast
  <2>1. /\ uqueue[i].pipe \in Pipes /\ alive[uqueue[i].pipe]
        /\ uqueue[i].pipe \notin kept
    BY DEF QueueInv, AboutAlive
  <2>2. xfer[uqueue[i].pipe] = "released"
    BY DEF QueueInv, ReleaseIsLast
  <2>3. xfer'[uqueue[i].pipe] = "released"
    BY <2>1, <2>2
  <2> QED BY <2>3 DEF QueueInv, ReleaseIsLast
<1> QED BY <1>1, <1>2 DEF QueueInv

LEMMA QueueAdded ==
    ASSUME QueuesTyped, QueueInv, NEW p \in Pipes, NEW type \in Commands \cup {"RELEASE"},
           alive[p], xfer[p] = "used", Send(type, p),
           UNCHANGED <<alive, kept>>, p \notin kept,
           \A q \in Pipes : xfer'[q] = IF q = p /\ type = "RELEASE" THEN "released" ELSE xfer[q]
    PROVE  QueueInv'
<1> USE TransferAssumption
<1> DEFINE m == Message(type, p)
<1>1. m \in Messages /\ m.type = type /\ m.pipe = p /\ type # "DETACH"
  BY DEF Message, Messages
<1>2. \A i \in DOMAIN uqueue : uqueue[i].type = "RELEASE" => uqueue[i].pipe # p
  BY DEF QueueInv, ReleaseIsLast
<1> HIDE DEF m
<1>3. CASE uqueue' = Append(uqueue, m)
  <2>1. /\ Len(uqueue) \in Nat /\ DOMAIN uqueue = 1..Len(uqueue)
        /\ DOMAIN uqueue' = 1..Len(uqueue) + 1
        /\ \A i \in 1..Len(uqueue) : uqueue'[i] = uqueue[i]
        /\ uqueue'[Len(uqueue) + 1] = m
    BY <1>1, <1>3, Appended DEF QueuesTyped
  <2>2. AboutAlive'
    BY <1>1, <2>1 DEF QueueInv, AboutAlive
  <2>3. ReleaseIsLast'
    <3> SUFFICES ASSUME NEW i \in DOMAIN uqueue', uqueue'[i].type = "RELEASE"
                 PROVE  /\ xfer'[uqueue'[i].pipe] = "released"
                        /\ \A j \in DOMAIN uqueue' :
                             i < j => uqueue'[j].pipe # uqueue'[i].pipe
      BY DEF ReleaseIsLast
    <3>1. CASE i = Len(uqueue) + 1
      BY <1>1, <2>1, <3>1
    <3>2. CASE i \in DOMAIN uqueue
      <4>1. /\ uqueue'[i] = uqueue[i] /\ uqueue[i].type = "RELEASE"
            /\ uqueue[i].pipe # p /\ uqueue[i].type # "DETACH"
        BY <2>1, <3>2, <1>2
      <4>2. uqueue[i].pipe \in Pipes /\ xfer[uqueue[i].pipe] = "released"
        BY <3>2, <4>1 DEF QueueInv, AboutAlive, ReleaseIsLast
      <4>3. xfer'[uqueue[i].pipe] = "released"
        BY <4>1, <4>2
      <4>4. \A j \in DOMAIN uqueue : i < j => uqueue[j].pipe # uqueue[i].pipe
        BY <3>2, <4>1 DEF QueueInv, ReleaseIsLast
      <4> QED BY <1>1, <2>1, <4>1, <4>3, <4>4
    <3> QED BY <2>1, <3>1, <3>2
  <2> QED BY <2>2, <2>3 DEF QueueInv
<1>4. CASE UNCHANGED uqueue
  BY <1>4, QueueSame
<1> QED BY <1>3, <1>4 DEF Send, m

(* DETACH finds an empty queue, and so it is never lost.                   *)
LEMMA DetachAdded ==
    ASSUME QueuesTyped, uqueue = <<>>, Send("DETACH", Manager)
    PROVE  /\ QueueInv' /\ Len(uqueue') = 1
           /\ \A i \in DOMAIN uqueue' : uqueue'[i].type = "DETACH"
<1> DEFINE m == Message("DETACH", Manager)
<1>1. m \in Messages /\ m.type = "DETACH"
  BY DEF Message, Messages
<1>2. Len(uqueue) = 0 /\ uqueue' = Append(uqueue, m)
  BY TransferAssumption DEF Send
<1> HIDE DEF m
<1>3. Len(uqueue') = 1 /\ DOMAIN uqueue' = 1..1 /\ uqueue'[1] = m
  BY <1>1, <1>2, Appended DEF QueuesTyped
<1>4. \A i \in DOMAIN uqueue' : uqueue'[i].type = "DETACH"
  BY <1>1, <1>3
<1> QED BY <1>3, <1>4 DEF QueueInv, AboutAlive, ReleaseIsLast

(* A message is taken: a RELEASE was the last one about its pipe.          *)
LEMMA QueueTaken ==
    ASSUME QueuesTyped, QueueInv, uqueue # <<>>, uqueue' = Tail(uqueue),
           UNCHANGED <<alive, xfer>>,
           \A p \in kept' : p \notin kept =>
             Head(uqueue).type = "RELEASE" /\ p = Head(uqueue).pipe
    PROVE  QueueInv'
<1>1. /\ Len(uqueue) \in Nat \ {0}
      /\ DOMAIN uqueue = 1..Len(uqueue) /\ DOMAIN uqueue' = 1..Len(uqueue) - 1
      /\ \A i \in 1..Len(uqueue) - 1 : uqueue'[i] = uqueue[i + 1]
      /\ Head(uqueue) = uqueue[1]
  BY Shifted DEF QueuesTyped
<1>2. AboutAlive'
  <2> SUFFICES ASSUME NEW i \in DOMAIN uqueue', uqueue'[i].type # "DETACH"
               PROVE  /\ uqueue'[i].pipe \in Pipes /\ alive'[uqueue'[i].pipe]
                      /\ uqueue'[i].pipe \notin kept'
    BY DEF AboutAlive
  <2>1. /\ 1 \in DOMAIN uqueue /\ i + 1 \in DOMAIN uqueue /\ 1 < i + 1
        /\ uqueue'[i] = uqueue[i + 1]
    BY <1>1
  <2>2. /\ uqueue'[i].pipe \in Pipes /\ alive[uqueue'[i].pipe]
        /\ uqueue'[i].pipe \notin kept
    BY <2>1 DEF QueueInv, AboutAlive
  <2>3. Head(uqueue).type = "RELEASE" => uqueue'[i].pipe # Head(uqueue).pipe
    BY <1>1, <2>1 DEF QueueInv, ReleaseIsLast
  <2> QED BY <2>2, <2>3
<1>3. ReleaseIsLast'
  <2> SUFFICES ASSUME NEW i \in DOMAIN uqueue', uqueue'[i].type = "RELEASE"
               PROVE  /\ xfer[uqueue'[i].pipe] = "released"
                      /\ \A j \in DOMAIN uqueue' :
                           i < j => uqueue'[j].pipe # uqueue'[i].pipe
    BY DEF ReleaseIsLast
  <2>1. i + 1 \in DOMAIN uqueue /\ uqueue'[i] = uqueue[i + 1]
    BY <1>1
  <2>2. \A j \in DOMAIN uqueue' :
           /\ j + 1 \in DOMAIN uqueue /\ uqueue'[j] = uqueue[j + 1]
           /\ i < j => i + 1 < j + 1
    BY <1>1
  <2> QED BY <2>1, <2>2 DEF QueueInv, ReleaseIsLast
<1> QED BY <1>2, <1>3 DEF QueueInv

(* The watcher that holds the only reference is of a pipe that is gone.    *)
LEMMA Alone ==
    ASSUME PipeInv, NEW p \in Pipes, XferEnd(p), xfer_refs[p] = 1
    PROVE  Parting(p)
<1>1. main = p /\ xfer_uqueue[p] = <<>> /\ Len(<<>>) = 0 /\ Counted(p)
  BY DEF XferEnd, PipeInv
<1> QED BY <1>1 DEF Counted, Whole, Absent, One

(* So the queue stays as it should be.                                     *)
LEMMA QueueKept ==
    ASSUME TransferInv, TransferNext
    PROVE  QueueInv'
<1> USE DEF TransferInv, Typed, QueuesTyped, PipesTyped, transferVars,
         mainVars, remoteVars, mgrVars, xferVars, pipeVars
<1>1. ASSUME NEW p \in Pipes, XferAlloc(p) PROVE QueueInv'
  <2>1. ~alive[p]
    BY <1>1 DEF XferAlloc, PipeInv, Counted, Absent, Standing
  <2>2. \A q \in Pipes \ {p} : xfer'[q] = xfer[q] /\ alive'[q] = alive[q]
    BY <1>1 DEF XferAlloc
  <2>3. UNCHANGED <<uqueue, kept>>
    BY <1>1 DEF XferAlloc
  <2> QED BY <2>1, <2>2, <2>3, QueueSame
<1>2. ASSUME NEW p \in Pipes, XferRelease(p) PROVE QueueInv'
  <2>1. /\ alive[p] /\ xfer[p] = "used" /\ Send("RELEASE", p)
        /\ UNCHANGED <<alive, kept>> /\ p \notin kept
        /\ \A q \in Pipes : xfer'[q] = IF q = p THEN "released" ELSE xfer[q]
    BY <1>2 DEF XferRelease, PipeInv, InUse, KeptAlive
  <2> QED BY <2>1, QueueAdded
<1>3. ASSUME NEW p \in Pipes, XferWatch(p) PROVE QueueInv'
  BY <1>3, QueueSame DEF XferWatch
<1>4. ASSUME NEW p \in Pipes, XferPop(p) PROVE QueueInv'
  BY <1>4, QueueSame DEF XferPop
<1>5. ASSUME NEW p \in Pipes, XferEnd(p) PROVE QueueInv'
  <2>1. CASE xfer_refs[p] = 1
    <3>1. Parting(p)
      BY <1>5, <2>1, Alone
    <3>2. /\ \A q \in Pipes \ {p} : xfer'[q] = xfer[q]
          /\ UNCHANGED <<alive, kept>> /\ ReleaseMgr
      BY <1>5, <2>1 DEF XferEnd
    <3>3. CASE mgr_refs = 1
      <4>1. uqueue = <<>>
        BY <3>1, <3>3, LastIsXfer
      <4> QED BY <3>2, <3>3, <4>1, DetachAdded DEF ReleaseMgr
    <3>4. CASE mgr_refs # 1
      BY <3>1, <3>2, <3>4, QueueSame DEF ReleaseMgr, Parting
    <3> QED BY <3>3, <3>4
  <2>2. CASE xfer_refs[p] # 1
    BY <1>5, <2>2, QueueSame DEF XferEnd
  <2> QED BY <2>1, <2>2
<1>6. ASSUME NEW p \in Pipes, EndRemotePush(p) PROVE QueueInv'
  BY <1>6, QueueSame DEF EndRemotePush
<1>7. ASSUME NEW p \in Pipes, NEW c \in Commands, Control(p, c) PROVE QueueInv'
  <2>1. /\ alive[p] /\ xfer[p] = "used" /\ Send(c, p) /\ UNCHANGED <<alive, kept, xfer>>
        /\ c # "RELEASE" /\ p \notin kept
    BY <1>7, TransferAssumption DEF Control, PipeInv, InUse, KeptAlive
  <2> QED BY <2>1, QueueAdded
<1>8. ASSUME NEW p \in Pipes, NEW e \in Events, Event(p, e) PROVE QueueInv'
  BY <1>8, QueueSame DEF Event
<1>9. CASE Release
  <2>1. ReleaseMgr /\ UNCHANGED <<alive, kept, xfer>> /\ (used \/ frozen)
    BY <1>9 DEF Release
  <2>2. CASE mgr_refs = 1
    BY <2>1, <2>2, LastIsApplication, DetachAdded DEF ReleaseMgr
  <2>3. CASE mgr_refs # 1
    BY <2>1, <2>3, QueueSame DEF ReleaseMgr
  <2> QED BY <2>2, <2>3
<1>10. CASE Freeze
  BY <1>10, QueueSame DEF Freeze
<1>11. CASE Thaw
  <2>1. ReleaseMgr /\ UNCHANGED <<alive, kept, xfer>> /\ (used \/ frozen)
    BY <1>11 DEF Thaw
  <2>2. CASE mgr_refs = 1
    BY <2>1, <2>2, LastIsApplication, DetachAdded DEF ReleaseMgr
  <2>3. CASE mgr_refs # 1
    BY <2>1, <2>3, QueueSame DEF ReleaseMgr
  <2> QED BY <2>2, <2>3
<1>12. CASE EndPush
  BY <1>12, QueueSame DEF EndPush
<1>13. CASE Attach
  BY <1>13, QueueSame DEF Attach
<1>14. CASE Watch
  BY <1>14, QueueSame DEF Watch
<1>15. CASE PopCommand
  BY <1>15, QueueTaken DEF PopCommand, Popped
<1>16. CASE PopRelease
  <2>1. /\ uqueue # <<>> /\ uqueue' = Tail(uqueue) /\ UNCHANGED xfer
        /\ Head(uqueue).type = "RELEASE" /\ UNCHANGED alive
        /\ kept' = kept \cup {Head(uqueue).pipe}
    BY <1>16 DEF PopRelease, Popped
  <2> QED BY <2>1, QueueTaken
<1>17. CASE PopDetach
  BY <1>17, QueueTaken DEF PopDetach, Popped
<1>18. CASE EndWatch
  BY <1>18, QueueSame DEF EndWatch
<1>19. CASE FreezeFails
  BY <1>19, QueueSame DEF FreezeFails
<1>20. ASSUME NEW p \in Pipes, Die(p) PROVE QueueInv'
  <2>1. /\ p \in kept /\ alive' = [alive EXCEPT ![p] = FALSE]
        /\ kept' = kept \ {p} /\ UNCHANGED <<uqueue, xfer>>
    BY <1>20 DEF Die
  <2>2. \A q \in Pipes : alive[q] /\ q \notin kept => alive'[q]
    BY <2>1
  <2> QED BY <2>1, <2>2, QueueSame
<1> QED
  BY <1>1, <1>2, <1>3, <1>4, <1>5, <1>6, <1>7, <1>8, <1>9, <1>10, <1>11, <1>12,
       <1>13, <1>14, <1>15, <1>16, <1>17, <1>18, <1>19,
       <1>20 DEF TransferNext, Worker, XferThread

-----------------------------------------------------------------------------
(* The references on the manager, when one pipe comes or goes and when     *)
(* none does.                                                              *)
LEMMA PresentMoves ==
    ASSUME NEW p \in Pipes, \A q \in Pipes \ {p} : xfer'[q] = xfer[q]
    PROVE  /\ Cardinality(Present) \in Nat
           /\ Cardinality(Present') =
                Cardinality(Present) + One(xfer'[p] \in Standing)
                                     - One(xfer[p] \in Standing)
<1>1. PICK A, B : A = Present /\ B = Present'
  OBVIOUS
<1>2. IsFiniteSet(A) /\ Cardinality(A) \in Nat /\ (p \in A <=> xfer[p] \in Standing)
  BY <1>1, PresentFinite DEF Present
<1>3. CASE xfer'[p] \in Standing
  <2>1. B = A \cup {p}
    BY <1>1, <1>3 DEF Present, Standing
  <2>2. Cardinality(B) = IF p \in A THEN Cardinality(A) ELSE Cardinality(A) + 1
    BY <1>2, <2>1, FS_AddElement
  <2> QED BY <1>1, <1>2, <1>3, <2>2 DEF One
<1>4. CASE xfer'[p] \notin Standing
  <2>1. B = A \ {p}
    BY <1>1, <1>4 DEF Present, Standing
  <2>2. Cardinality(B) = IF p \in A THEN Cardinality(A) - 1 ELSE Cardinality(A)
    BY <1>2, <2>1, FS_RemoveElement
  <2> QED BY <1>1, <1>2, <1>4, <2>2 DEF One
<1> QED BY <1>3, <1>4

LEMMA PresentSame ==
    ASSUME UNCHANGED xfer
    PROVE  Cardinality(Present) \in Nat /\ Cardinality(Present') = Cardinality(Present)
<1>1. Present' = Present
  BY DEF Present, Standing
<1>2. Cardinality(Present) \in Nat
  BY PresentFinite
<1> QED BY <1>1, <1>2

LEMMA CountKept ==
    ASSUME MgrCounted, UNCHANGED <<mgr_refs, used, leaked, frozen>>,
           Cardinality(Present') = Cardinality(Present)
    PROVE  MgrCounted'
BY DEF MgrCounted

(* Each step keeps the account of the references on the manager.           *)
LEMMA MgrCountKept ==
    ASSUME Typed, MgrCounted, PipeInv, TransferNext
    PROVE  MgrCounted'
<1> USE DEF Typed, FlagsTyped, PipesTyped, transferVars, mainVars, remoteVars,
         mgrVars, xferVars, pipeVars
<1>1. ASSUME NEW p \in Pipes, XferAlloc(p) PROVE MgrCounted'
  <2>1. /\ One(xfer'[p] \in Standing) = 1 /\ One(xfer[p] \in Standing) = 0
        /\ mgr_refs' = mgr_refs + 1 /\ UNCHANGED <<used, leaked, frozen>>
        /\ \A q \in Pipes \ {p} : xfer'[q] = xfer[q]
    BY <1>1 DEF XferAlloc, Standing, One
  <2>2. Cardinality(Present) \in Nat /\ Cardinality(Present') = Cardinality(Present) + 1
    BY <2>1, PresentMoves
  <2> QED BY <2>1, <2>2 DEF MgrCounted, One
<1>2. ASSUME NEW p \in Pipes, XferRelease(p) PROVE MgrCounted'
  <2>1. /\ One(xfer'[p] \in Standing) = 1 /\ One(xfer[p] \in Standing) = 1
        /\ UNCHANGED <<mgr_refs, used, leaked, frozen>>
        /\ \A q \in Pipes \ {p} : xfer'[q] = xfer[q]
    BY <1>2 DEF XferRelease, Standing, One
  <2>2. Cardinality(Present') = Cardinality(Present)
    BY <2>1, PresentMoves
  <2> QED BY <2>1, <2>2, CountKept
<1>3. ASSUME NEW p \in Pipes, XferWatch(p) PROVE MgrCounted'
  BY <1>3, PresentSame, CountKept DEF XferWatch
<1>4. ASSUME NEW p \in Pipes, XferPop(p) PROVE MgrCounted'
  BY <1>4, PresentSame, CountKept DEF XferPop
<1>5. ASSUME NEW p \in Pipes, XferEnd(p) PROVE MgrCounted'
  <2>1. CASE xfer_refs[p] = 1
    <3>1. Parting(p)
      BY <1>5, <2>1, Alone
    <3>2. /\ xfer' = [xfer EXCEPT ![p] = "freed"] /\ xfer[p] = "released"
          /\ mgr_refs' = mgr_refs - 1 /\ UNCHANGED <<used, leaked, frozen>>
      BY <1>5, <2>1, <3>1 DEF XferEnd, ReleaseMgr, Parting
    <3>4. /\ One(xfer'[p] \in Standing) = 0 /\ One(xfer[p] \in Standing) = 1
          /\ \A q \in Pipes \ {p} : xfer'[q] = xfer[q]
      BY <3>2 DEF Standing, One
    <3>3. /\ Cardinality(Present) \in Nat
          /\ Cardinality(Present') = Cardinality(Present) - 1
      BY <3>4, PresentMoves
    <3> QED BY <3>2, <3>3 DEF MgrCounted, One
  <2>2. CASE xfer_refs[p] # 1
    BY <1>5, <2>2, PresentSame, CountKept DEF XferEnd
  <2> QED BY <2>1, <2>2
<1>6. ASSUME NEW p \in Pipes, EndRemotePush(p) PROVE MgrCounted'
  BY <1>6, PresentSame, CountKept DEF EndRemotePush
<1>7. ASSUME NEW p \in Pipes, NEW c \in Commands, Control(p, c) PROVE MgrCounted'
  BY <1>7, PresentSame, CountKept DEF Control
<1>8. ASSUME NEW p \in Pipes, NEW e \in Events, Event(p, e) PROVE MgrCounted'
  BY <1>8, PresentSame, CountKept DEF Event
<1>9. CASE Release
  <2>1. /\ mgr_refs' = mgr_refs - 1 /\ UNCHANGED <<xfer, leaked, frozen>>
        /\ One(used) = 1 /\ One(used') = 0
    BY <1>9 DEF Release, ReleaseMgr, One
  <2>2. Cardinality(Present) \in Nat /\ Cardinality(Present') = Cardinality(Present)
    BY <2>1, PresentSame
  <2> QED BY <2>1, <2>2 DEF MgrCounted, One
<1>10. CASE Freeze
  <2>1. /\ mgr_refs' = mgr_refs + 1 /\ UNCHANGED <<xfer, used, leaked>>
        /\ One(frozen) = 0 /\ One(frozen') = 1
    BY <1>10 DEF Freeze, ReleaseMgr, One
  <2>2. Cardinality(Present) \in Nat /\ Cardinality(Present') = Cardinality(Present)
    BY <2>1, PresentSame
  <2> QED BY <2>1, <2>2 DEF MgrCounted, One
<1>11. CASE Thaw
  <2>1. /\ mgr_refs' = mgr_refs - 1 /\ UNCHANGED <<xfer, used, leaked>>
        /\ One(frozen) = 1 /\ One(frozen') = 0
    BY <1>11 DEF Thaw, ReleaseMgr, One
  <2>2. Cardinality(Present) \in Nat /\ Cardinality(Present') = Cardinality(Present)
    BY <2>1, PresentSame
  <2> QED BY <2>1, <2>2 DEF MgrCounted, One
<1>12. CASE EndPush
  BY <1>12, PresentSame, CountKept DEF EndPush
<1>13. CASE Attach
  BY <1>13, PresentSame, CountKept DEF Attach
<1>14. CASE Watch
  BY <1>14, PresentSame, CountKept DEF Watch
<1>15. CASE PopCommand
  BY <1>15, PresentSame, CountKept DEF PopCommand
<1>16. CASE PopRelease
  BY <1>16, PresentSame, CountKept DEF PopRelease
<1>17. CASE PopDetach
  BY <1>17, PresentSame, CountKept DEF PopDetach
<1>18. CASE EndWatch
  BY <1>18, PresentSame, CountKept DEF EndWatch
<1>19. CASE FreezeFails
  <2>1. /\ mgr_refs' = mgr_refs + 1 /\ UNCHANGED <<xfer, used, frozen>>
        /\ One(leaked) = 0 /\ One(leaked') = 1
    BY <1>19 DEF FreezeFails, One
  <2>2. Cardinality(Present) \in Nat /\ Cardinality(Present') = Cardinality(Present)
    BY <2>1, PresentSame
  <2> QED BY <2>1, <2>2 DEF MgrCounted, One
<1>20. ASSUME NEW p \in Pipes, Die(p) PROVE MgrCounted'
  BY <1>20, PresentSame, CountKept DEF Die
<1> QED
  BY <1>1, <1>2, <1>3, <1>4, <1>5, <1>6, <1>7, <1>8, <1>9, <1>10, <1>11, <1>12,
       <1>13, <1>14, <1>15, <1>16, <1>17, <1>18, <1>19,
       <1>20 DEF TransferNext, Worker, XferThread

(* The end of the manager: once DETACH is sent nobody sends or comes.      *)
LEMMA EndsSame ==
    ASSUME MgrEnds, UNCHANGED <<mgr_refs, mgr_freed, uqueue>>
    PROVE  MgrEnds'
BY DEF MgrEnds

LEMMA EndsFar ==
    ASSUME ~mgr_freed', \A i \in DOMAIN uqueue' : uqueue'[i].type # "DETACH"
    PROVE  MgrEnds'
BY DEF MgrEnds

LEMMA NotDetach ==
    ASSUME QueuesTyped, NEW p, NEW type \in Commands \cup {"RELEASE"}, Send(type, p),
           p \in Pipes, \A i \in DOMAIN uqueue : uqueue[i].type # "DETACH"
    PROVE  \A i \in DOMAIN uqueue' : uqueue'[i].type # "DETACH"
<1> USE TransferAssumption
<1> DEFINE m == Message(type, p)
<1>1. m \in Messages /\ m.type # "DETACH"
  BY DEF Message, Messages
<1> HIDE DEF m
<1>2. CASE uqueue' = Append(uqueue, m)
  BY <1>1, <1>2, Appended DEF QueuesTyped
<1> QED BY <1>2 DEF Send, m

(* A reference on the manager is given back: it may be the last one.       *)
LEMMA MgrLetGo ==
    ASSUME TransferInv, ReleaseMgr, UNCHANGED mgr_freed, ~mgr_freed,
           mgr_refs > 0, mgr_refs = 1 => uqueue = <<>>,
           \A i \in DOMAIN uqueue : uqueue[i].type # "DETACH"
    PROVE  MgrEnds'
<1>1. CASE mgr_refs = 1
  <2>1. mgr_refs' = 0 /\ Len(uqueue') = 1
    BY <1>1, DetachAdded DEF ReleaseMgr, TransferInv, Typed
  <2> QED BY <2>1 DEF MgrEnds
<1>2. CASE mgr_refs # 1
  BY <1>2, EndsFar DEF ReleaseMgr
<1> QED BY <1>1, <1>2

LEMMA MgrTaken ==
    ASSUME QueuesTyped, MgrEnds, uqueue # <<>>, uqueue' = Tail(uqueue),
           UNCHANGED <<mgr_refs, mgr_freed>>
    PROVE  MgrEnds'
<1>1. /\ Len(uqueue) \in Nat \ {0} /\ Len(uqueue') = Len(uqueue) - 1
      /\ DOMAIN uqueue = 1..Len(uqueue) /\ DOMAIN uqueue' = 1..Len(uqueue) - 1
      /\ \A i \in 1..Len(uqueue) - 1 : uqueue'[i] = uqueue[i + 1]
  BY Shifted DEF QueuesTyped
<1>2. ASSUME NEW i \in DOMAIN uqueue', uqueue'[i].type = "DETACH" PROVE FALSE
  <2>1. i + 1 \in DOMAIN uqueue /\ uqueue[i + 1].type = "DETACH" /\ Len(uqueue) > 1
    BY <1>1, <1>2
  <2> QED BY <2>1 DEF MgrEnds
<1> QED BY <1>2 DEF MgrEnds

(* Nothing follows DETACH.                                                  *)
LEMMA MgrEndsKept ==
    ASSUME TransferInv, TransferNext
    PROVE  MgrEnds'
<1> USE DEF TransferInv, MgrInv, Typed, QueuesTyped, FlagsTyped, transferVars,
         mainVars, remoteVars, mgrVars, xferVars, pipeVars
<1>1. ASSUME NEW p \in Pipes, XferAlloc(p) PROVE MgrEnds'
  BY <1>1, Referenced, EndsFar DEF XferAlloc
<1>2. ASSUME NEW p \in Pipes, XferRelease(p) PROVE MgrEnds'
  BY <1>2, Referenced, NotDetach, EndsFar DEF XferRelease, Standing
<1>3. ASSUME NEW p \in Pipes, XferWatch(p) PROVE MgrEnds'
  BY <1>3, EndsSame DEF XferWatch
<1>4. ASSUME NEW p \in Pipes, XferPop(p) PROVE MgrEnds'
  BY <1>4, EndsSame DEF XferPop
<1>5. ASSUME NEW p \in Pipes, XferEnd(p) PROVE MgrEnds'
  <2>1. CASE xfer_refs[p] = 1
    <3>1. Parting(p)
      BY <1>5, <2>1, Alone
    <3>2. ReleaseMgr /\ UNCHANGED mgr_freed
      BY <1>5, <2>1 DEF XferEnd
    <3>3. /\ mgr_refs > 0 /\ ~mgr_freed
          /\ \A i \in DOMAIN uqueue : uqueue[i].type # "DETACH"
      BY <3>1, Referenced DEF Parting, Standing
    <3>4. mgr_refs = 1 => uqueue = <<>>
      BY <3>1, LastIsXfer
    <3> QED BY <3>2, <3>3, <3>4, MgrLetGo
  <2>2. CASE xfer_refs[p] # 1
    BY <1>5, <2>2, EndsSame DEF XferEnd
  <2> QED BY <2>1, <2>2
<1>6. ASSUME NEW p \in Pipes, EndRemotePush(p) PROVE MgrEnds'
  BY <1>6, EndsSame DEF EndRemotePush
<1>7. ASSUME NEW p \in Pipes, NEW c \in Commands, Control(p, c) PROVE MgrEnds'
  BY <1>7, Referenced, NotDetach, EndsFar DEF Control, Standing
<1>8. ASSUME NEW p \in Pipes, NEW e \in Events, Event(p, e) PROVE MgrEnds'
  BY <1>8, EndsSame DEF Event
<1>9. CASE Release
  BY <1>9, Referenced, LastIsApplication, MgrLetGo DEF Release
<1>10. CASE Freeze
  BY <1>10, Referenced, EndsFar DEF Freeze
<1>11. CASE Thaw
  BY <1>11, Referenced, LastIsApplication, MgrLetGo DEF Thaw
<1>12. CASE EndPush
  BY <1>12, EndsSame DEF EndPush
<1>13. CASE Attach
  BY <1>13, EndsSame DEF Attach
<1>14. CASE Watch
  BY <1>14, EndsSame DEF Watch
<1>15. CASE PopCommand
  BY <1>15, MgrTaken DEF PopCommand, Popped
<1>16. CASE PopRelease
  BY <1>16, MgrTaken DEF PopRelease, Popped
<1>17. CASE PopDetach
  <2>1. /\ uqueue # <<>> /\ uqueue' = Tail(uqueue) /\ Head(uqueue).type = "DETACH"
        /\ mgr_refs' = mgr_refs
    BY <1>17 DEF PopDetach, Popped
  <2>2. /\ Head(uqueue) = uqueue[1] /\ 1 \in DOMAIN uqueue /\ Len(uqueue) \in Nat
        /\ uqueue' \in Seq(Messages) /\ Len(uqueue') = Len(uqueue) - 1
    BY <2>1, Shifted
  <2>3. mgr_refs = 0 /\ Len(uqueue) = 1
    BY <2>1, <2>2 DEF MgrEnds
  <2>4. uqueue' = <<>>
    BY <2>2, <2>3, EmptySeq
  <2> QED BY <2>1, <2>3, <2>4 DEF MgrEnds
<1>18. CASE EndWatch
  BY <1>18, EndsSame DEF EndWatch
<1>19. CASE FreezeFails
  BY <1>19, Referenced, EndsFar DEF FreezeFails
<1>20. ASSUME NEW p \in Pipes, Die(p) PROVE MgrEnds'
  BY <1>20, EndsSame DEF Die
<1> QED
  BY <1>1, <1>2, <1>3, <1>4, <1>5, <1>6, <1>7, <1>8, <1>9, <1>10, <1>11, <1>12,
       <1>13, <1>14, <1>15, <1>16, <1>17, <1>18, <1>19,
       <1>20 DEF TransferNext, Worker, XferThread

-----------------------------------------------------------------------------
LEMMA InitTransferInv == TransferInit => TransferInv
<1> SUFFICES ASSUME TransferInit PROVE TransferInv
  OBVIOUS
<1> USE TransferAssumption DEF TransferInit
<1>1. Typed
  <2>1. ThreadsTyped /\ FlagsTyped
    BY DEF ThreadsTyped, FlagsTyped
  <2>2. <<>> \in Seq(Messages) /\ <<>> \in Seq(Events \cup {"DEAD"}) /\ Len(<<>>) = 0
    OBVIOUS
  <2>3. QueuesTyped
    BY <2>2 DEF QueuesTyped
  <2>4. PipesTyped
    BY DEF PipesTyped
  <2> QED BY <2>1, <2>3, <2>4 DEF Typed
<1>2. PipeInv
  BY DEF PipeInv, Counted, Absent, InUse, KeptAlive, DeadIsLast, Standing
<1>3. Present = {}
  BY DEF Present, Standing
<1>4. MgrInv
  <2>1. Cardinality(Present) = 0
    BY <1>3, FS_EmptySet
  <2> QED BY <2>1 DEF MgrInv, MgrCounted, MgrEnds, One
<1>5. QueueInv /\ Stilled
  BY DEF QueueInv, AboutAlive, ReleaseIsLast, Stilled
<1> QED BY <1>1, <1>2, <1>4, <1>5 DEF TransferInv

LEMMA RefsKept ==
    ASSUME MgrCounted, Typed, TransferNext
    PROVE  mgr_refs' \in Int
<1>1. mgr_refs' \in {mgr_refs, mgr_refs + 1, mgr_refs - 1}
  BY DEF TransferNext, Worker, XferThread, XferAlloc, XferRelease, XferWatch,
       XferPop, XferEnd,
         EndRemotePush, Control, Event, Release, Freeze, FreezeFails, Die, Thaw,
         EndPush, Attach, Watch,
         PopCommand, PopRelease, PopDetach, EndWatch, ReleaseMgr, mgrVars
<1> QED BY <1>1 DEF Typed

LEMMA NextTransferInv == TransferInv /\ [TransferNext]_transferVars => TransferInv'
<1> SUFFICES ASSUME TransferInv, [TransferNext]_transferVars PROVE TransferInv'
  OBVIOUS
<1>1. CASE TransferNext
  <2> USE <1>1 DEF TransferInv, QueueInv, MgrInv
  <2>1. ThreadsTyped' /\ FlagsTyped' /\ QueuesTyped'
    BY ThreadsKept, FlagsKept, QueuesKept DEF Typed
  <2>2. PipesTyped' /\ mgr_refs' \in Int
    BY PipesKept, RefsKept DEF Typed
  <2>3. PipeInv'
    BY PipeKept DEF Typed
  <2>4. MgrCounted' /\ MgrEnds'
    BY MgrCountKept, MgrEndsKept
  <2>5. QueueInv' /\ Stilled'
    BY QueueKept, StilledKept
  <2> QED BY <2>1, <2>2, <2>3, <2>4, <2>5 DEF Typed
<1>2. CASE UNCHANGED transferVars
  BY <1>2 DEF transferVars, mainVars, remoteVars, mgrVars, xferVars, pipeVars,
       TransferInv, Typed, ThreadsTyped,
              FlagsTyped, QueuesTyped, PipesTyped, PipeInv, Counted, Whole, Parting,
              Absent, InUse, KeptAlive, DeadIsLast, MgrInv, MgrCounted,
              Present, MgrEnds, QueueInv, AboutAlive, ReleaseIsLast, Stilled
<1> QED BY <1>1, <1>2

LEMMA TransferInvHolds == TransferSpec => []TransferInv
<1>1. TransferInit => TransferInv
  BY InitTransferInv
<1>2. TransferInv /\ [TransferNext]_transferVars => TransferInv'
  BY NextTransferInv
<1> QED BY <1>1, <1>2, PTL DEF TransferSpec

-----------------------------------------------------------------------------
(* The counts are natural numbers, and everything has its type, in every   *)
(* interleaving of the two threads.                                        *)
THEOREM TransferTypeCorrect == TransferSpec => []TransferTypeOK
<1>1. TransferInv => TransferTypeOK
  <2> SUFFICES ASSUME TransferInv PROVE TransferTypeOK
    OBVIOUS
  <2>1. Cardinality(Present) \in Nat
    BY PresentFinite
  <2>2. mgr_refs \in Nat
    BY <2>1 DEF TransferInv, MgrInv, MgrCounted, One
  <2>3. ASSUME NEW p \in Pipes PROVE xfer_refs[p] \in Nat
    <3>1. PICK n \in Nat : n = Len(xfer_uqueue[p])
      BY LenProperties DEF TransferInv, Typed, QueuesTyped
    <3>2. PICK d \in {0, 1} : d = One(main = p)
      BY DEF One
    <3>3. Whole(p) => xfer_refs[p] = 1 + n + d
      BY <3>1, <3>2 DEF Whole
    <3>4. Whole(p) \/ xfer_refs[p] = 1 \/ xfer_refs[p] = 0
      BY DEF TransferInv, PipeInv, Counted, Parting, Absent
    <3> QED BY <3>3, <3>4
  <2>4. xfer_refs \in [Pipes -> Nat]
    BY <2>3 DEF TransferInv, Typed, PipesTyped
  <2> QED BY <2>2, <2>4 DEF TransferInv, Typed, ThreadsTyped, FlagsTyped,
       QueuesTyped,
                            PipesTyped, TransferTypeOK
<1> QED BY <1>1, TransferInvHolds, PTL

(* Whatever the order in which the application, the manager, the xfer      *)
(* pipes and the remote thread let go, no message in a queue is for a pipe *)
(* that is dead or an xfer pipe that is freed, and the manager outlives its*)
(* pipes.                                                                  *)
THEOREM NobodyDiesTooEarly == TransferSpec => []LivesLongEnough
<1>1. TransferInv => LivesLongEnough
  <2> SUFFICES ASSUME TransferInv PROVE LivesLongEnough
    OBVIOUS
  <2>1. CommandsInLife
    <3> SUFFICES ASSUME NEW i \in DOMAIN uqueue
                 PROVE  /\ uqueue[i].type = "DETACH" => i = Len(uqueue)
                        /\ uqueue[i].type # "DETACH" => alive[uqueue[i].pipe] /\ ~mgr_freed
                        /\ \A j \in 1..(i - 1) :
                             uqueue[j].type = "RELEASE" => uqueue[i].pipe # uqueue[j].pipe
      BY DEF CommandsInLife
    <3>1. uqueue # <<>> /\ DOMAIN uqueue = 1..Len(uqueue) /\ Len(uqueue) \in Nat
      BY LenProperties DEF TransferInv, Typed, QueuesTyped
    <3>2. uqueue[i].type = "DETACH" => i = Len(uqueue)
      BY <3>1 DEF TransferInv, MgrInv, MgrEnds
    <3>3. uqueue[i].type # "DETACH" => alive[uqueue[i].pipe] /\ ~mgr_freed
      BY <3>1 DEF TransferInv, MgrInv, MgrEnds, QueueInv, AboutAlive
    <3>4. \A j \in 1..(i - 1) : j \in DOMAIN uqueue /\ j < i
      BY <3>1
    <3> QED BY <3>2, <3>3, <3>4 DEF TransferInv, QueueInv, ReleaseIsLast
  <2>2. Outlives
    <3> SUFFICES ASSUME NEW p \in Pipes
                 PROVE  /\ xfer[p] = "freed" => ~alive[p] /\ xfer_uqueue[p] = <<>>
                        /\ \A i \in DOMAIN xfer_uqueue[p] :
                             xfer_uqueue[p][i] = "DEAD" =>
                               i = Len(xfer_uqueue[p]) /\ ~alive[p]
                        /\ mgr_freed => xfer[p] \in {"none", "freed"}
      BY DEF Outlives
    <3>1. xfer[p] = "freed" => ~alive[p] /\ xfer_uqueue[p] = <<>>
      BY DEF TransferInv, PipeInv, Counted, Absent, Standing
    <3>2. mgr_freed => xfer[p] \notin Standing
      BY Referenced
    <3>3. xfer[p] \in {"none", "used", "released", "freed"}
      BY DEF TransferInv, Typed, PipesTyped
    <3> QED BY <3>1, <3>2, <3>3 DEF Standing, TransferInv, PipeInv, DeadIsLast
  <2> QED BY <2>1, <2>2 DEF LivesLongEnough
<1> QED BY <1>1, TransferInvHolds, PTL

(* The remote pipes can be walked through while the loop is frozen.        *)
THEOREM FrozenStandsStill == TransferSpec => []FrozenIsStill
<1>1. TransferInv => FrozenIsStill
  <2> SUFFICES ASSUME TransferInv, frozen PROVE FrozenIsStill
    BY DEF FrozenIsStill
  <2>1. ~mgr_freed
    BY Referenced
  <2> QED BY <2>1 DEF FrozenIsStill, TransferInv, Stilled, PipeInv, InUse
<1> QED BY <1>1, TransferInvHolds, PTL
=============================================================================
