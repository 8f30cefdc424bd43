-------------------------- MODULE UpipeQueueProofs -------------------------
(***************************************************************************)
(* Proofs about the two ends of a queue, for queues of any length, any     *)
(* number of pumps and any limit of held urefs: how long the sink lives,   *)
(* how much it holds, and what arrives at the source, in which order and   *)
(* under which flow definition.                                            *)
(*                                                                         *)
(* The sink has a reference of the application and one of the urefs it     *)
(* holds.  While its watcher empties the list of these, the reference is   *)
(* still there; it is given back at the end, when the sink may be freed.   *)
(*                                                                         *)
(* Each pump that is not blocked or freed finds the list within its limit, *)
(* or not longer than the other pumps made it.  A call of it may add a     *)
(* flow definition and a data uref; if the first exceeds the limit, the    *)
(* pump is blocked, but the second still comes.                            *)
(*                                                                         *)
(* All that is on its way is one sequence: the queue, what is held behind  *)
(* it, and what a call is about to send.  Most steps leave it as it is or  *)
(* cut it in front.  A call extends it by a flow definition, if there is a *)
(* new one, and a data uref, which is then under the flow definition of    *)
(* the sink unless a flush took that along.                                *)
(***************************************************************************)
EXTENDS UpipeQueue, SequenceTheorems, FiniteSetTheorems, TLAPS

Living == {"idle", "flow", "data", "output"}
Leaving == {"free", "release", "push", "gone"}

SinkTyped ==
    /\ pc \in Living \cup Leaving
    /\ cur.pump \in Pumps \cup {None} /\ cur.uref \in Urefs \cup {None}
    /\ flow_def \in Flows \cup {None}
    /\ urefs \in Seq(Urefs \cup Flows) /\ max_urefs \in 0..MaxLength
    /\ blockers \subseteq Pumps /\ freed \subseteq Pumps
    /\ watcher \in {None, "stopped", "started"}
    /\ refs \in Int /\ used \in BOOLEAN

(* What a call is about is there.                                          *)
InCall ==
    /\ pc = "flow" => flow_def \in Flows
    /\ pc \in {"flow", "data"} => used /\ cur.uref \in Urefs

(* The watcher is started just as long as urefs are held, or it runs.      *)
Watched == watcher = "started" <=> pc = "output" \/ urefs # <<>>

Referenced ==
    /\ pc \in Living => /\ refs = One(used) + One(pc = "output" \/ urefs # <<>>)
                        /\ refs # 0
    /\ pc \in Leaving => refs = 0 /\ ~used /\ urefs = <<>> /\ watcher # "started"

LifeInv == SinkTyped /\ InCall /\ Watched /\ Referenced

(* The pumps that may not send any more.                                   *)
Silent == blockers \cup freed
Bound == MaxLength + 2 * Cardinality(Silent)

HeldBound ==
    /\ pc \in {"flow", "data"} => cur.pump \in Pumps \ freed
    /\ pc = "flow" => cur.pump \notin blockers
    /\ pc = "data" /\ cur.pump \in blockers => Len(urefs) + 1 <= Bound
    /\ Len(urefs) <= Bound

-----------------------------------------------------------------------------
(* What is added to a list and taken from it.                              *)
LEMMA Appended ==
    ASSUME NEW S, NEW s \in Seq(S), NEW e \in S
    PROVE  /\ Append(s, e) \in Seq(S) /\ Append(s, e) # <<>>
           /\ Len(s) \in Nat /\ Len(Append(s, e)) = Len(s) + 1
BY AppendProperties, LenProperties

LEMMA Shifted ==
    ASSUME NEW S, NEW s \in Seq(S), s # <<>>
    PROVE  Tail(s) \in Seq(S) /\ Len(s) \in Nat /\ Len(Tail(s)) = Len(s) - 1
BY HeadTailProperties, LenProperties

(* Storing a uref starts the watcher and takes a reference with the first  *)
(* one that is held.                                                       *)
LEMMA StoreHolds ==
    ASSUME SinkTyped, Watched, Referenced, pc \in {"flow", "data"},
           NEW x \in Urefs \cup Flows, Store(x), UNCHANGED used, used
    PROVE  /\ urefs' \in Seq(Urefs \cup Flows) /\ blockers' \subseteq Pumps
           /\ watcher' \in {None, "stopped", "started"}
           /\ watcher' = "started" <=> urefs' # <<>>
           /\ refs' = 1 + One(urefs' # <<>>) /\ refs' \in Int
<1> USE DEF SinkTyped, Watched, Referenced, Living, One
<1>1. /\ Append(urefs, x) \in Seq(Urefs \cup Flows) /\ Append(urefs, x) # <<>>
  BY Appended
<1>2. cur.pump # None => cur.pump \in Pumps
  OBVIOUS
<1>3. CASE urefs # <<>> /\ Hold(x) /\ UNCHANGED <<uqueue, watcher, refs>>
  BY <1>1, <1>2, <1>3 DEF Hold
<1>4. CASE urefs = <<>> /\ UNCHANGED <<urefs, blockers, watcher, refs>>
  BY <1>4
<1>5. CASE urefs = <<>> /\ Hold(x) /\ watcher' = "started" /\ refs' = refs + 1
  BY <1>1, <1>2, <1>5 DEF Hold
<1> QED BY <1>3, <1>4, <1>5 DEF Store

(* Each step keeps the account of the references on the sink.              *)
LEMMA LifeKept ==
    ASSUME LifeInv, Next
    PROVE  LifeInv'
<1> USE QueueAssumption DEF LifeInv, SinkTyped, InCall, Watched, Referenced,
            Living, Leaving, One, Rest, Calling, SinkOnly, StoreOnly, sinkVars, flowVars, lifeVars, oobVars, srcVars, Checked
<1>1. ASSUME NEW p \in Senders, Receive(p) PROVE LifeInv'
  <2>1. PICK u \in Urefs : cur' = [pump |-> p, uref |-> u]
    BY <1>1 DEF Receive
  <2> QED BY <1>1, <2>1 DEF Receive
<1>2. ASSUME NEW v \in Flows, SetFlowDef(v) PROVE LifeInv'
  BY <1>2 DEF SetFlowDef
<1>3. ASSUME NEW n \in 0..MaxLength, SetMaxLength(n) PROVE LifeInv'
  BY <1>3 DEF SetMaxLength
<1>4. ASSUME NEW p \in Pumps, FreePump(p) PROVE LifeInv'
  BY <1>4 DEF FreePump
<1>5. CASE SendFlowDef
  <2>1. /\ pc = "flow" /\ flow_def \in Urefs \cup Flows /\ Store(flow_def)
        /\ used /\ UNCHANGED used
    BY <1>5 DEF SendFlowDef
  <2> HIDE DEF SinkTyped, Watched, Referenced
  <2>2. /\ urefs' \in Seq(Urefs \cup Flows) /\ blockers' \subseteq Pumps
        /\ watcher' \in {None, "stopped", "started"}
        /\ watcher' = "started" <=> urefs' # <<>>
        /\ refs' = 1 + One(urefs' # <<>>) /\ refs' \in Int
    BY <2>1, StoreHolds
  <2> USE DEF SinkTyped, Watched, Referenced
  <2> QED BY <1>5, <2>1, <2>2 DEF SendFlowDef
<1>6. CASE SendData
  <2>1. /\ pc = "data" /\ cur.uref \in Urefs \cup Flows /\ Store(cur.uref)
        /\ used /\ UNCHANGED used
    BY <1>6 DEF SendData
  <2> HIDE DEF SinkTyped, Watched, Referenced
  <2>2. /\ urefs' \in Seq(Urefs \cup Flows) /\ blockers' \subseteq Pumps
        /\ watcher' \in {None, "stopped", "started"}
        /\ watcher' = "started" <=> urefs' # <<>>
        /\ refs' = 1 + One(urefs' # <<>>) /\ refs' \in Int
    BY <2>1, StoreHolds
  <2> USE DEF SinkTyped, Watched, Referenced
  <2>3. cur' = [pump |-> None, uref |-> None] /\ pc' = "idle"
    BY <1>6 DEF SendData
  <2> QED BY <1>6, <2>1, <2>2, <2>3 DEF SendData
<1>7. CASE Watch
  BY <1>7 DEF Watch
<1>8. CASE OutputHeld
  BY <1>8, Shifted DEF OutputHeld
<1>9. CASE EndWatch
  BY <1>9 DEF EndWatch
<1>10. CASE FreeSink
  BY <1>10 DEF FreeSink
<1>11. CASE ReleaseSource
  <2>1. /\ pc = "release" /\ pc' \in {"push", "gone"} /\ urefs' = <<>> /\ watcher' = None
        /\ UNCHANGED <<cur, flow_def, max_urefs, blockers, freed, refs, used>>
    BY <1>11 DEF ReleaseSource
  <2> QED BY <2>1
<1>12. CASE EndPush
  BY <1>12 DEF EndPush
<1>13. CASE AttachSink
  BY <1>13 DEF AttachSink
<1>14. CASE Flush
  BY <1>14 DEF Flush
<1>15. CASE Release
  <2>1. /\ pc = "idle" /\ used /\ ~used' /\ refs' = refs - 1
        /\ pc' = IF refs' = 0 THEN "free" ELSE "idle"
        /\ UNCHANGED <<cur, flow_def, urefs, max_urefs, blockers, watcher, freed>>
    BY <1>15 DEF Release
  <2>2. refs = 1 + One(urefs # <<>>)
    BY <2>1
  <2>3. SinkTyped' /\ InCall' /\ Watched'
    <3>1. pc' \in {"free", "idle"} /\ refs' \in Int /\ used' = FALSE
      BY <2>1
    <3>2. SinkTyped'
      BY <2>1, <3>1
    <3>3. InCall' /\ Watched'
      BY <2>1, <3>1
    <3> QED BY <3>2, <3>3
  <2>4. Referenced'
    <3>1. CASE urefs = <<>>
      BY <2>1, <2>2, <3>1
    <3>2. CASE urefs # <<>>
      BY <2>1, <2>2, <3>2
    <3> QED BY <3>1, <3>2
  <2> QED BY <2>3, <2>4
<1>16. CASE AttachSource
  BY <1>16 DEF AttachSource
<1>17. CASE Work
  BY <1>17 DEF Work
<1>18. CASE OobRequest
  BY <1>18 DEF OobRequest
<1>19. CASE OobSourceEnd
  BY <1>19 DEF OobSourceEnd
<1>20. CASE OobRefEnd
  BY <1>20 DEF OobRefEnd
<1>21. CASE ReleaseUser
  BY <1>21 DEF ReleaseUser
<1>22. CASE Request
  BY <1>22 DEF Request
<1> QED
  BY <1>1, <1>2, <1>3, <1>4, <1>5, <1>6, <1>7, <1>8, <1>9, <1>10, <1>11, <1>12, <1>13, <1>14, <1>15, <1>16, <1>17, <1>18, <1>19, <1>20, <1>21, <1>22
     DEF Next, Control, SinkThread, SourceThread, Oob

LEMMA InitLife == Init => LifeInv
BY QueueAssumption
   DEF Init, LifeInv, SinkTyped, InCall, Watched, Referenced, Living, Leaving, One

LEMMA LifeHolds == Spec => []LifeInv
<1>1. LifeInv /\ [Next]_vars => LifeInv'
  <2>1. CASE UNCHANGED vars
    BY <2>1 DEF vars, sinkVars, flowVars, lifeVars, LifeInv, SinkTyped, InCall, Watched,
                Referenced
  <2> QED BY <2>1, LifeKept
<1> QED BY <1>1, InitLife, PTL DEF Spec

(* Once released by the application, the sink lives on for what it holds,  *)
(* with its watcher started, and neither is freed before nor forgotten.    *)
THEOREM SinkLivesLongEnough == Spec => []SinkLives
<1>1. LifeInv => SinkLives
  BY DEF LifeInv, SinkTyped, InCall, Watched, Referenced, Living, Leaving, One, SinkLives
<1> QED BY <1>1, LifeHolds, PTL

-----------------------------------------------------------------------------
(* The number of pumps that are silent.                                    *)
LEMMA SilentFinite ==
    ASSUME SinkTyped
    PROVE  IsFiniteSet(Silent) /\ Cardinality(Silent) \in Nat
<1>1. Silent \subseteq Pumps
  BY DEF SinkTyped, Silent
<1> QED BY <1>1, QueueAssumption, FS_Subset, FS_CardinalityType

LEMMA OneMoreSilent ==
    ASSUME SinkTyped, NEW p, Silent' = Silent \cup {p}
    PROVE  /\ Cardinality(Silent') >= Cardinality(Silent)
           /\ p \notin Silent => Cardinality(Silent') = Cardinality(Silent) + 1
           /\ Cardinality(Silent') \in Nat
<1>1. IsFiniteSet(Silent) /\ Cardinality(Silent) \in Nat
  BY SilentFinite
<1>2. Cardinality(Silent \cup {p}) =
        IF p \in Silent THEN Cardinality(Silent) ELSE Cardinality(Silent) + 1
  BY <1>1, FS_AddElement
<1> QED BY <1>1, <1>2

(* A uref is stored: if that exceeds the limit, the pump is blocked.       *)
LEMMA StoreBounded ==
    ASSUME LifeInv, HeldBound, pc \in {"flow", "data"}, UNCHANGED freed,
           NEW x \in Urefs \cup Flows, Store(x)
    PROVE  /\ Len(urefs') <= Bound'
           /\ pc = "flow" /\ cur.pump \in blockers' => Len(urefs') + 1 <= Bound'
<1> USE QueueAssumption DEF LifeInv, SinkTyped
<1>1. PICK n \in Nat : n = Len(urefs)
  BY LenProperties
<1>2. PICK k \in Nat : k = Cardinality(Silent)
  BY SilentFinite
<1>3. Bound = MaxLength + 2 * k /\ n <= Bound /\ MaxLength \in Nat
  BY <1>1, <1>2 DEF Bound, HeldBound
<1>4. CASE UNCHANGED <<urefs, blockers>>
  <2>1. Bound' = Bound /\ Len(urefs') = n
    BY <1>1, <1>4 DEF Bound, Silent
  <2> QED BY <1>3, <1>4, <2>1 DEF HeldBound
<1>5. CASE Hold(x)
  <2>1. Len(urefs') = n + 1
    BY <1>1, <1>5, Appended DEF Hold
  <2>2. cur.pump \in Pumps /\ cur.pump # None /\ cur.pump \notin freed
    BY DEF HeldBound
  <2>3. CASE n + 1 > max_urefs
    <3>1. blockers' = blockers \cup {cur.pump}
      BY <1>5, <2>1, <2>2, <2>3 DEF Hold
    <3>2. Silent' = Silent \cup {cur.pump}
      BY <3>1 DEF Silent
    <3>3. CASE cur.pump \in blockers
      <4>1. Silent' = Silent
        BY <3>2, <3>3 DEF Silent
      <4>2. Bound' = Bound
        BY <4>1 DEF Bound
      <4>3. pc = "data" /\ n + 1 <= Bound
        BY <1>1, <3>3 DEF HeldBound
      <4> QED BY <2>1, <4>2, <4>3
    <3>4. CASE cur.pump \notin blockers
      <4>1. Cardinality(Silent') = k + 1
        BY <1>2, <2>2, <3>2, <3>4, OneMoreSilent DEF Silent
      <4>2. Bound' = MaxLength + 2 * (k + 1)
        BY <4>1 DEF Bound
      <4> QED BY <1>3, <2>1, <4>2
    <3> QED BY <3>3, <3>4
  <2>4. CASE n + 1 <= max_urefs
    <3>1. blockers' = blockers
      BY <1>5, <2>1, <2>4 DEF Hold
    <3>2. Bound' = Bound
      BY <3>1 DEF Bound, Silent
    <3>3. pc = "flow" => cur.pump \notin blockers'
      BY <3>1 DEF HeldBound
    <3> QED BY <1>3, <2>1, <2>4, <3>2, <3>3
  <2> QED BY <1>1, <2>3, <2>4
<1> QED BY <1>4, <1>5 DEF Store

(* Nothing is held or within the limit: all pumps may send.                *)
LEMMA WithinLimit ==
    ASSUME LifeInv', pc' \notin {"flow", "data"}, Len(urefs') <= MaxLength
    PROVE  HeldBound'
<1>1. Silent' \subseteq Pumps
  BY DEF LifeInv, SinkTyped, Silent
<1>2. Cardinality(Silent') \in Nat
  BY <1>1, QueueAssumption, FS_Subset, FS_CardinalityType
<1>3. Len(urefs') \in Nat
  BY LenProperties DEF LifeInv, SinkTyped
<1>4. Bound' = MaxLength + 2 * Cardinality(Silent') /\ MaxLength \in Nat
  BY QueueAssumption DEF Bound
<1> QED BY <1>2, <1>3, <1>4 DEF HeldBound

LEMMA BoundSame ==
    ASSUME HeldBound, UNCHANGED <<urefs, blockers, freed>>,
           pc' \in {pc} \cup Leaving \cup {"idle", "output"}, UNCHANGED cur.pump
    PROVE  HeldBound'
<1>1. Bound' = Bound
  BY DEF Bound, Silent
<1> QED BY <1>1 DEF HeldBound, Leaving

(* Each step keeps the list within what the silent pumps account for.      *)
LEMMA BoundKept ==
    ASSUME None \notin Senders, LifeInv, HeldBound, Next
    PROVE  HeldBound'
<1> USE QueueAssumption DEF Rest, Calling, SinkOnly, StoreOnly, sinkVars, flowVars, lifeVars, oobVars, srcVars
<1>1. ASSUME NEW p \in Senders, Receive(p) PROVE HeldBound'
  <2>1. p \in Pumps \ (blockers \cup freed) /\ cur'.pump = p /\ pc' \in {"flow", "data"}
    BY <1>1 DEF Receive
  <2>2. UNCHANGED <<urefs, blockers, freed>>
    BY <1>1 DEF Receive
  <2>3. Bound' = Bound
    BY <2>2 DEF Bound, Silent
  <2> QED BY <2>1, <2>2, <2>3 DEF HeldBound
<1>2. ASSUME NEW v \in Flows, SetFlowDef(v) PROVE HeldBound'
  BY <1>2, BoundSame DEF SetFlowDef, Leaving
<1>3. ASSUME NEW n \in 0..MaxLength, SetMaxLength(n) PROVE HeldBound'
  BY <1>3, BoundSame DEF SetMaxLength, Leaving
<1>4. ASSUME NEW p \in Pumps, FreePump(p) PROVE HeldBound'
  <2>1. /\ pc = "idle" /\ pc' = pc /\ UNCHANGED urefs
        /\ Silent' = Silent \cup {p}
    BY <1>4 DEF FreePump, Silent
  <2>2. PICK n \in Nat : n = Len(urefs)
    BY LenProperties DEF LifeInv, SinkTyped
  <2>3. PICK k \in Nat : k = Cardinality(Silent)
    BY SilentFinite DEF LifeInv
  <2>4. PICK j \in Nat : j = Cardinality(Silent') /\ j >= k
    BY <2>1, <2>3, OneMoreSilent DEF LifeInv
  <2>5. n <= MaxLength + 2 * k /\ MaxLength \in Nat
    BY <2>2, <2>3, QueueAssumption DEF HeldBound, Bound
  <2>6. n <= MaxLength + 2 * j
    BY <2>4, <2>5
  <2> QED BY <2>1, <2>2, <2>4, <2>6 DEF HeldBound, Bound
<1>5. CASE SendFlowDef
  <2>1. /\ pc = "flow" /\ pc' = "data" /\ Store(flow_def) /\ UNCHANGED <<freed, cur>>
        /\ flow_def \in Urefs \cup Flows
    BY <1>5 DEF SendFlowDef, LifeInv, InCall
  <2>2. /\ Len(urefs') <= Bound'
        /\ cur.pump \in blockers' => Len(urefs') + 1 <= Bound'
    BY <2>1, StoreBounded
  <2> QED BY <2>1, <2>2 DEF HeldBound
<1>6. CASE SendData
  <2>1. /\ pc = "data" /\ pc' = "idle" /\ Store(cur.uref) /\ UNCHANGED freed
        /\ cur.uref \in Urefs \cup Flows
    BY <1>6 DEF SendData, LifeInv, InCall
  <2>2. Len(urefs') <= Bound'
    BY <2>1, StoreBounded
  <2> QED BY <2>1, <2>2 DEF HeldBound
<1>7. CASE Watch
  BY <1>7, BoundSame DEF Watch, Leaving
<1>8. CASE OutputHeld
  <2>1. /\ pc' = pc /\ pc = "output" /\ urefs # <<>> /\ urefs' = Tail(urefs)
        /\ UNCHANGED <<blockers, freed>>
    BY <1>8 DEF OutputHeld
  <2>2. Len(urefs) \in Nat /\ Len(urefs') = Len(urefs) - 1
    BY <2>1, Shifted DEF LifeInv, SinkTyped
  <2>3. Bound' = Bound
    BY <2>1 DEF Bound, Silent
  <2>4. Bound \in Int
    BY SilentFinite, QueueAssumption DEF LifeInv, Bound
  <2> QED BY <2>1, <2>2, <2>3, <2>4 DEF HeldBound
<1>9. CASE EndWatch
  <2>1. CASE Len(urefs) <= max_urefs
    <3>1. pc' \in {"free", "idle"} /\ urefs' = urefs
      BY <1>9 DEF EndWatch
    <3>2. Len(urefs) \in Nat /\ max_urefs \in 0..MaxLength
      BY LenProperties DEF LifeInv, SinkTyped
    <3>3. Len(urefs') <= MaxLength
      BY <2>1, <3>1, <3>2, QueueAssumption
    <3> QED BY <3>1, <3>3, WithinLimit, LifeKept
  <2>2. CASE ~(Len(urefs) <= max_urefs)
    BY <1>9, <2>2, BoundSame DEF EndWatch, Leaving
  <2> QED BY <2>1, <2>2
<1>10. CASE FreeSink
  BY <1>10, BoundSame DEF FreeSink, Leaving
<1>11. CASE ReleaseSource
  <2>1. urefs' = <<>> /\ pc' \notin {"flow", "data"}
    BY <1>11 DEF ReleaseSource
  <2>2. Len(urefs') <= MaxLength
    BY <2>1, QueueAssumption
  <2> QED BY <2>1, <2>2, WithinLimit, LifeKept
<1>12. CASE EndPush
  BY <1>12, BoundSame DEF EndPush, Leaving
<1>13. CASE AttachSink
  BY <1>13, BoundSame DEF AttachSink, Leaving
<1>14. CASE Flush
  <2>1. urefs' = <<>> /\ pc' \notin {"flow", "data"}
    BY <1>14 DEF Flush
  <2>2. Len(urefs') <= MaxLength
    BY <2>1, QueueAssumption
  <2> QED BY <2>1, <2>2, WithinLimit, LifeKept
<1>15. CASE Release
  BY <1>15, BoundSame DEF Release, Leaving
<1>16. CASE AttachSource
  BY <1>16, BoundSame DEF AttachSource, Leaving
<1>17. CASE Work
  BY <1>17, BoundSame DEF Work, Leaving
<1>18. CASE OobRequest
  BY <1>18, BoundSame DEF OobRequest, Leaving
<1>19. CASE OobSourceEnd
  BY <1>19, BoundSame DEF OobSourceEnd, Leaving
<1>20. CASE OobRefEnd
  BY <1>20, BoundSame DEF OobRefEnd, Leaving
<1>21. CASE ReleaseUser
  BY <1>21, BoundSame DEF ReleaseUser, Leaving
<1>22. CASE Request
  BY <1>22, BoundSame DEF Request, Leaving
<1> QED
  BY <1>1, <1>2, <1>3, <1>4, <1>5, <1>6, <1>7, <1>8, <1>9, <1>10, <1>11, <1>12, <1>13, <1>14, <1>15, <1>16, <1>17, <1>18, <1>19, <1>20, <1>21, <1>22
     DEF Next, Control, SinkThread, SourceThread, Oob

(* If all that is input comes from pumps, the list exceeds its limit by a  *)
(* flow definition and a data uref of each pump that was stopped, whatever *)
(* the interleaving of pumps, watcher and queue.                           *)
THEOREM HeldIsBounded ==
    ASSUME None \notin Senders
    PROVE  Spec => []BackPressure
<1>1. Init => LifeInv /\ HeldBound
  <2> SUFFICES ASSUME Init PROVE HeldBound
    BY InitLife
  <2>1. pc = "idle" /\ Silent = {} /\ urefs = <<>>
    BY DEF Init, Silent
  <2>2. Bound = MaxLength /\ Len(urefs) = 0
    BY <2>1, FS_EmptySet, QueueAssumption DEF Bound
  <2> QED BY <2>1, <2>2, QueueAssumption DEF HeldBound
<1>2. LifeInv /\ HeldBound /\ [Next]_vars => (LifeInv /\ HeldBound)'
  <2> SUFFICES ASSUME LifeInv, HeldBound, [Next]_vars PROVE (LifeInv /\ HeldBound)'
    OBVIOUS
  <2>1. CASE Next
    BY <2>1, LifeKept, BoundKept
  <2>2. CASE UNCHANGED vars
    BY <2>2 DEF vars, sinkVars, flowVars, lifeVars, LifeInv, SinkTyped, InCall, Watched,
                Referenced, HeldBound, Bound, Silent
  <2> QED BY <2>1, <2>2
<1>3. LifeInv /\ HeldBound => BackPressure
  BY DEF HeldBound, Bound, Silent, BackPressure
<1> QED BY <1>1, <1>2, <1>3, PTL DEF Spec
-----------------------------------------------------------------------------
(* The order of the urefs.  Facts about DataIn: how many data urefs there  *)
(* are in the front of a sequence.                                         *)
LEMMA DataInType ==
    ASSUME NEW s, NEW n \in Nat
    PROVE  /\ DataIn(s, n) \in Nat /\ DataIn(s, n) <= n
           /\ IsFiniteSet({i \in 1..n : s[i] \in Urefs})
<1> DEFINE A == {i \in 1..n : s[i] \in Urefs}
<1>1. IsFiniteSet(1..n) /\ Cardinality(1..n) = n /\ A \in SUBSET (1..n)
  BY FS_Interval
<1> HIDE DEF A
<1>2. IsFiniteSet(A) /\ Cardinality(A) \in Nat /\ Cardinality(A) <= n
  BY <1>1, FS_Subset, FS_CardinalityType
<1> QED BY <1>2 DEF A, DataIn

LEMMA DataInNext ==
    ASSUME NEW s, NEW n \in Nat
    PROVE  /\ DataIn(s, 0) = 0
           /\ DataIn(s, n + 1) = DataIn(s, n) + IF s[n + 1] \in Urefs THEN 1 ELSE 0
<1> DEFINE A(m) == {i \in 1..m : s[i] \in Urefs}
<1>1. A(0) = {}
  OBVIOUS
<1>2. IsFiniteSet(A(n)) /\ Cardinality(A(n)) \in Nat /\ n + 1 \notin A(n)
  <2>1. IsFiniteSet(A(n))
    BY DataInType
  <2>2. n + 1 \notin A(n)
    OBVIOUS
  <2> HIDE DEF A
  <2> QED BY <2>1, <2>2, FS_CardinalityType
<1>3. A(n + 1) = IF s[n + 1] \in Urefs THEN A(n) \cup {n + 1} ELSE A(n)
  OBVIOUS
<1>4. Cardinality(A(0)) = 0
  BY <1>1, FS_EmptySet
<1>5. Cardinality(A(n + 1)) = Cardinality(A(n)) + IF s[n + 1] \in Urefs THEN 1 ELSE 0
  <2> HIDE DEF A
  <2>1. Cardinality(A(n) \cup {n + 1}) = Cardinality(A(n)) + 1
    BY <1>2, FS_AddElement
  <2> QED BY <1>2, <1>3, <2>1
<1> QED BY <1>4, <1>5 DEF DataIn

LEMMA DataInSame ==
    ASSUME NEW s, NEW t, NEW n \in Nat, \A i \in 1..n : s[i] = t[i]
    PROVE  DataIn(s, n) = DataIn(t, n)
<1>1. {i \in 1..n : s[i] \in Urefs} = {i \in 1..n : t[i] \in Urefs}
  OBVIOUS
<1> QED BY <1>1 DEF DataIn

(* Where s goes on with x, the counts add up.                              *)
LEMMA DataInShift ==
    ASSUME NEW s, NEW x, NEW k \in Nat, NEW m \in Nat,
           \A i \in 1..m : x[i] = s[k + i]
    PROVE  DataIn(s, k + m) = DataIn(s, k) + DataIn(x, m)
<1> DEFINE A == {i \in 1..k : s[i] \in Urefs}
           B == {i \in (k + 1)..(k + m) : s[i] \in Urefs}
           C == {i \in 1..m : x[i] \in Urefs}
           D == {i \in 1..(k + m) : s[i] \in Urefs}
           f == [i \in C |-> k + i]
<1>1. D = A \cup B /\ A \cap B = {}
  OBVIOUS
<1>2. IsFiniteSet(A) /\ IsFiniteSet(C)
  BY DataInType
<1>3. Cardinality(A) \in Nat /\ Cardinality(C) \in Nat
  BY <1>2, FS_CardinalityType
<1>4. IsFiniteSet(B) /\ Cardinality(B) = Cardinality(C)
  <2>1. f \in [C -> B] /\ \A i, j \in C : f[i] = f[j] => i = j
    OBVIOUS
  <2>2. \A b \in B : b - k \in C /\ f[b - k] = b
    <3> TAKE b \in B
    <3>1. b - k \in 1..m /\ k + (b - k) = b
      OBVIOUS
    <3>2. x[b - k] = s[b]
      BY <3>1
    <3> QED BY <3>1, <3>2
  <2>3. f \in Bijection(C, B)
    BY <2>1, <2>2 DEF Bijection, Injection, IsInjective, Surjection
  <2> HIDE DEF f, B, C
  <2> QED BY <1>2, <2>3, FS_Bijection DEF ExistsBijection
<1>5. Cardinality(A \cup B) = Cardinality(A) + Cardinality(B) - Cardinality(A \cap B)
  <2> HIDE DEF A, B
  <2> QED BY <1>2, <1>4, FS_Union
<1>6. Cardinality(D) = Cardinality(A) + Cardinality(C)
  <2> HIDE DEF A, B, C, D
  <2>1. Cardinality(A \cap B) = 0
    BY <1>1, FS_EmptySet
  <2> QED BY <1>1, <1>3, <1>4, <1>5, <2>1
<1> QED BY <1>6 DEF DataIn

LEMMA DataInMore ==
    ASSUME NEW s, NEW k \in Nat, NEW m \in Nat, k <= m
    PROVE  /\ DataIn(s, k) <= DataIn(s, m)
           /\ k > 0 /\ s[k] \in Urefs => DataIn(s, k) \in 1..DataIn(s, m)
<1>1. PICK d \in Nat : m = k + d
  <2>1. m - k \in Nat /\ m = k + (m - k)
    OBVIOUS
  <2> QED BY <2>1
<1> DEFINE x == [i \in 1..d |-> s[k + i]]
<1>2. DataIn(s, m) = DataIn(s, k) + DataIn(x, d)
  <2>1. \A i \in 1..d : x[i] = s[k + i]
    OBVIOUS
  <2> HIDE DEF x
  <2> QED BY <1>1, <2>1, DataInShift
<1> HIDE DEF x
<1>3. DataIn(s, k) \in Nat /\ DataIn(x, d) \in Nat
  BY DataInType
<1>4. ASSUME k > 0, s[k] \in Urefs PROVE DataIn(s, k) > 0
  <2>1. PICK j \in Nat : k = j + 1
    <3>1. k - 1 \in Nat /\ k = (k - 1) + 1
      BY <1>4
    <3> QED BY <3>1
  <2>2. DataIn(s, k) = DataIn(s, j) + 1
    BY <1>4, <2>1, DataInNext
  <2>3. DataIn(s, j) \in Nat
    BY DataInType
  <2> QED BY <2>2, <2>3
<1>5. DataIn(s, m) \in Nat /\ DataIn(s, k) <= DataIn(s, m)
  BY <1>2, <1>3
<1> QED BY <1>3, <1>4, <1>5

(* The same of FlowAfter.                                                  *)
LEMMA FlowSame ==
    ASSUME NEW s, NEW t, NEW n \in Nat, \A i \in 1..n : s[i] = t[i],
           NEW f, NEW g, FlowAfter(s, n, f, g)
    PROVE  FlowAfter(t, n, f, g)
BY DEF FlowAfter

LEMMA FlowNext ==
    ASSUME NEW s, NEW n \in Nat, NEW f
    PROVE  /\ s[n + 1] \in Flows => FlowAfter(s, n + 1, f, s[n + 1])
           /\ s[n + 1] \notin Flows =>
                \A g : FlowAfter(s, n, f, g) => FlowAfter(s, n + 1, f, g)
<1>1. ASSUME s[n + 1] \in Flows
      PROVE  FlowAfter(s, n + 1, f, s[n + 1])
  BY <1>1 DEF FlowAfter
<1>2. ASSUME s[n + 1] \notin Flows, NEW g, FlowAfter(s, n, f, g)
      PROVE  FlowAfter(s, n + 1, f, g)
  BY <1>2 DEF FlowAfter
<1> QED BY <1>1, <1>2

LEMMA FlowBefore ==
    ASSUME NEW s, NEW k \in Nat, NEW m \in Nat, NEW f, NEW g,
           FlowAfter(s, k + m, f, g), \A i \in (k + 1)..(k + m) : s[i] \notin Flows
    PROVE  FlowAfter(s, k, f, g)
BY DEF FlowAfter

LEMMA FlowShift ==
    ASSUME NEW s, NEW x, NEW k \in Nat, NEW m \in Nat,
           \A i \in 1..m : x[i] = s[k + i],
           NEW f, NEW g, NEW h,
           FlowAfter(s, k, f, h), FlowAfter(s, k + m, f, g)
    PROVE  FlowAfter(x, m, h, g)
<1>1. CASE \A i \in (k + 1)..(k + m) : s[i] \notin Flows
  <2>1. FlowAfter(s, k, f, g)
    BY <1>1, FlowBefore
  <2>2. g = h
    BY <2>1 DEF FlowAfter
  <2>3. \A i \in 1..m : x[i] \notin Flows
    BY <1>1
  <2> QED BY <2>2, <2>3 DEF FlowAfter
<1>2. CASE \E i \in (k + 1)..(k + m) : s[i] \in Flows
  <2>1. PICK i \in 1..(k + m) : /\ s[i] \in Flows /\ g = s[i]
                                /\ \A j \in (i + 1)..(k + m) : s[j] \notin Flows
    BY <1>2 DEF FlowAfter
  <2>2. i \in (k + 1)..(k + m)
    BY <1>2, <2>1
  <2>3. i - k \in 1..m /\ x[i - k] = s[i]
    BY <2>2
  <2>4. \A j \in (i - k + 1)..m : x[j] \notin Flows
    <3> TAKE j \in (i - k + 1)..m
    <3>1. k + j \in (i + 1)..(k + m) /\ j \in 1..m
      BY <2>3
    <3> QED BY <2>1, <3>1
  <2> QED BY <2>1, <2>3, <2>4 DEF FlowAfter
<1> QED BY <1>1, <1>2

-----------------------------------------------------------------------------
(* The sequence on its way and the history, with the flow definition f in  *)
(* front of them.                                                          *)
Queued == Urefs \cup Flows
Entries == [uref : Urefs, flow : Flows \cup {None}, known : BOOLEAN]
Ordered(s, acc, f) == Listed(s, acc) /\ Told(s, acc, f)

(* A flow definition is sent.                                              *)
LEMMA FlowSent ==
    ASSUME NEW s \in Seq(Queued), NEW acc \in Seq(Entries), NEW f,
           Ordered(s, acc, f), NEW x \in Flows
    PROVE  /\ Ordered(Append(s, x), acc, f)
           /\ FlowAfter(Append(s, x), Len(Append(s, x)), f, x)
<1> DEFINE t == Append(s, x)
           n == Len(s)
<1>1. /\ t \in Seq(Queued) /\ Len(t) = n + 1 /\ n \in Nat /\ t[n + 1] = x
      /\ \A i \in 1..n : t[i] = s[i]
      /\ DOMAIN t = 1..(n + 1) /\ DOMAIN s = 1..n
  BY AppendProperties, LenProperties DEF Queued
<1> HIDE DEF t
<1>2. x \notin Urefs
  BY QueueAssumption
<1>3. ASSUME NEW i \in 0..n PROVE DataIn(t, i) = DataIn(s, i)
  BY <1>1, DataInSame
<1>4. DataIn(t, n + 1) = DataIn(t, n)
  <2>1. DataIn(t, n) \in Nat
    BY <1>1, DataInType
  <2> QED BY <1>1, <1>2, <2>1, DataInNext
<1>5. Listed(t, acc)
  <2>1. Len(acc) = DataIn(t, Len(t))
    BY <1>1, <1>3, <1>4 DEF Ordered, Listed
  <2>2. ASSUME NEW i \in 1..n, t[i] \in Urefs
        PROVE  acc[DataIn(t, i)].uref = t[i]
    BY <1>1, <1>3, <2>2 DEF Ordered, Listed
  <2> QED BY <1>1, <1>2, <2>1, <2>2 DEF Listed
<1>6. ASSUME NEW i \in 1..n, t[i] \in Urefs, acc[DataIn(t, i)].known
      PROVE  FlowAfter(t, i - 1, f, acc[DataIn(t, i)].flow)
  <2>1. FlowAfter(s, i - 1, f, acc[DataIn(t, i)].flow)
    BY <1>1, <1>3, <1>6 DEF Ordered, Told
  <2>2. i - 1 \in Nat /\ \A j \in 1..(i - 1) : s[j] = t[j]
    BY <1>1
  <2> QED BY <2>1, <2>2, FlowSame
<1>7. Told(t, acc, f)
  BY <1>1, <1>2, <1>6 DEF Told
<1>8. FlowAfter(t, n + 1, f, x)
  BY <1>1, FlowNext
<1> QED BY <1>1, <1>5, <1>7, <1>8 DEF Ordered, t

(* A data uref is input.                                                   *)
LEMMA DataSent ==
    ASSUME NEW s \in Seq(Queued), NEW acc \in Seq(Entries), NEW f,
           Ordered(s, acc, f), NEW a \in Entries,
           a.known => FlowAfter(s, Len(s), f, a.flow)
    PROVE  /\ Ordered(Append(s, a.uref), Append(acc, a), f)
           /\ \A g : FlowAfter(s, Len(s), f, g) =>
                FlowAfter(Append(s, a.uref), Len(Append(s, a.uref)), f, g)
<1> DEFINE x == a.uref
           t == Append(s, x)
           n == Len(s)
           acd == Append(acc, a)
<1>0. x \in Urefs /\ x \in Queued
  BY DEF Entries, Queued
<1>1. /\ t \in Seq(Queued) /\ Len(t) = n + 1 /\ n \in Nat /\ t[n + 1] = x
      /\ \A i \in 1..n : t[i] = s[i]
      /\ DOMAIN t = 1..(n + 1) /\ DOMAIN s = 1..n
  BY <1>0, AppendProperties, LenProperties
<1>2. /\ Len(acd) = Len(acc) + 1 /\ acd[Len(acc) + 1] = a /\ Len(acc) \in Nat
      /\ \A i \in 1..Len(acc) : acd[i] = acc[i]
  BY AppendProperties, LenProperties
<1> HIDE DEF t, acd, x
<1>3. ASSUME NEW i \in 0..n PROVE DataIn(t, i) = DataIn(s, i)
  BY <1>1, DataInSame
<1>4. Len(acc) = DataIn(s, n)
  BY DEF Ordered, Listed
<1>5. DataIn(t, n + 1) = Len(acc) + 1
  <2>1. DataIn(t, n) = Len(acc)
    BY <1>1, <1>3, <1>4
  <2> QED BY <1>0, <1>1, <2>1, DataInNext
<1>6. ASSUME NEW i \in 1..n, t[i] \in Urefs
      PROVE  /\ DataIn(t, i) = DataIn(s, i) /\ s[i] \in Urefs /\ s[i] = t[i]
             /\ acd[DataIn(t, i)] = acc[DataIn(s, i)]
  <2>1. DataIn(s, i) \in 1..DataIn(s, n)
    BY <1>1, <1>6, DataInMore
  <2> QED BY <1>1, <1>2, <1>3, <1>4, <1>6, <2>1
<1>7. Listed(t, acd)
  <2>1. ASSUME NEW i \in 1..n, t[i] \in Urefs
        PROVE  acd[DataIn(t, i)].uref = t[i]
    BY <1>1, <1>6, <2>1 DEF Ordered, Listed
  <2>2. acd[DataIn(t, n + 1)].uref = t[n + 1]
    BY <1>1, <1>2, <1>5 DEF x
  <2> QED BY <1>1, <1>2, <1>5, <2>1, <2>2 DEF Listed
<1>8. ASSUME NEW i \in 1..n, t[i] \in Urefs, acd[DataIn(t, i)].known
      PROVE  FlowAfter(t, i - 1, f, acd[DataIn(t, i)].flow)
  <2>1. FlowAfter(s, i - 1, f, acd[DataIn(t, i)].flow)
    BY <1>1, <1>6, <1>8 DEF Ordered, Told
  <2>2. i - 1 \in Nat /\ \A j \in 1..(i - 1) : s[j] = t[j]
    BY <1>1
  <2> QED BY <2>1, <2>2, FlowSame
<1>9. \A g : FlowAfter(s, n, f, g) => FlowAfter(t, n, f, g)
  BY <1>1, FlowSame
<1>10. Told(t, acd, f)
  <2>1. a.known => FlowAfter(t, (n + 1) - 1, f, a.flow)
    BY <1>1, <1>9
  <2> QED BY <1>1, <1>2, <1>5, <1>8, <2>1 DEF Told
<1>11. \A g : FlowAfter(s, n, f, g) => FlowAfter(t, n + 1, f, g)
  <2>1. t[n + 1] \notin Flows
    BY <1>0, <1>1, QueueAssumption
  <2> QED BY <1>1, <1>9, <2>1, FlowNext
<1> QED BY <1>1, <1>7, <1>10, <1>11 DEF Ordered, t, acd, x

(* The front of the sequence is output.                                    *)
LEMMA FrontOutput ==
    ASSUME NEW a \in Seq(Queued), NEW x \in Seq(Queued), NEW acc \in Seq(Entries),
           NEW f, NEW h, Ordered(a \o x, acc, f), FlowAfter(a, Len(a), f, h)
    PROVE  /\ Without(acc, DataIn(a, Len(a))) \in Seq(Entries)
           /\ Ordered(x, Without(acc, DataIn(a, Len(a))), h)
           /\ \A g : FlowAfter(a \o x, Len(a \o x), f, g) => FlowAfter(x, Len(x), h, g)
<1> DEFINE s == a \o x
           k == Len(a)
           m == Len(x)
           c == DataIn(a, k)
           rest == Without(acc, c)
<1>1. /\ k \in Nat /\ m \in Nat /\ Len(s) = k + m
      /\ DOMAIN x = 1..m /\ DOMAIN s = 1..(k + m)
      /\ \A i \in 1..k : s[i] = a[i]
      /\ \A i \in 1..m : x[i] = s[k + i]
  <2>1. /\ s \in Seq(Queued) /\ Len(s) = k + m
        /\ \A i \in 1..(k + m) : s[i] = IF i <= k THEN a[i] ELSE x[i - k]
    BY ConcatProperties
  <2> HIDE DEF s
  <2>2. k \in Nat /\ m \in Nat /\ DOMAIN x = 1..m /\ DOMAIN s = 1..(k + m)
    BY <2>1, LenProperties
  <2>3. ASSUME NEW i \in 1..m PROVE x[i] = s[k + i]
    <3>1. k + i \in 1..(k + m) /\ ~(k + i <= k) /\ (k + i) - k = i
      BY <2>2
    <3> QED BY <2>1, <3>1
  <2>4. \A i \in 1..k : s[i] = a[i]
    BY <2>1, <2>2
  <2> QED BY <2>1, <2>2, <2>3, <2>4
<1> HIDE DEF s
<1>2. c \in Nat /\ DataIn(s, k) = c
  BY <1>1, DataInType, DataInSame
<1>3. ASSUME NEW i \in 0..m
      PROVE  DataIn(s, k + i) = c + DataIn(x, i) /\ DataIn(x, i) \in Nat
  <2>1. \A j \in 1..i : x[j] = s[k + j]
    BY <1>1
  <2>0. i \in Nat
    OBVIOUS
  <2>2. DataIn(x, i) \in Nat
    BY <2>0, DataInType
  <2>3. DataIn(s, k + i) = DataIn(s, k) + DataIn(x, i)
    <3>1. k \in Nat
      BY <1>1
    <3> HIDE DEF k, m, c
    <3> QED BY <3>1, <2>0, <2>1, DataInShift
  <2> QED BY <1>2, <2>2, <2>3
<1>4. Len(acc) = c + DataIn(x, m) /\ DataIn(x, m) \in Nat
  BY <1>1, <1>3 DEF Ordered, Listed, s
<1>5. /\ rest \in Seq(Entries) /\ Len(rest) = DataIn(x, m)
      /\ \A j \in 1..DataIn(x, m) : rest[j] = acc[c + j]
  <2>1. \A j \in (c + 1)..Len(acc) : acc[j] \in Entries
    BY <1>2, <1>4, ElementOfSeq
  <2> HIDE DEF c
  <2>2. /\ SubSeq(acc, c + 1, Len(acc)) \in Seq(Entries)
        /\ Len(SubSeq(acc, c + 1, Len(acc))) =
             IF c + 1 <= Len(acc) THEN Len(acc) - (c + 1) + 1 ELSE 0
        /\ \A j \in 1..(Len(acc) - (c + 1) + 1) :
             SubSeq(acc, c + 1, Len(acc))[j] = acc[(c + 1) + j - 1]
    BY <1>2, <1>4, <2>1, SubSeqProperties
  <2>3. Len(acc) - (c + 1) + 1 = DataIn(x, m)
    BY <1>2, <1>4
  <2>4. \A j \in 1..DataIn(x, m) : (c + 1) + j - 1 = c + j
    BY <1>2
  <2> QED BY <1>2, <1>4, <2>2, <2>3, <2>4 DEF Without
<1> HIDE DEF c, rest
<1>6. ASSUME NEW i \in 1..m, x[i] \in Urefs
      PROVE  /\ k + i \in 1..(k + m) /\ s[k + i] = x[i]
             /\ rest[DataIn(x, i)] = acc[DataIn(s, k + i)]
  <2>1. DataIn(x, i) \in 1..DataIn(x, m)
    BY <1>1, <1>6, DataInMore
  <2> QED BY <1>1, <1>3, <1>5, <2>1
<1>7. Listed(x, rest)
  BY <1>1, <1>5, <1>6 DEF Ordered, Listed, s
<1>8. FlowAfter(s, k, f, h)
  BY <1>1, FlowSame
<1>9. ASSUME NEW i \in 1..m, x[i] \in Urefs, rest[DataIn(x, i)].known
      PROVE  FlowAfter(x, i - 1, h, rest[DataIn(x, i)].flow)
  <2>1. FlowAfter(s, (k + i) - 1, f, rest[DataIn(x, i)].flow)
    BY <1>1, <1>6, <1>9 DEF Ordered, Told, s
  <2>2. PICK n \in Nat : n = i - 1
    BY <1>1
  <2>3. FlowAfter(s, k + n, f, rest[DataIn(x, i)].flow)
    <3>1. (k + i) - 1 = k + n
      BY <1>1, <2>2
    <3> QED BY <2>1, <3>1
  <2>4. \A j \in 1..n : x[j] = s[k + j]
    BY <1>1, <2>2
  <2>5. FlowAfter(x, n, h, rest[DataIn(x, i)].flow)
    <3>1. k \in Nat
      BY <1>1
    <3> HIDE DEF k, m
    <3>2. PICK g : g = rest[DataIn(x, i)].flow
      OBVIOUS
    <3>3. FlowAfter(s, k + n, f, g)
      BY <2>3, <3>2
    <3>4. FlowAfter(x, n, h, g)
      BY <3>1, <1>8, <3>3, <2>4, FlowShift
    <3> QED BY <3>2, <3>4
  <2> QED BY <2>2, <2>5
<1>10. Told(x, rest, h)
  BY <1>1, <1>9 DEF Told
<1>11. \A g : FlowAfter(s, k + m, f, g) => FlowAfter(x, m, h, g)
  BY <1>1, <1>8, FlowShift
<1> QED BY <1>1, <1>5, <1>7, <1>10, <1>11 DEF Ordered, rest, c, s

(* What is behind the front is dropped.                                    *)
LEMMA RestDropped ==
    ASSUME NEW a \in Seq(Queued), NEW x \in Seq(Queued), NEW acc \in Seq(Entries),
           NEW f, Ordered(a \o x, acc, f)
    PROVE  /\ SubSeq(acc, 1, DataIn(a, Len(a))) \in Seq(Entries)
           /\ Ordered(a, SubSeq(acc, 1, DataIn(a, Len(a))), f)
           /\ \A g : FlowAfter(a \o x, Len(a \o x), f, g) =>
                \/ FlowAfter(a, Len(a), f, g)
                \/ g \in Flows /\ \E i \in 1..Len(x) : x[i] \in Flows
<1> DEFINE s == a \o x
           k == Len(a)
           m == Len(x)
           c == DataIn(a, k)
           rest == SubSeq(acc, 1, c)
<1>1. /\ k \in Nat /\ m \in Nat /\ Len(s) = k + m
      /\ DOMAIN a = 1..k /\ DOMAIN s = 1..(k + m)
      /\ \A i \in 1..k : s[i] = a[i]
      /\ \A i \in (k + 1)..(k + m) : i - k \in 1..m /\ s[i] = x[i - k]
  <2>1. /\ s \in Seq(Queued) /\ Len(s) = k + m
        /\ \A i \in 1..(k + m) : s[i] = IF i <= k THEN a[i] ELSE x[i - k]
    BY ConcatProperties
  <2> HIDE DEF s
  <2>2. k \in Nat /\ m \in Nat /\ DOMAIN a = 1..k /\ DOMAIN s = 1..(k + m)
    BY <2>1, LenProperties
  <2> QED BY <2>1, <2>2
<1> HIDE DEF s
<1>2. \A i \in 0..k : DataIn(s, i) = DataIn(a, i)
  BY <1>1, DataInSame
<1>3. c \in Nat /\ c <= Len(acc) /\ Len(acc) \in Nat
  <2>1. DataIn(s, k) <= DataIn(s, k + m)
    <3>1. k + m \in Nat /\ k <= k + m
      BY <1>1
    <3> QED BY <1>1, <3>1, DataInMore
  <2>2. c \in Nat
    BY <1>1, DataInType
  <2>3. Len(acc) = DataIn(s, k + m) /\ Len(acc) \in Nat
    BY <1>1, LenProperties DEF Ordered, Listed, s
  <2>4. DataIn(s, k) = c
    BY <1>1, <1>2
  <2> QED BY <2>1, <2>2, <2>3, <2>4
<1>4. /\ rest \in Seq(Entries) /\ Len(rest) = c
      /\ \A j \in 1..c : rest[j] = acc[j]
  <2>1. \A j \in 1..c : acc[j] \in Entries
    BY <1>3, ElementOfSeq
  <2> HIDE DEF c
  <2>2. /\ SubSeq(acc, 1, c) \in Seq(Entries)
        /\ Len(SubSeq(acc, 1, c)) = IF 1 <= c THEN c - 1 + 1 ELSE 0
        /\ \A j \in 1..(c - 1 + 1) : SubSeq(acc, 1, c)[j] = acc[1 + j - 1]
    BY <1>3, <2>1, SubSeqProperties
  <2>3. c - 1 + 1 = c /\ \A j \in 1..c : 1 + j - 1 = j
    BY <1>3
  <2> QED BY <1>3, <2>2, <2>3
<1> HIDE DEF rest
<1>5. ASSUME NEW i \in 1..k, a[i] \in Urefs
      PROVE  /\ i \in 1..(k + m) /\ s[i] = a[i]
             /\ rest[DataIn(a, i)] = acc[DataIn(s, i)]
  <2>1. DataIn(a, i) \in 1..c
    BY <1>1, <1>5, DataInMore
  <2> HIDE DEF c
  <2> QED BY <1>1, <1>2, <1>4, <2>1
<1>6. Listed(a, rest)
  BY <1>1, <1>4, <1>5 DEF Ordered, Listed, s
<1>7. ASSUME NEW i \in 1..k, a[i] \in Urefs, rest[DataIn(a, i)].known
      PROVE  FlowAfter(a, i - 1, f, rest[DataIn(a, i)].flow)
  <2>1. FlowAfter(s, i - 1, f, rest[DataIn(a, i)].flow)
    BY <1>1, <1>5, <1>7 DEF Ordered, Told, s
  <2>2. i - 1 \in Nat /\ \A j \in 1..(i - 1) : s[j] = a[j]
    BY <1>1
  <2> QED BY <2>1, <2>2, FlowSame
<1>8. Told(a, rest, f)
  BY <1>1, <1>7 DEF Told
<1>9. ASSUME NEW g, FlowAfter(s, k + m, f, g)
      PROVE  \/ FlowAfter(a, k, f, g)
             \/ g \in Flows /\ \E i \in 1..m : x[i] \in Flows
  <2>1. CASE \A i \in (k + 1)..(k + m) : s[i] \notin Flows
    <3>1. FlowAfter(s, k, f, g)
      BY <1>1, <1>9, <2>1, FlowBefore
    <3> QED BY <1>1, <3>1, FlowSame
  <2>2. CASE \E i \in (k + 1)..(k + m) : s[i] \in Flows
    <3>1. \E i \in 1..m : x[i] \in Flows
      BY <1>1, <2>2
    <3>2. \E i \in 1..(k + m) : s[i] \in Flows
      BY <1>1, <2>2
    <3>3. g \in Flows
      BY <1>9, <3>2 DEF FlowAfter
    <3> QED BY <3>1, <3>3
  <2> QED BY <2>1, <2>2
<1> QED BY <1>1, <1>4, <1>6, <1>8, <1>9 DEF Ordered, rest, s

-----------------------------------------------------------------------------
(* The urefs in the queue and held, and all that is behind the queue.      *)
Stored == uqueue \o urefs
Behind ==
    (urefs \o (IF pc = "flow" THEN <<flow_def>> ELSE <<>>))
           \o (IF cur.uref # None THEN <<cur.uref>> ELSE <<>>)

OrderTyped ==
    /\ uqueue \in Seq(Queued) /\ accepted \in Seq(Entries)
    /\ src_flow \in Flows \cup {None}
    /\ flow_def_sent \in BOOLEAN /\ dropped \in BOOLEAN
    /\ cur.uref # None => pc \in {"flow", "data"}

(* The flow definition that is known to be behind all that is on its way.  *)
Current ==
    pc = "flow" \/ (~dropped /\ (flow_def_sent \/ flow_def = None)) =>
      FlowAfter(Coming, Len(Coming), src_flow, flow_def)

OrderInv == OrderTyped /\ Ordered(Coming, accepted, src_flow) /\ Current

(* The end of source comes after the sink is through.                      *)
Past == {"release", "push", "gone"}
Messages == {"REQUEST", "SOURCE_END", "REF_END"}
EndInv ==
    /\ downstream_oob \in Seq(Messages)
    /\ \A i \in DOMAIN downstream_oob :
         downstream_oob[i] = "SOURCE_END" => pc \in Past
    /\ ended => pc \in Past /\ uqueue = <<>>

(* Concatenation under a name of its own, which provers do not take apart. *)
Joined(a, b) == a \o b

LEMMA JoinedThree ==
    ASSUME NEW S, NEW a \in Seq(S), NEW b \in Seq(S), NEW c \in Seq(S)
    PROVE  Joined(Joined(a, b), c) = Joined(a, Joined(b, c))
BY ConcatAssociative, SMTT(30) DEF Joined

LEMMA JoinedFour ==
    ASSUME NEW S, NEW a \in Seq(S), NEW b \in Seq(S), NEW c \in Seq(S), NEW d \in Seq(S)
    PROVE  Joined(Joined(Joined(a, b), c), d) = Joined(a, Joined(Joined(b, c), d))
<1>1. \A x, y, z \in Seq(S) : Joined(Joined(x, y), z) = Joined(x, Joined(y, z))
  BY JoinedThree
<1>2. Joined(b, c) \in Seq(S)
  BY ConcatProperties DEF Joined
<1> QED BY <1>1, <1>2

LEMMA ComingParts ==
    ASSUME LifeInv, OrderTyped
    PROVE  /\ Coming \in Seq(Queued) /\ Stored \in Seq(Queued) /\ Behind \in Seq(Queued)
           /\ Coming = uqueue \o Behind
           /\ pc = "flow" => Coming = Append(Append(Stored, flow_def), cur.uref)
           /\ pc = "data" => Coming = Append(Stored, cur.uref)
           /\ pc \notin {"flow", "data"} => Coming = Stored /\ Behind = urefs
<1> USE DEF LifeInv, SinkTyped, InCall, OrderTyped
<1> DEFINE C == IF pc = "flow" THEN <<flow_def>> ELSE <<>>
           D == IF cur.uref # None THEN <<cur.uref>> ELSE <<>>
<1>1. /\ uqueue \in Seq(Queued) /\ urefs \in Seq(Queued)
      /\ C \in Seq(Queued) /\ D \in Seq(Queued)
  <2>1. uqueue \in Seq(Queued) /\ urefs \in Seq(Queued)
    BY DEF Queued
  <2>2. C \in Seq(Queued)
    <3>1. CASE pc = "flow"
      <4>1. flow_def \in Queued /\ C = <<flow_def>>
        BY <3>1 DEF Queued
      <4> QED BY <4>1
    <3>2. CASE pc # "flow"
      BY <3>2, EmptySeq
    <3> QED BY <3>1, <3>2
  <2>3. D \in Seq(Queued)
    <3>1. CASE cur.uref # None
      <4>1. cur.uref \in Queued /\ D = <<cur.uref>>
        BY <3>1 DEF Queued
      <4> QED BY <4>1
    <3>2. CASE cur.uref = None
      BY <3>2, EmptySeq
    <3> QED BY <3>1, <3>2
  <2> QED BY <2>1, <2>2, <2>3
<1>2. Coming = ((uqueue \o urefs) \o C) \o D /\ Behind = (urefs \o C) \o D
  BY DEF Coming, Behind
<1>3. /\ pc = "flow" => C = <<flow_def>> /\ flow_def \in Queued
      /\ pc # "flow" => C = <<>>
      /\ pc \in {"flow", "data"} => D = <<cur.uref>> /\ cur.uref \in Queued
      /\ pc \notin {"flow", "data"} => D = <<>>
  BY QueueAssumption DEF Queued
<1> HIDE DEF C, D
<1>4. /\ urefs \o C \in Seq(Queued) /\ Stored \in Seq(Queued)
  BY <1>1, ConcatProperties DEF Stored
<1>5. Stored \o C \in Seq(Queued) /\ Behind \in Seq(Queued)
  BY <1>1, <1>2, <1>4, ConcatProperties
<1>6. Coming \in Seq(Queued)
  BY <1>1, <1>2, <1>5, ConcatProperties DEF Stored
<1>7. Coming = uqueue \o Behind
  <2>1. /\ Coming = Joined(Joined(Joined(uqueue, urefs), C), D)
        /\ Behind = Joined(Joined(urefs, C), D)
    BY <1>2 DEF Joined
  <2>2. Coming = Joined(uqueue, Behind)
    BY <1>1, <2>1, JoinedFour
  <2> QED BY <2>2 DEF Joined
<1>8. Stored \o <<>> = Stored /\ urefs \o <<>> = urefs
  BY <1>1, <1>4, ConcatEmptySeq
<1>9. ASSUME pc = "flow"
       PROVE  Coming = Append(Append(Stored, flow_def), cur.uref)
  <2>1. Stored \o C = Append(Stored, flow_def)
    BY <1>3, <1>4, <1>9, AppendIsConcat
  <2>2. (Stored \o C) \o D = Append(Stored \o C, cur.uref)
    BY <1>3, <1>5, <1>9, AppendIsConcat
  <2> QED BY <1>2, <2>1, <2>2 DEF Stored
<1>10. ASSUME pc = "data"
       PROVE  Coming = Append(Stored, cur.uref)
  <2>1. Stored \o D = Append(Stored, cur.uref)
    BY <1>3, <1>4, <1>10, AppendIsConcat
  <2> QED BY <1>2, <1>3, <1>8, <1>10, <2>1 DEF Stored
<1>11. pc \notin {"flow", "data"} => Coming = Stored /\ Behind = urefs
  BY <1>2, <1>3, <1>8 DEF Stored
<1> QED BY <1>2, <1>4, <1>5, <1>6, <1>7, <1>9, <1>10, <1>11

LEMMA ComingPrimed ==
    (LifeInv' /\ OrderTyped') =>
       (/\ Coming \in Seq(Queued) /\ Stored \in Seq(Queued) /\ Behind \in Seq(Queued)
        /\ Coming = uqueue \o Behind
        /\ pc = "flow" => Coming = Append(Append(Stored, flow_def), cur.uref)
        /\ pc = "data" => Coming = Append(Stored, cur.uref)
        /\ pc \notin {"flow", "data"} => Coming = Stored /\ Behind = urefs)'
<1>1. (LifeInv /\ OrderTyped) =>
       (/\ Coming \in Seq(Queued) /\ Stored \in Seq(Queued) /\ Behind \in Seq(Queued)
        /\ Coming = uqueue \o Behind
        /\ pc = "flow" => Coming = Append(Append(Stored, flow_def), cur.uref)
        /\ pc = "data" => Coming = Append(Stored, cur.uref)
        /\ pc \notin {"flow", "data"} => Coming = Stored /\ Behind = urefs)
  BY ComingParts
<1> QED BY <1>1, PTL

(* A uref is stored behind all others, in the queue or in the list.        *)
LEMMA StoreAppends ==
    ASSUME uqueue \in Seq(Queued), urefs \in Seq(Queued), NEW x \in Queued, Store(x)
    PROVE  uqueue' \in Seq(Queued) /\ Stored' = Append(Stored, x)
<1>1. Stored \in Seq(Queued) /\ <<x>> \in Seq(Queued)
  BY ConcatProperties DEF Stored
<1>2. Append(Stored, x) = Stored \o <<x>>
  BY <1>1, AppendIsConcat
<1>3. CASE urefs' = Append(urefs, x) /\ UNCHANGED uqueue
  <2>1. Append(urefs, x) = urefs \o <<x>>
    BY AppendIsConcat
  <2>2. (uqueue \o urefs) \o <<x>> = uqueue \o (urefs \o <<x>>)
    BY <1>1, ConcatAssociative
  <2> QED BY <1>2, <1>3, <2>1, <2>2 DEF Stored
<1>4. CASE urefs = <<>> /\ uqueue' = Append(uqueue, x) /\ UNCHANGED urefs
  <2>1. uqueue' \in Seq(Queued)
    BY <1>4, AppendProperties
  <2>2. Stored = uqueue /\ Stored' = uqueue'
    BY <1>4, <2>1, ConcatEmptySeq DEF Stored
  <2> QED BY <1>4, <2>1, <2>2
<1> QED BY <1>3, <1>4 DEF Store, Hold

(* The first held uref goes to the end of the queue, which is where it is. *)
LEMMA OutputKeeps ==
    ASSUME uqueue \in Seq(Queued), urefs \in Seq(Queued), OutputHeld
    PROVE  uqueue' \in Seq(Queued) /\ Stored' = Stored
<1> DEFINE h == Head(urefs)
<1>1. /\ urefs # <<>> /\ urefs' = Tail(urefs) /\ uqueue' = Append(uqueue, h)
      /\ h \in Queued /\ Tail(urefs) \in Seq(Queued)
  BY HeadTailProperties DEF OutputHeld
<1>2. <<h>> \in Seq(Queued)
  BY <1>1
<1>3. uqueue' = uqueue \o <<h>> /\ uqueue' \in Seq(Queued)
  BY <1>1, AppendIsConcat, AppendProperties
<1>4. urefs = <<h>> \o Tail(urefs)
  <2> DEFINE n == Len(urefs)
  <2>1. n \in Nat /\ n >= 1
    BY <1>1, EmptySeq
  <2>2. SubSeq(urefs, 1, n) = <<urefs[1]>> \o SubSeq(urefs, 1 + 1, n)
    BY <2>1, SubSeqRecursiveFirst
  <2>3. SubSeq(urefs, 1, n) = urefs /\ Tail(urefs) = SubSeq(urefs, 2, n)
    BY <1>1, SubSeqFull, TailIsSubSeq
  <2>4. h = urefs[1]
    BY <1>1
  <2> QED BY <2>2, <2>3, <2>4
<1>5. (uqueue \o <<h>>) \o Tail(urefs) = uqueue \o (<<h>> \o Tail(urefs))
  BY <1>1, <1>2, ConcatAssociative
<1> QED BY <1>1, <1>3, <1>4, <1>5 DEF Stored

(* Steps that show nothing of what is on its way.                          *)
LEMMA OrderSame ==
    ASSUME LifeInv, OrderInv, LifeInv', OrderTyped',
           Coming' = Coming, UNCHANGED <<accepted, src_flow>>,
           Current'
    PROVE  OrderInv'
BY DEF OrderInv

(* The front a of what is on its way is output.                            *)
LEMMA OrderOutput ==
    ASSUME LifeInv, OrderInv, LifeInv', OrderTyped',
           NEW a \in Seq(Queued), Coming = a \o Coming',
           accepted' = Without(accepted, DataIn(a, Len(a))),
           FlowAfter(a, Len(a), src_flow, src_flow'),
           UNCHANGED <<flow_def, flow_def_sent, dropped>>,
           pc' = "flow" => pc = "flow"
    PROVE  OrderInv'
<1>1. Coming' \in Seq(Queued) /\ accepted \in Seq(Entries)
  BY ComingPrimed DEF OrderInv, OrderTyped
<1>2. Ordered(a \o Coming', accepted, src_flow)
  BY DEF OrderInv
<1>3. /\ Ordered(Coming', accepted', src_flow')
      /\ \A g : FlowAfter(a \o Coming', Len(a \o Coming'), src_flow, g) =>
                  FlowAfter(Coming', Len(Coming'), src_flow', g)
  BY <1>1, <1>2, FrontOutput
<1>4. Current'
  BY <1>3 DEF OrderInv, Current
<1> QED BY <1>3, <1>4 DEF OrderInv

LEMMA InitOrder == Init => OrderInv /\ EndInv
<1> SUFFICES ASSUME Init PROVE OrderInv /\ EndInv
  OBVIOUS
<1>1. OrderTyped /\ EndInv
  <2>1. OrderTyped
    BY EmptySeq DEF Init, OrderTyped
  <2>2. EndInv
    BY EmptySeq DEF Init, EndInv
  <2> QED BY <2>1, <2>2
<1>2. Coming = <<>>
  BY DEF Init, Coming
<1>3. DataIn(Coming, 0) = 0
  BY DataInNext
<1>4. Ordered(Coming, accepted, src_flow)
  BY <1>2, <1>3 DEF Init, Ordered, Listed, Told
<1>5. Current
  BY <1>2 DEF Init, Current, FlowAfter
<1> QED BY <1>1, <1>4, <1>5 DEF OrderInv

(* A uref is input, behind its flow definition if that is not sent.        *)
LEMMA ReceiveOrder ==
    ASSUME LifeInv, OrderInv, LifeInv', NEW p \in Senders, Receive(p)
    PROVE  OrderInv'
<1>1. PICK u \in Urefs : /\ cur' = [pump |-> p, uref |-> u]
                         /\ accepted' = Append(accepted, [uref |-> u, flow |-> flow_def,
                                                          known |-> ~dropped])
  BY DEF Receive
<1>2. /\ pc = "idle"
      /\ pc' = IF ~flow_def_sent /\ flow_def # None THEN "flow" ELSE "data"
      /\ UNCHANGED <<uqueue, urefs, flow_def, flow_def_sent, dropped, src_flow>>
  BY DEF Receive, sinkVars, flowVars, srcVars
<1> DEFINE a == [uref |-> u, flow |-> flow_def, known |-> ~dropped]
<1>3. a \in Entries /\ a.uref = u /\ a.flow = flow_def /\ a.known = ~dropped
  BY DEF Entries, LifeInv, SinkTyped, OrderInv, OrderTyped
<1>4. accepted \in Seq(Entries) /\ accepted' = Append(accepted, a) /\ accepted' \in Seq(Entries)
  BY <1>1, <1>3, AppendProperties DEF OrderInv, OrderTyped
<1>5. OrderTyped'
  BY <1>1, <1>2, <1>4 DEF OrderInv, OrderTyped
<1>6. /\ Stored \in Seq(Queued) /\ Coming = Stored /\ Stored' = Stored
      /\ Ordered(Stored, accepted, src_flow)
  BY <1>2, ComingParts DEF OrderInv, Stored
<1> HIDE DEF a
<1>7. CASE ~flow_def_sent /\ flow_def # None
  <2> DEFINE s == Append(Stored, flow_def)
  <2>1. flow_def \in Flows /\ flow_def \in Queued
    BY <1>7 DEF LifeInv, SinkTyped, Queued
  <2>2. s \in Seq(Queued) /\ Ordered(s, accepted, src_flow)
        /\ FlowAfter(s, Len(s), src_flow, flow_def)
    BY <1>4, <1>6, <2>1, FlowSent, AppendProperties
  <2>3. Coming' = Append(s, u)
    BY <1>1, <1>2, <1>5, <1>6, <1>7, ComingPrimed
  <2> HIDE DEF s
  <2>4. /\ Ordered(Append(s, u), accepted', src_flow)
        /\ FlowAfter(Append(s, u), Len(Append(s, u)), src_flow, flow_def)
    BY <1>3, <1>4, <2>2, DataSent
  <2> QED BY <1>2, <1>5, <2>3, <2>4 DEF OrderInv, Current
<1>8. CASE ~(~flow_def_sent /\ flow_def # None)
  <2>1. Coming' = Append(Stored, u)
    BY <1>1, <1>2, <1>5, <1>6, <1>8, ComingPrimed
  <2>2. ~dropped => FlowAfter(Stored, Len(Stored), src_flow, flow_def)
    BY <1>6, <1>8 DEF OrderInv, OrderTyped, Current
  <2>3. /\ Ordered(Append(Stored, u), accepted', src_flow)
        /\ ~dropped => FlowAfter(Append(Stored, u), Len(Append(Stored, u)), src_flow, flow_def)
    BY <1>3, <1>4, <1>6, <2>2, DataSent
  <2> QED BY <1>2, <1>5, <1>8, <2>1, <2>3 DEF OrderInv, Current
<1> QED BY <1>7, <1>8

LEMMA SendOrder ==
    ASSUME LifeInv, OrderInv, LifeInv', SendFlowDef \/ SendData
    PROVE  OrderInv'
<1>1. uqueue \in Seq(Queued) /\ urefs \in Seq(Queued) /\ Stored \in Seq(Queued)
  BY ComingParts DEF OrderInv, OrderTyped, LifeInv, SinkTyped, Queued
<1>2. UNCHANGED <<accepted, src_flow, flow_def, dropped>>
  BY DEF SendFlowDef, SendData, StoreOnly, srcVars
<1>3. CASE SendFlowDef
  <2>1. /\ pc = "flow" /\ pc' = "data" /\ UNCHANGED cur /\ flow_def_sent'
        /\ flow_def_sent' \in BOOLEAN
        /\ flow_def \in Queued /\ Store(flow_def)
    BY <1>3 DEF SendFlowDef, LifeInv, InCall, Queued
  <2>2. uqueue' \in Seq(Queued) /\ Stored' = Append(Stored, flow_def)
    BY <1>1, <2>1, StoreAppends
  <2>3. OrderTyped'
    BY <1>2, <2>1, <2>2 DEF OrderInv, OrderTyped
  <2>4. Coming' = Append(Stored', cur.uref)
    BY <2>1, <2>3, ComingPrimed
  <2>5. Coming = Append(Append(Stored, flow_def), cur.uref)
    BY <2>1, ComingParts DEF OrderInv
  <2>6. Coming' = Coming
    BY <2>2, <2>4, <2>5
  <2>7. FlowAfter(Coming, Len(Coming), src_flow, flow_def)
    <3>1. pc = "flow" /\ Current
      BY <2>1 DEF OrderInv
    <3> HIDE DEF Coming
    <3> QED BY <3>1, Zenon DEF Current
  <2>8. Current'
    BY <1>2, <2>6, <2>7 DEF Current
  <2> QED BY <1>2, <2>3, <2>6, <2>8 DEF OrderInv
<1>4. CASE SendData
  <2>1. /\ pc = "data" /\ pc' = "idle" /\ cur'.uref = None
        /\ UNCHANGED flow_def_sent
        /\ cur.uref \in Queued /\ Store(cur.uref)
    BY <1>4 DEF SendData, LifeInv, InCall, Queued
  <2>2. uqueue' \in Seq(Queued) /\ Stored' = Append(Stored, cur.uref)
    BY <1>1, <2>1, StoreAppends
  <2>3. OrderTyped'
    BY <1>2, <2>1, <2>2 DEF OrderInv, OrderTyped
  <2>4. Coming' = Stored'
    BY <2>1, <2>3, ComingPrimed
  <2>5. Coming = Append(Stored, cur.uref)
    BY <2>1, ComingParts DEF OrderInv
  <2>6. Coming' = Coming
    BY <2>2, <2>4, <2>5
  <2>7. Current'
    BY <1>2, <2>1, <2>6 DEF OrderInv, Current
  <2> QED BY <1>2, <2>3, <2>6, <2>7 DEF OrderInv
<1> QED BY <1>3, <1>4

LEMMA OutputOrder ==
    ASSUME LifeInv, OrderInv, LifeInv', OutputHeld
    PROVE  OrderInv'
<1>1. uqueue \in Seq(Queued) /\ urefs \in Seq(Queued)
  BY DEF OrderInv, OrderTyped, LifeInv, SinkTyped, Queued
<1>2. uqueue' \in Seq(Queued) /\ Stored' = Stored
  BY <1>1, OutputKeeps
<1>3. /\ pc = "output" /\ pc' = "output"
      /\ UNCHANGED <<cur, flow_def, flow_def_sent, dropped, accepted, src_flow>>
  BY DEF OutputHeld, flowVars, srcVars
<1>4. OrderTyped'
  BY <1>2, <1>3 DEF OrderInv, OrderTyped
<1>5. Coming' = Coming
  BY <1>2, <1>3, <1>4, ComingParts, ComingPrimed DEF OrderInv
<1> QED BY <1>3, <1>4, <1>5 DEF OrderInv, Current

(* What is held is dropped, and perhaps a flow definition with it.         *)
LEMMA FlushOrder ==
    ASSUME LifeInv, OrderInv, LifeInv', Flush
    PROVE  OrderInv'
<1>1. /\ uqueue \in Seq(Queued) /\ urefs \in Seq(Queued) /\ accepted \in Seq(Entries)
      /\ Coming = uqueue \o urefs /\ Ordered(uqueue \o urefs, accepted, src_flow)
  BY ComingParts DEF OrderInv, OrderTyped, LifeInv, SinkTyped, Queued, Flush, Calling, Stored
<1>2. /\ pc = "idle" /\ pc' = "idle" /\ urefs' = <<>>
      /\ accepted' = SubSeq(accepted, 1, DataIn(uqueue, Len(uqueue)))
      /\ UNCHANGED <<cur, uqueue, flow_def, flow_def_sent, src_flow>>
  BY DEF Flush, Calling, Rest, srcVars
<1>3. /\ dropped' \in BOOLEAN
      /\ ~dropped' => ~dropped /\ ~(flow_def_sent /\ Range(urefs) \cap Flows # {})
  BY DEF Flush, OrderInv, OrderTyped
<1>4. /\ accepted' \in Seq(Entries) /\ Ordered(uqueue, accepted', src_flow)
      /\ \A g : FlowAfter(Coming, Len(Coming), src_flow, g) =>
           \/ FlowAfter(uqueue, Len(uqueue), src_flow, g)
           \/ g \in Flows /\ \E i \in 1..Len(urefs) : urefs[i] \in Flows
  BY <1>1, <1>2, RestDropped
<1>5. OrderTyped'
  BY <1>3, <1>2, <1>4 DEF OrderInv, OrderTyped
<1>6. Coming' = uqueue
  <2>1. Coming' = Stored'
    BY <1>2, <1>5, ComingPrimed
  <2> QED BY <1>1, <1>2, <2>1, ConcatEmptySeq DEF Stored
<1>7. Current'
  <2> SUFFICES ASSUME ~dropped', flow_def_sent \/ flow_def = None
               PROVE  FlowAfter(uqueue, Len(uqueue), src_flow, flow_def)
    BY <1>2, <1>6 DEF Current
  <2>1. FlowAfter(Coming, Len(Coming), src_flow, flow_def)
    BY <1>3 DEF OrderInv, Current
  <2>2. ASSUME flow_def \in Flows, NEW i \in 1..Len(urefs), urefs[i] \in Flows
        PROVE  FALSE
    <3>1. flow_def_sent
      BY <2>2, QueueAssumption
    <3>2. urefs[i] \in Range(urefs)
      BY <1>1, LenProperties DEF Range
    <3> QED BY <1>3, <2>2, <3>1, <3>2
  <2> QED BY <1>4, <2>1, <2>2
<1> QED BY <1>2, <1>4, <1>5, <1>6, <1>7 DEF OrderInv

(* The source outputs one uref.                                            *)
LEMMA WorkOrder ==
    ASSUME LifeInv, OrderInv, LifeInv', Work
    PROVE  OrderInv'
<1> DEFINE h == Head(uqueue)
           a == <<h>>
<1>1. /\ uqueue \in Seq(Queued) /\ uqueue # <<>> /\ uqueue' = Tail(uqueue)
      /\ accepted \in Seq(Entries) /\ src_flow \in Flows \cup {None}
      /\ UNCHANGED <<pc, cur, urefs, flow_def, flow_def_sent, dropped>>
  BY DEF Work, SinkOnly, sinkVars, flowVars, OrderInv, OrderTyped
<1>2. h \in Queued /\ uqueue' \in Seq(Queued) /\ a \in Seq(Queued)
  BY <1>1, HeadTailProperties
<1>3. Len(a) = 1 /\ a[1] = h
  OBVIOUS
<1>4. Behind' = Behind /\ Behind \in Seq(Queued)
  BY <1>1, ComingParts DEF OrderInv, Behind
<1>5. Coming = Joined(uqueue, Behind) /\ uqueue = Joined(a, uqueue')
  <2>1. Coming = uqueue \o Behind
    BY ComingParts DEF OrderInv
  <2>2. uqueue = <<h>> \o Tail(uqueue)
    <3> DEFINE n == Len(uqueue)
    <3>1. n \in Nat /\ n >= 1
      BY <1>1, EmptySeq
    <3>2. SubSeq(uqueue, 1, n) = <<uqueue[1]>> \o SubSeq(uqueue, 1 + 1, n)
      BY <1>1, <3>1, SubSeqRecursiveFirst
    <3>3. SubSeq(uqueue, 1, n) = uqueue /\ Tail(uqueue) = SubSeq(uqueue, 2, n)
      BY <1>1, SubSeqFull, TailIsSubSeq
    <3> QED BY <1>1, <3>2, <3>3
  <2> QED BY <1>1, <2>1, <2>2 DEF Joined
<1>6. DataIn(a, 1) = IF h \in Urefs THEN 1 ELSE 0
  BY <1>3, DataInNext
<1>7. /\ accepted' = Without(accepted, DataIn(a, Len(a)))
      /\ accepted' \in Seq(Entries)
  <2>1. CASE h \in Flows
    <3>1. h \notin Urefs /\ accepted' = accepted
      BY <1>1, <2>1, QueueAssumption DEF Work
    <3>2. SubSeq(accepted, 0 + 1, Len(accepted)) = accepted
      BY <1>1, SubSeqFull
    <3> QED BY <1>1, <1>3, <1>6, <3>1, <3>2 DEF Without
  <2>2. CASE h \notin Flows
    <3>1. h \in Urefs /\ accepted' = Tail(accepted)
      BY <1>1, <1>2, <2>2 DEF Work, Queued
    <3>2. accepted # <<>>
      <4>1. Coming \in Seq(Queued) /\ 1 \in 1..Len(Coming) /\ Coming[1] = h
        <5>1. Len(uqueue) \in Nat /\ Len(uqueue) >= 1 /\ Len(Behind) \in Nat
          BY <1>1, <1>4, EmptySeq, LenProperties
        <5>2. /\ Coming \in Seq(Queued) /\ Len(Coming) = Len(uqueue) + Len(Behind)
              /\ Coming[1] = uqueue[1]
          BY <1>1, <1>4, <1>5, <5>1, ConcatProperties DEF Joined
        <5> QED BY <1>1, <5>1, <5>2
      <4>2. DataIn(Coming, 1) \in 1..DataIn(Coming, Len(Coming))
        BY <3>1, <4>1, LenProperties, DataInMore
      <4>3. Len(accepted) = DataIn(Coming, Len(Coming))
        BY DEF OrderInv, Ordered, Listed
      <4> QED BY <4>2, <4>3
    <3>3. Tail(accepted) = SubSeq(accepted, 1 + 1, Len(accepted)) /\ Tail(accepted) \in Seq(Entries)
      BY <1>1, <3>2, TailIsSubSeq, HeadTailProperties
    <3> QED BY <1>3, <1>6, <3>1, <3>3 DEF Without
  <2> QED BY <2>1, <2>2
<1>8. FlowAfter(a, Len(a), src_flow, src_flow') /\ src_flow' \in Flows \cup {None}
  BY <1>1, <1>3 DEF Work, FlowAfter
<1>9. OrderTyped'
  BY <1>1, <1>2, <1>7, <1>8 DEF OrderInv, OrderTyped
<1>10. Coming' = Joined(uqueue', Behind')
  BY <1>9, ComingPrimed DEF Joined
<1>11. Coming = a \o Coming'
  <2> HIDE DEF a
  <2>1. Joined(Joined(a, uqueue'), Behind) = Joined(a, Joined(uqueue', Behind))
    BY <1>2, <1>4, JoinedThree
  <2> QED BY <1>4, <1>5, <1>10, <2>1 DEF Joined
<1> HIDE DEF a
<1> QED BY <1>1, <1>2, <1>7, <1>8, <1>9, <1>11, OrderOutput

(* The source outputs all that is in the queue.                            *)
LEMMA DrainOrder ==
    ASSUME LifeInv, OrderInv, LifeInv', Drain, Behind' = Behind,
           cur'.uref # None => pc' \in {"flow", "data"}, pc' = "flow" => pc = "flow",
           UNCHANGED <<flow_def, flow_def_sent, dropped>>
    PROVE  OrderInv'
<1>1. /\ uqueue \in Seq(Queued) /\ accepted \in Seq(Entries) /\ uqueue' = <<>>
      /\ accepted' = Without(accepted, DataIn(uqueue, Len(uqueue)))
      /\ src_flow' \in Flows \cup {None}
      /\ FlowAfter(uqueue, Len(uqueue), src_flow, src_flow')
  BY DEF OrderInv, OrderTyped, Drain
<1>2. Coming = uqueue \o Behind /\ Behind \in Seq(Queued)
  BY ComingParts DEF OrderInv
<1>3. accepted' \in Seq(Entries)
  BY <1>1, <1>2, FrontOutput DEF OrderInv
<1>4. OrderTyped'
  BY <1>1, <1>3, EmptySeq DEF OrderInv, OrderTyped
<1>5. Coming' = Behind
  <2>1. Coming' = <<>> \o Behind
    BY <1>1, <1>4, ComingPrimed
  <2> QED BY <1>2, <2>1, ConcatEmptySeq
<1> QED BY <1>1, <1>2, <1>4, <1>5, OrderOutput

(* Steps that move nothing of what is on its way.                          *)
LEMMA OrderStill ==
    ASSUME LifeInv, OrderInv, LifeInv',
           UNCHANGED <<cur, uqueue, urefs, flow_def, flow_def_sent, dropped, src_flow, accepted>>,
           pc' = pc \/ {pc, pc'} \cap {"flow", "data"} = {}
    PROVE  OrderInv'
<1>1. OrderTyped'
  BY DEF OrderInv, OrderTyped
<1>2. pc' = "flow" <=> pc = "flow"
  OBVIOUS
<1>3. Coming' = Coming
  BY <1>2 DEF Coming
<1>4. Current'
  BY <1>2, <1>3 DEF OrderInv, Current
<1> QED BY <1>1, <1>3, <1>4, OrderSame

LEMMA OrderKept ==
    ASSUME LifeInv, OrderInv, Next
    PROVE  OrderInv'
<1> LifeInv'
  BY LifeKept
<1> USE DEF SinkOnly, Rest, Calling, sinkVars, flowVars, lifeVars, oobVars, srcVars
<1>1. ASSUME NEW p \in Senders, Receive(p) PROVE OrderInv'
  BY <1>1, ReceiveOrder
<1>2. ASSUME NEW v \in Flows, SetFlowDef(v) PROVE OrderInv'
  <2>1. /\ pc = "idle" /\ pc' = "idle" /\ flow_def' # None
        /\ flow_def_sent' = FALSE /\ dropped' = FALSE
        /\ UNCHANGED <<cur, uqueue, urefs, src_flow, accepted>>
    BY <1>2, QueueAssumption DEF SetFlowDef
  <2>2. OrderTyped'
    BY <2>1 DEF OrderInv, OrderTyped
  <2>3. Coming' = Coming
    BY <2>1 DEF Coming
  <2>4. Current'
    BY <2>1 DEF Current
  <2> QED BY <2>1, <2>2, <2>3, <2>4, OrderSame
<1>3. ASSUME NEW n \in 0..MaxLength, SetMaxLength(n) PROVE OrderInv'
  BY <1>3, OrderStill DEF SetMaxLength
<1>4. ASSUME NEW p \in Pumps, FreePump(p) PROVE OrderInv'
  BY <1>4, OrderStill DEF FreePump
<1>5. CASE SendFlowDef \/ SendData
  BY <1>5, SendOrder
<1>6. CASE Watch
  BY <1>6, OrderStill DEF Watch
<1>7. CASE OutputHeld
  BY <1>7, OutputOrder
<1>8. CASE EndWatch
  BY <1>8, OrderStill DEF EndWatch
<1>9. CASE FreeSink
  BY <1>9, OrderStill DEF FreeSink
<1>10. CASE ReleaseSource
  <2>1. /\ pc = "release" /\ pc' \in {"push", "gone"} /\ urefs' = urefs
        /\ UNCHANGED <<cur, flow_def, flow_def_sent, dropped>>
    BY <1>10 DEF ReleaseSource, LifeInv, Referenced, Leaving
  <2>2. CASE UNCHANGED <<uqueue, src_flow, accepted>>
    BY <2>1, <2>2, OrderStill
  <2>3. CASE Drain
    <3>1. Behind' = Behind
      BY <2>1 DEF Behind
    <3>2. cur'.uref = None
      BY <2>1 DEF OrderInv, OrderTyped
    <3> QED BY <2>1, <2>3, <3>1, <3>2, DrainOrder
  <2> QED BY <1>10, <2>2, <2>3 DEF ReleaseSource, FreeSource
<1>11. CASE EndPush
  BY <1>11, OrderStill DEF EndPush
<1>12. CASE AttachSink
  BY <1>12, OrderStill DEF AttachSink
<1>13. CASE Flush
  BY <1>13, FlushOrder
<1>14. CASE Release
  BY <1>14, OrderStill DEF Release
<1>15. CASE AttachSource
  BY <1>15, OrderStill DEF AttachSource
<1>16. CASE Work
  BY <1>16, WorkOrder
<1>17. CASE OobRequest
  BY <1>17, OrderStill DEF OobRequest
<1>18. CASE OobSourceEnd \/ OobRefEnd \/ ReleaseUser
  <2>1. UNCHANGED <<pc, cur, urefs, flow_def, flow_def_sent, dropped>>
    BY <1>18 DEF OobSourceEnd, OobRefEnd, ReleaseUser
  <2>2. CASE UNCHANGED <<uqueue, src_flow, accepted>>
    BY <2>1, <2>2, OrderStill
  <2>3. CASE Drain
    <3>1. Behind' = Behind
      BY <2>1 DEF Behind
    <3>2. cur'.uref # None => pc' \in {"flow", "data"}
      BY <2>1 DEF OrderInv, OrderTyped
    <3> QED BY <2>1, <2>3, <3>1, <3>2, DrainOrder
  <2> QED BY <1>18, <2>2, <2>3 DEF OobSourceEnd, OobRefEnd, ReleaseUser, FreeSource
<1>19. CASE Request
  BY <1>19, OrderStill DEF Request
<1> QED
  BY <1>1, <1>2, <1>3, <1>4, <1>5, <1>6, <1>7, <1>8, <1>9, <1>10, <1>11, <1>12, <1>13, <1>14, <1>15, <1>16, <1>17, <1>18, <1>19
     DEF Next, Control, SinkThread, SourceThread, Oob

(* The end of source is read, and thrown, after the sink sent it.          *)
LEMMA EndKept ==
    ASSUME LifeInv, EndInv, Next
    PROVE  EndInv'
<1> USE DEF SinkOnly, Rest, Calling, sinkVars, flowVars, lifeVars, oobVars, srcVars
<1>1. ASSUME UNCHANGED <<downstream_oob, ended>>, pc \in Past => pc' \in Past /\ UNCHANGED uqueue
      PROVE  EndInv'
  BY <1>1 DEF EndInv
<1>2. ASSUME NEW m \in Messages, Message(m), UNCHANGED <<ended, uqueue>>,
             pc \in Past => pc' \in Past, m = "SOURCE_END" => pc' \in Past
      PROVE  EndInv'
  <2>1. CASE UNCHANGED downstream_oob
    BY <1>1, <1>2, <2>1
  <2>2. CASE downstream_oob' = Append(downstream_oob, m)
    <3>1. /\ downstream_oob' \in Seq(Messages)
          /\ DOMAIN downstream_oob' = 1..(Len(downstream_oob) + 1)
          /\ DOMAIN downstream_oob = 1..Len(downstream_oob) /\ Len(downstream_oob) \in Nat
          /\ downstream_oob'[Len(downstream_oob) + 1] = m
          /\ \A i \in 1..Len(downstream_oob) : downstream_oob'[i] = downstream_oob[i]
      BY <2>2, AppendProperties DEF EndInv
    <3>2. ASSUME NEW i \in DOMAIN downstream_oob', downstream_oob'[i] = "SOURCE_END"
          PROVE  pc' \in Past
      <4>1. CASE i = Len(downstream_oob) + 1
        BY <1>2, <3>1, <3>2, <4>1
      <4>2. CASE i # Len(downstream_oob) + 1
        BY <1>2, <3>1, <3>2, <4>2 DEF EndInv
      <4> QED BY <4>1, <4>2
    <3> QED BY <1>2, <3>1, <3>2 DEF EndInv
  <2> QED BY <1>2, <2>1, <2>2 DEF Message
<1>3. ASSUME pc \in Past, pc' \in Past, ended' => ended \/ uqueue' = <<>>,
             uqueue' = uqueue \/ uqueue' = <<>>,
             downstream_oob' \in Seq(Messages)
      PROVE  EndInv'
  BY <1>3 DEF EndInv
<1>4. ASSUME FreeSource, UNCHANGED <<pc, ended>>
      PROVE  EndInv'
  <2>1. downstream_oob' = <<>> /\ uqueue' = <<>>
    BY <1>4 DEF FreeSource, Drain
  <2>2. downstream_oob' \in Seq(Messages) /\ DOMAIN downstream_oob' = {}
    BY <2>1, EmptySeq
  <2> QED BY <1>4, <2>1, <2>2 DEF EndInv
<1>5. ASSUME NEW p \in Senders, Receive(p) PROVE EndInv'
  BY <1>1, <1>5 DEF Receive, Past
<1>6. ASSUME NEW v \in Flows, SetFlowDef(v) PROVE EndInv'
  BY <1>1, <1>6 DEF SetFlowDef
<1>7. ASSUME NEW n \in 0..MaxLength, SetMaxLength(n) PROVE EndInv'
  BY <1>1, <1>7 DEF SetMaxLength
<1>8. ASSUME NEW p \in Pumps, FreePump(p) PROVE EndInv'
  BY <1>1, <1>8 DEF FreePump
<1>9. CASE SendFlowDef
  BY <1>1, <1>9 DEF SendFlowDef, StoreOnly, Past
<1>10. CASE SendData
  BY <1>1, <1>10 DEF SendData, StoreOnly, Past
<1>11. CASE Watch
  BY <1>1, <1>11 DEF Watch, Past
<1>12. CASE OutputHeld
  BY <1>1, <1>12 DEF OutputHeld, Past
<1>13. CASE EndWatch
  BY <1>1, <1>13 DEF EndWatch, Past
<1>14. CASE FreeSink
  <2>1. /\ Message("SOURCE_END") /\ UNCHANGED <<ended, uqueue>> /\ pc' \in Past
        /\ "SOURCE_END" \in Messages
    BY <1>14 DEF FreeSink, Past, Messages
  <2> QED BY <1>2, <2>1
<1>15. CASE ReleaseSource
  <2>1. pc = "release" /\ pc' \in {"push", "gone"} /\ ended' = ended
    BY <1>15 DEF ReleaseSource
  <2>2. CASE UNCHANGED <<uqueue, downstream_oob>>
    BY <1>1, <2>1, <2>2 DEF Past
  <2>3. CASE UNCHANGED uqueue /\ Message("REF_END")
    BY <1>2, <2>1, <2>3 DEF Past, Messages
  <2>4. CASE FreeSource
    <3>1. downstream_oob' = <<>> /\ uqueue' = <<>>
      BY <2>4 DEF FreeSource, Drain
    <3>2. downstream_oob' \in Seq(Messages)
      BY <3>1, EmptySeq
    <3> QED BY <1>3, <2>1, <3>1, <3>2 DEF Past
  <2> QED BY <1>15, <2>2, <2>3, <2>4 DEF ReleaseSource
<1>16. CASE EndPush
  BY <1>1, <1>16 DEF EndPush, Past
<1>17. CASE AttachSink
  BY <1>1, <1>17 DEF AttachSink
<1>18. CASE Flush
  BY <1>1, <1>18 DEF Flush
<1>19. CASE Release
  BY <1>1, <1>19 DEF Release, Past
<1>20. CASE AttachSource
  BY <1>1, <1>20 DEF AttachSource
<1>21. CASE Work
  <2>1. uqueue # <<>> /\ UNCHANGED <<pc, downstream_oob, ended>>
    BY <1>21 DEF Work
  <2>2. ~ended
    BY <2>1 DEF EndInv
  <2> QED BY <2>1, <2>2 DEF EndInv
<1>22. CASE OobRequest
  <2>1. /\ downstream_oob # <<>> /\ downstream_oob' = Tail(downstream_oob)
        /\ UNCHANGED <<pc, uqueue, ended>>
    BY <1>22 DEF OobRequest
  <2>2. downstream_oob \in Seq(Messages)
    BY DEF EndInv
  <2>3. /\ downstream_oob' \in Seq(Messages) /\ Len(downstream_oob) \in Nat
        /\ DOMAIN downstream_oob = 1..Len(downstream_oob)
        /\ DOMAIN downstream_oob' = 1..(Len(downstream_oob) - 1)
        /\ \A i \in 1..(Len(downstream_oob) - 1) : downstream_oob'[i] = downstream_oob[i + 1]
    BY <2>1, <2>2, HeadTailProperties, LenProperties
  <2>4. ASSUME NEW i \in DOMAIN downstream_oob', downstream_oob'[i] = "SOURCE_END"
        PROVE  pc \in Past
    <3>1. i + 1 \in DOMAIN downstream_oob /\ downstream_oob[i + 1] = "SOURCE_END"
      BY <2>3, <2>4
    <3> QED BY <3>1 DEF EndInv
  <2> QED BY <2>1, <2>3, <2>4 DEF EndInv
<1>23. CASE OobSourceEnd
  <2>1. /\ downstream_oob # <<>> /\ Head(downstream_oob) = "SOURCE_END"
        /\ downstream_oob' = Tail(downstream_oob) /\ uqueue' = <<>> /\ pc' = pc
    BY <1>23 DEF OobSourceEnd, Drain
  <2>2. downstream_oob \in Seq(Messages)
    BY DEF EndInv
  <2>3. 1 \in DOMAIN downstream_oob /\ downstream_oob[1] = "SOURCE_END"
    BY <2>1, <2>2, EmptySeq, LenProperties
  <2>4. pc \in Past
    BY <2>3 DEF EndInv
  <2>5. downstream_oob' \in Seq(Messages)
    BY <2>1, <2>2, HeadTailProperties
  <2> QED BY <1>3, <2>1, <2>4, <2>5
<1>24. CASE OobRefEnd
  BY <1>4, <1>24 DEF OobRefEnd
<1>25. CASE ReleaseUser
  <2>1. UNCHANGED <<pc, ended>>
    BY <1>25 DEF ReleaseUser
  <2>2. CASE UNCHANGED <<uqueue, downstream_oob>>
    BY <1>1, <2>1, <2>2
  <2>3. CASE UNCHANGED uqueue /\ Message("REF_END")
    BY <1>2, <2>1, <2>3 DEF Messages
  <2>4. CASE FreeSource
    BY <1>4, <2>1, <2>4
  <2> QED BY <1>25, <2>2, <2>3, <2>4 DEF ReleaseUser
<1>26. CASE Request
  <2>1. Message("REQUEST") /\ UNCHANGED <<pc, ended, uqueue>> /\ "REQUEST" \in Messages
    BY <1>26 DEF Request, Messages
  <2> QED BY <1>2, <2>1
<1> QED
  BY <1>5, <1>6, <1>7, <1>8, <1>9, <1>10, <1>11, <1>12, <1>13, <1>14, <1>15, <1>16, <1>17, <1>18, <1>19, <1>20, <1>21, <1>22, <1>23, <1>24, <1>25, <1>26
     DEF Next, Control, SinkThread, SourceThread, Oob

LEMMA OrderHolds == Spec => [](LifeInv /\ OrderInv /\ EndInv)
<1> DEFINE I == OrderInv /\ EndInv
<1>1. LifeInv /\ I /\ [Next]_vars => I'
  <2> SUFFICES ASSUME LifeInv, I, [Next]_vars PROVE I'
    OBVIOUS
  <2>1. CASE Next
    BY <2>1, OrderKept, EndKept
  <2>2. CASE UNCHANGED vars
    BY <2>2 DEF vars, sinkVars, flowVars, lifeVars, oobVars, srcVars, OrderInv, OrderTyped,
                Current, Coming, EndInv
  <2> QED BY <2>1, <2>2
<1>2. Init => I
  BY InitOrder
<1> HIDE DEF I
<1>3. Spec => []I
  BY <1>1, <1>2, LifeHolds, PTL DEF Spec
<1> QED BY <1>3, LifeHolds, PTL DEF I

(* The data urefs that were input, and not flushed, are on their way, each *)
(* once and in the order of input, past full queues, held urefs, their     *)
(* watcher and flushes; and when the end of source is thrown, all of them  *)
(* are output, although the message about it is not in the same queue.     *)
THEOREM ArrivesInOrder == Spec => []InOrder
<1>1. LifeInv /\ OrderInv /\ EndInv => InOrder
  <2> SUFFICES ASSUME LifeInv, OrderInv, EndInv PROVE InOrder
    OBVIOUS
  <2>1. Listed(Coming, accepted)
    BY DEF OrderInv, Ordered
  <2>2. ASSUME ended PROVE accepted = <<>>
    <3>1. pc \in Past /\ uqueue = <<>> /\ urefs = <<>>
      BY <2>2 DEF EndInv, LifeInv, Referenced, Past, Leaving
    <3>2. pc \notin {"flow", "data"}
      BY <3>1 DEF Past
    <3>3. Coming = <<>> \o urefs
      BY <3>1, <3>2, ComingParts DEF OrderInv, Stored
    <3>4. Coming = <<>>
      BY <3>1, <3>3
    <3>5. Len(accepted) = 0
      BY <2>1, <3>4, DataInNext DEF Listed
    <3> QED BY <3>5, EmptySeq DEF OrderInv, OrderTyped
  <2> QED BY <2>1, <2>2 DEF InOrder
<1> QED BY <1>1, OrderHolds, PTL

(* The data urefs arrive under the flow definition that was in force when  *)
(* they were input, unless a flush took it along: it is sent in front of   *)
(* the first of them, and no other one comes in between, whatever is held  *)
(* or flushed meanwhile.                                                   *)
THEOREM FlowsDescribed == Spec => []Described
<1>1. OrderInv => Described
  BY DEF OrderInv, Ordered, Described
<1> QED BY <1>1, OrderHolds, PTL
=============================================================================
