----------------------------- MODULE UpipeQueue ----------------------------
(***************************************************************************)
(* A queue sink and a queue source, the two ends of a queue of urefs       *)
(* between two threads (lib/upipe-modules/upipe_queue_sink.c,              *)
(* upipe_queue_source.c) with the helper that holds the urefs the queue    *)
(* has no room for (upipe_helper_input.h).                                 *)
(*                                                                         *)
(* In the sink's thread, pumps send urefs to the sink, the application     *)
(* calls it, and its watcher runs when the queue has room.  In the         *)
(* source's thread its two watchers run, one for urefs and one for         *)
(* messages out of band.  The uqueues are sequences here: as UQueue shows, *)
(* a consumer's watcher runs when there is something to pop, and a lone    *)
(* producer's when there is room; that it may also run for nothing changes *)
(* nothing.  Requests have a module of their own, UpipeQueueRequest: here  *)
(* the messages about them take the room of the queue out of band.         *)
(*                                                                         *)
(* A uref is a data uref of the set Urefs or a flow definition.  Memory    *)
(* and an event loop are always available.                                 *)
(***************************************************************************)
EXTENDS Integers, Sequences, SequencesExt, FiniteSets

CONSTANTS
    Length,         \* of the queue of urefs
    OobQueues,      \* of the queue out of band, OOB_QUEUES
    Urefs, Flows,   \* data urefs, and flow definitions
    Pumps,          \* that send urefs to the sink
    Senders,        \* those, and None for what no pump sends
    MaxLength,      \* bound on the limit of held urefs (max_urefs)
    None

ASSUME QueueAssumption ==
    /\ Length \in 1..255 /\ OobQueues \in 1..255
    /\ MaxLength \in Nat
    /\ None \notin Urefs \cup Flows \cup Pumps \cup {"stopped", "started"}
    /\ Urefs \cap Flows = {}
    /\ IsFiniteSet(Pumps)
    /\ Senders \subseteq Pumps \cup {None}

VARIABLES
    pc, cur,                        \* the sink's thread, the uref it handles
    flow_def, flow_def_sent,        \* of struct upipe_qsink
    urefs, max_urefs, blockers,     \* of its input helper
    watcher,                        \* its upump: None, "stopped", "started"
    refs, used,                     \* on the sink, and the application's one
    freed,                          \* the pumps that were freed
    uqueue, downstream_oob,         \* of struct upipe_queue
    lost,           \* history: the messages that found no room in it
    attached,                       \* the source has its watchers
    src_flow,                       \* the flow definition of the source
    src_refs, src_used,             \* on the source
    ended, dead,                    \* source_end and dead were thrown
    accepted,       \* history: the data urefs that were input and are not
                    \* output or flushed, with the flow definition of then
    dropped         \* history: a flush took the flow definition along

flowVars == <<flow_def, flow_def_sent, dropped>>
sinkVars == <<flowVars, urefs, max_urefs, blockers, watcher>>
lifeVars == <<refs, used, freed>>
srcVars == <<attached, src_flow, src_refs, src_used, ended, dead>>
oobVars == <<downstream_oob, lost>>
vars == <<pc, cur, sinkVars, lifeVars, uqueue, oobVars, srcVars, accepted>>

(* How many of the first n of s are data urefs.                            *)
DataIn(s, n) == Cardinality({i \in 1..n : s[i] \in Urefs})

(* Behind the first n of s, the flow definition is g if it was f before.   *)
FlowAfter(s, n, f, g) ==
    \/ g = f /\ \A i \in 1..n : s[i] \notin Flows
    \/ \E i \in 1..n : /\ s[i] \in Flows /\ g = s[i]
                      /\ \A j \in (i + 1)..n : s[j] \notin Flows

Without(s, n) == SubSeq(s, n + 1, Len(s))
One(b) == IF b THEN 1 ELSE 0

(* The urefs on their way from the sink to the source, in order.           *)
Coming ==
    uqueue \o urefs \o (IF pc = "flow" THEN <<flow_def>> ELSE <<>>)
           \o (IF cur.uref # None THEN <<cur.uref>> ELSE <<>>)

(* There may be any number of references: these are the owners we model.   *)
Init ==
    /\ pc = "idle"
    /\ cur = [pump |-> None, uref |-> None]
    /\ flow_def = None /\ flow_def_sent = FALSE
    /\ urefs = <<>> /\ max_urefs = 0 /\ blockers = {}
    /\ watcher = None
    /\ refs = 1 /\ used = TRUE
    /\ freed = {}
    /\ uqueue = <<>> /\ downstream_oob = <<>>
    /\ lost = {}
    /\ attached = FALSE
    /\ src_flow = None
    /\ src_refs = 2 /\ src_used = TRUE
    /\ ended = FALSE /\ dead = FALSE
    /\ accepted = <<>>
    /\ dropped = FALSE

HasRoom == Len(uqueue) < Length
OobRoom == Len(downstream_oob) < OobQueues

(* A message is dropped, with a warning, if the queue out of band is full. *)
Message(m) ==
    IF OobRoom THEN downstream_oob' = Append(downstream_oob, m) /\ UNCHANGED lost
    ELSE lost' = lost \cup {m} /\ UNCHANGED downstream_oob

-----------------------------------------------------------------------------
(* The input of the sink, from a pump or from elsewhere (None).  Urefs     *)
(* are alike: any one that is not in use will do.                          *)
Receive(p) ==
    LET free == Urefs \ Range(Coming)
        u == CHOOSE x \in free : TRUE
    IN  /\ pc = "idle" /\ used
        /\ p \notin blockers \cup freed
        /\ free # {}
        /\ cur' = [pump |-> p, uref |-> u]
        /\ pc' = IF ~flow_def_sent /\ flow_def # None THEN "flow" ELSE "data"
        /\ accepted' = Append(accepted, [uref |-> u, flow |-> flow_def,
                                        known |-> ~dropped])
        /\ UNCHANGED <<sinkVars, lifeVars, uqueue, oobVars, srcVars>>

(* upipe_foo_hold_input, and then upipe_foo_block_input.                   *)
Hold(x) ==
    /\ urefs' = Append(urefs, x)
    /\ blockers' = IF cur.pump # None /\ Len(urefs') > max_urefs
                   THEN blockers \cup {cur.pump} ELSE blockers

(* Mutated forms, named after the mistake, precede the steps they mutate.  *)
StoreBlocksFirst(x) ==
    \/ /\ urefs # <<>>
       /\ urefs' = Append(urefs, x)
       /\ UNCHANGED <<uqueue, watcher, refs, blockers>>
    \/ /\ urefs = <<>> /\ HasRoom
       /\ uqueue' = Append(uqueue, x)
       /\ UNCHANGED <<urefs, blockers, watcher, refs>>
    \/ /\ urefs = <<>> /\ ~HasRoom
       /\ Hold(x)
       /\ watcher' = "started"
       /\ refs' = refs + 1
       /\ UNCHANGED uqueue

(* upipe_qsink_input, for one uref.  Held urefs keep the sink alive.       *)
Store(x) ==
    \/ /\ urefs # <<>>
       /\ Hold(x)
       /\ UNCHANGED <<uqueue, watcher, refs>>
    \/ /\ urefs = <<>> /\ HasRoom
       /\ uqueue' = Append(uqueue, x)
       /\ UNCHANGED <<urefs, blockers, watcher, refs>>
    \/ /\ urefs = <<>> /\ ~HasRoom
       /\ Hold(x)
       /\ watcher' = "started"
       /\ refs' = refs + 1
       /\ UNCHANGED uqueue

StoreOnly == UNCHANGED <<flow_def, dropped, max_urefs, used, freed,
                         oobVars, srcVars, accepted>>

SendFlowDef ==
    /\ pc = "flow"
    /\ flow_def_sent' = TRUE
    /\ Store(flow_def)
    /\ pc' = "data"
    /\ UNCHANGED cur
    /\ StoreOnly

SendData ==
    /\ pc = "data"
    /\ Store(cur.uref)
    /\ cur' = [pump |-> None, uref |-> None]
    /\ pc' = "idle"
    /\ UNCHANGED flow_def_sent
    /\ StoreOnly

-----------------------------------------------------------------------------
(* upipe_qsink_watcher: the held urefs are sent while there is room.       *)
Watch ==
    /\ pc = "idle"
    /\ watcher = "started"
    /\ pc' = "output"
    /\ UNCHANGED <<cur, sinkVars, lifeVars, uqueue, oobVars, srcVars,
                   accepted>>

OutputHeld ==
    /\ pc = "output"
    /\ urefs # <<>> /\ HasRoom
    /\ uqueue' = Append(uqueue, Head(urefs))
    /\ urefs' = Tail(urefs)
    /\ UNCHANGED <<pc, cur, flowVars, max_urefs, blockers, watcher, lifeVars,
                   oobVars, srcVars, accepted>>

EndWatchForgetsPumps ==
    /\ pc = "output"
    /\ urefs = <<>> \/ ~HasRoom
    /\ watcher' = IF urefs = <<>> THEN "stopped" ELSE watcher
    /\ refs' = refs - One(urefs = <<>>)
    /\ pc' = IF refs' = 0 THEN "free" ELSE "idle"
    /\ UNCHANGED <<cur, flowVars, urefs, max_urefs, blockers, used,
                   freed, uqueue, oobVars, srcVars, accepted>>

EndWatch ==
    /\ pc = "output"
    /\ urefs = <<>> \/ ~HasRoom
    /\ blockers' = IF Len(urefs) <= max_urefs THEN {} ELSE blockers
    /\ watcher' = IF urefs = <<>> THEN "stopped" ELSE watcher
    /\ refs' = refs - One(urefs = <<>>)
    /\ pc' = IF refs' = 0 THEN "free" ELSE "idle"
    /\ UNCHANGED <<cur, flowVars, urefs, max_urefs, used, freed,
                   uqueue, oobVars, srcVars, accepted>>

-----------------------------------------------------------------------------
(* The controls, each followed by the check of upipe_qsink_control, which  *)
(* starts the watcher when urefs are held.                                 *)
Calling == pc = "idle" /\ used
Rest == UNCHANGED <<pc, cur, used, freed, uqueue, oobVars, srcVars>>
Checked(w) == IF urefs # <<>> THEN "started" ELSE w

SetFlowDefNoReset(v) ==
    /\ Calling
    /\ flow_def' = v
    /\ watcher' = Checked(watcher)
    /\ UNCHANGED <<flow_def_sent, dropped, urefs, max_urefs, blockers, refs,
                   accepted>>
    /\ Rest

SetFlowDef(v) ==
    /\ Calling
    /\ flow_def' = v
    /\ flow_def_sent' = FALSE
    /\ dropped' = FALSE
    /\ watcher' = Checked(watcher)
    /\ UNCHANGED <<urefs, max_urefs, blockers, refs, accepted>>
    /\ Rest

SetMaxLength(n) ==
    /\ Calling
    /\ max_urefs' = n
    /\ watcher' = Checked(watcher)
    /\ UNCHANGED <<flowVars, urefs, blockers, refs, accepted>>
    /\ Rest

AttachSinkForgetsWatcher ==
    /\ Calling
    /\ watcher' = None
    /\ UNCHANGED <<flowVars, urefs, max_urefs, blockers, refs,
                   accepted>>
    /\ Rest

(* UPIPE_ATTACH_UPUMP_MGR, which frees the watcher.                        *)
AttachSink ==
    /\ Calling
    /\ watcher' = Checked(None)
    /\ UNCHANGED <<flowVars, urefs, max_urefs, blockers, refs,
                   accepted>>
    /\ Rest

(* upipe_qsink_flush.  What was held is not accepted any more.  A flow     *)
(* definition that was held is taken for sent.                             *)
Flush ==
    /\ Calling
    /\ urefs # <<>>
    /\ urefs' = <<>> /\ max_urefs' = 0 /\ blockers' = {}
    /\ watcher' = "stopped"
    /\ refs' = refs - 1
    /\ accepted' = SubSeq(accepted, 1, DataIn(uqueue, Len(uqueue)))
    /\ dropped' = \/ dropped
                  \/ flow_def_sent /\ Range(urefs) \cap Flows # {}
    /\ UNCHANGED <<flow_def, flow_def_sent>>
    /\ Rest

(* upipe_qsink_push_downstream, for the registration of a request or its   *)
(* end.                                                                    *)
Request ==
    /\ Calling
    /\ OobRoom
    /\ Message("REQUEST")
    /\ watcher' = Checked(watcher)
    /\ UNCHANGED <<pc, cur, flowVars, urefs, max_urefs, blockers, lifeVars,
                   uqueue, srcVars, accepted>>

(* upipe_foo_block_input_cb: the owner of a pump frees it.                 *)
FreePump(p) ==
    /\ pc = "idle"
    /\ p \notin freed
    /\ freed' = freed \cup {p}
    /\ blockers' = blockers \ {p}
    /\ UNCHANGED <<pc, cur, flowVars, urefs, max_urefs, watcher, refs, used, uqueue, oobVars, srcVars, accepted>>

(* The application releases the sink.                                      *)
Release ==
    /\ Calling
    /\ used' = FALSE
    /\ refs' = refs - 1
    /\ pc' = IF refs' = 0 THEN "free" ELSE "idle"
    /\ UNCHANGED <<cur, sinkVars, freed, uqueue, oobVars, srcVars,
                   accepted>>

-----------------------------------------------------------------------------
(* Everything in the queue is output by the source.                        *)
Drain ==
    /\ uqueue' = <<>>
    /\ \E f \in Flows \cup {None} :
         FlowAfter(uqueue, Len(uqueue), src_flow, f) /\ src_flow' = f
    /\ accepted' = Without(accepted, DataIn(uqueue, Len(uqueue)))

(* upipe_qsrc_free                                                         *)
FreeSource ==
    /\ dead' = TRUE
    /\ downstream_oob' = <<>> /\ UNCHANGED lost
    /\ Drain

(* upipe_qsink_free: source_end is sent, if there is room, and the source  *)
(* is released.                                                            *)
FreeSink ==
    /\ pc = "free"
    /\ Message("SOURCE_END")
    /\ pc' = "release"
    /\ UNCHANGED <<cur, sinkVars, lifeVars, uqueue, srcVars, accepted>>

(* The last reference may be the sink's: upipe_qsrc_no_ref then frees the  *)
(* source here if it has no watcher, and otherwise sends it a message, if  *)
(* there is room, which can be read from its first step (ufifo_push),      *)
(* before uqueue_push is done with the queue (EndPush).                    *)
ReleaseSource ==
    /\ pc = "release"
    /\ src_refs' = src_refs - 1
    /\ IF src_refs > 1 THEN /\ pc' = "gone"
                            /\ UNCHANGED <<uqueue, downstream_oob, lost,
                                           src_flow, dead, accepted>>
       ELSE IF attached THEN /\ pc' = IF OobRoom THEN "push" ELSE "gone"
                             /\ Message("REF_END")
                             /\ UNCHANGED <<uqueue, src_flow, dead, accepted>>
       ELSE FreeSource /\ pc' = "gone"
    /\ urefs' = <<>>
    /\ watcher' = None
    /\ UNCHANGED <<cur, flowVars, max_urefs, blockers, refs, used, freed,
                   attached, src_used, ended>>

EndPush ==
    /\ pc = "push"
    /\ pc' = "gone"
    /\ UNCHANGED <<cur, sinkVars, lifeVars, uqueue, oobVars, srcVars, accepted>>

-----------------------------------------------------------------------------
SinkOnly == UNCHANGED <<pc, cur, sinkVars, lifeVars>>

(* upipe_qsrc_control, which creates the watchers.                         *)
AttachSource ==
    /\ src_used /\ ~attached
    /\ attached' = TRUE
    /\ UNCHANGED <<uqueue, oobVars, src_flow, src_refs, src_used, ended, dead,
                   accepted>>
    /\ SinkOnly

(* upipe_qsrc_worker and upipe_qsrc_input                                  *)
Work ==
    /\ attached /\ ~dead
    /\ uqueue # <<>>
    /\ uqueue' = Tail(uqueue)
    /\ IF Head(uqueue) \in Flows
       THEN src_flow' = Head(uqueue) /\ UNCHANGED accepted
       ELSE accepted' = Tail(accepted) /\ UNCHANGED src_flow
    /\ UNCHANGED <<oobVars, attached, src_refs, src_used, ended, dead>>
    /\ SinkOnly

(* upipe_qsrc_oob                                                          *)
OobSourceEndNoDrain ==
    /\ attached /\ ~dead
    /\ downstream_oob # <<>> /\ Head(downstream_oob) = "SOURCE_END"
    /\ downstream_oob' = Tail(downstream_oob)
    /\ ended' = TRUE
    /\ UNCHANGED <<uqueue, src_flow, accepted, lost, attached, src_refs,
                   src_used, dead>>
    /\ SinkOnly

OobSourceEnd ==
    /\ attached /\ ~dead
    /\ downstream_oob # <<>> /\ Head(downstream_oob) = "SOURCE_END"
    /\ downstream_oob' = Tail(downstream_oob)
    /\ Drain
    /\ ended' = TRUE
    /\ UNCHANGED <<lost, attached, src_refs, src_used, dead>>
    /\ SinkOnly

OobRequest ==
    /\ attached /\ ~dead
    /\ downstream_oob # <<>> /\ Head(downstream_oob) = "REQUEST"
    /\ downstream_oob' = Tail(downstream_oob)
    /\ UNCHANGED <<uqueue, lost, srcVars, accepted>>
    /\ SinkOnly

OobRefEnd ==
    /\ attached /\ ~dead
    /\ downstream_oob # <<>> /\ Head(downstream_oob) = "REF_END"
    /\ FreeSource
    /\ UNCHANGED <<attached, src_refs, src_used, ended>>
    /\ SinkOnly

ReleaseUserForgetsMessage ==
    /\ src_used
    /\ src_used' = FALSE
    /\ src_refs' = src_refs - 1
    /\ IF src_refs > 1 \/ attached
       THEN UNCHANGED <<uqueue, oobVars, src_flow, dead, accepted>>
       ELSE FreeSource
    /\ UNCHANGED <<attached, ended>>
    /\ SinkOnly

(* The application releases the source, in the source's thread: the        *)
(* message to itself is dropped as well if there is no room.               *)
ReleaseUser ==
    /\ src_used
    /\ src_used' = FALSE
    /\ src_refs' = src_refs - 1
    /\ IF src_refs > 1 THEN UNCHANGED <<uqueue, oobVars, src_flow, dead,
                                        accepted>>
       ELSE IF attached THEN /\ Message("REF_END")
                             /\ UNCHANGED <<uqueue, src_flow, dead, accepted>>
       ELSE FreeSource
    /\ UNCHANGED <<attached, ended>>
    /\ SinkOnly

-----------------------------------------------------------------------------
Control ==
    \/ \E v \in Flows : SetFlowDef(v)
    \/ \E n \in 0..MaxLength : SetMaxLength(n)
    \/ AttachSink
    \/ Flush
    \/ Request

SinkThread ==
    \/ SendFlowDef \/ SendData
    \/ Watch \/ OutputHeld \/ EndWatch
    \/ FreeSink \/ ReleaseSource \/ EndPush

Oob == OobRequest \/ OobSourceEnd \/ OobRefEnd
SourceThread == Work \/ Oob

Next ==
    \/ \E p \in Senders : Receive(p)
    \/ Control
    \/ \E p \in Pumps : FreePump(p)
    \/ Release
    \/ SinkThread
    \/ AttachSource
    \/ SourceThread
    \/ ReleaseUser

Spec == Init /\ [][Next]_vars

(* Each thread goes on with what it began, and its event loop runs the     *)
(* watchers whose queue is ready, whatever else it runs.                   *)
FairSpec ==
    /\ Spec
    /\ WF_vars(SinkThread) /\ SF_vars(Watch)
    /\ WF_vars(Work) /\ WF_vars(Oob)

-----------------------------------------------------------------------------
TypeOK ==
    /\ pc \in {"idle", "flow", "data", "output", "free", "release", "push", "gone"}
    /\ cur \in [pump : Pumps \cup {None}, uref : Urefs \cup {None}]
    /\ flow_def \in Flows \cup {None} /\ flow_def_sent \in BOOLEAN
    /\ urefs \in Seq(Urefs \cup Flows) /\ max_urefs \in 0..MaxLength
    /\ blockers \subseteq Pumps
    /\ watcher \in {None, "stopped", "started"}
    /\ refs \in 0..2 /\ used \in BOOLEAN
    /\ freed \subseteq Pumps
    /\ uqueue \in Seq(Urefs \cup Flows) /\ Len(uqueue) <= Length
    /\ downstream_oob \in Seq({"REQUEST", "SOURCE_END", "REF_END"})
    /\ Len(downstream_oob) <= OobQueues
    /\ lost \subseteq {"SOURCE_END", "REF_END"}
    /\ attached \in BOOLEAN
    /\ src_flow \in Flows \cup {None}
    /\ src_refs \in 0..2 /\ src_used \in BOOLEAN
    /\ ended \in BOOLEAN /\ dead \in BOOLEAN
    /\ accepted \in Seq([uref : Urefs, flow : Flows \cup {None},
                      known : BOOLEAN])
    /\ dropped \in BOOLEAN

(* Every data uref that was input and not flushed is on its way, once and  *)
(* in the order of input, past full queues, held urefs and watchers;       *)
(* and the end of source, which is sent out of band, is thrown after all   *)
(* that was input is output.                                               *)
Listed(s, acc) ==
    /\ Len(acc) = DataIn(s, Len(s))
    /\ \A i \in DOMAIN s : s[i] \in Urefs => acc[DataIn(s, i)].uref = s[i]

InOrder == Listed(Coming, accepted) /\ (ended => accepted = <<>>)

(* Each data uref is output under the flow definition that was in force    *)
(* when it was input, unless a flush dropped it when it was to be sent:    *)
(* flow_def_sent is "true if the flow definition has already been sent"    *)
(* (upipe_queue_sink.c:75), and is not reset then.                         *)
Told(s, acc, f) ==
    \A i \in DOMAIN s :
      s[i] \in Urefs /\ acc[DataIn(s, i)].known =>
        FlowAfter(s, i - 1, f, acc[DataIn(s, i)].flow)

Described == Told(Coming, accepted, src_flow)

(* A sink lives as long as the application uses it or it holds urefs, for  *)
(* which its watcher is started, and no longer.                            *)
SinkLives ==
    /\ urefs # <<>> => watcher = "started" /\ pc \notin {"free", "release", "push"}
    /\ pc \in {"idle", "flow", "data"} => used \/ urefs # <<>>

(* Pumps are blocked in time: each is late by two urefs at most, a flow    *)
(* definition and a data uref.                                             *)
BackPressure ==
    Len(urefs) <= MaxLength + 2 * Cardinality(blockers \cup freed)

(* A data uref that was input is output or flushed.                        *)
Delivered ==
    \A u \in Urefs :
      attached /\ (\E i \in DOMAIN accepted : accepted[i].uref = u)
        ~> \A i \in DOMAIN accepted : accepted[i].uref # u

(* Blocked pumps run again, all at once, whatever happens to the limit.    *)
Unblocked ==
    attached /\ blockers # {} ~> blockers = {}

(* Once both are released, a source with watchers throws source_end and    *)
(* dies, unless the message about that found the queue out of band full:   *)
(* such a source never does.                                               *)
Ends ==
    ~used /\ ~src_used /\ attached ~>
      /\ ended \/ "SOURCE_END" \in lost
      /\ dead \/ "REF_END" \in lost
=============================================================================
