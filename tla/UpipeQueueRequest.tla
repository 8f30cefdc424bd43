-------------------------- MODULE UpipeQueueRequest ------------------------
(***************************************************************************)
(* Requests through a queue (lib/upipe-modules/upipe_queue.c,              *)
(* upipe_queue_sink.c, upipe_queue_source.c).  A request that a pipe       *)
(* registers at a queue sink is copied into a proxy, which both threads    *)
(* use and count: the sink while it lists it, the source while it is       *)
(* registered at its output, and each message that is on its way about it. *)
(* The source's output may provide a registered request at any time, and   *)
(* several times; what finds no room, up or down, is dropped.              *)
(*                                                                         *)
(* A call of a pipe is one step; the two out of band uqueues are           *)
(* sequences.  The source runs in one thread and the sinks in another: all *)
(* of them pop the answers from one queue, and a ufifo has but one         *)
(* consumer (the run ufifo_consumers).  The code lets each sink have a     *)
(* thread of its own; that is not modelled.                                *)
(*                                                                         *)
(* The specification has names of its own, RequestInit and so on, because  *)
(* QueueProofs extends this module and UQueue.                             *)
(***************************************************************************)
EXTENDS Integers, Sequences, SequencesExt, FiniteSets

CONSTANTS
    Sinks,          \* of one queue source
    Requests, At,   \* requests, and the sink each is registered at
    Proxies,        \* the struct upipe_queue_request that may be allocated
    OobQueues,      \* length of the out of band queues, OOB_QUEUES
    None

ASSUME RequestAssumption ==
    /\ At \in [Requests -> Sinks]
    /\ OobQueues \in 1..255
    /\ None \notin Requests \cup Sinks

VARIABLES
    request_list,   \* of the sinks: the proxies that are listed
    upstream,       \* of a proxy: the request it was made for
    refs,           \* of a proxy: its count of references, 0 when it is free
    downstream_oob, upstream_oob,
    watching,       \* the sinks that have a watcher on upstream_oob
    registered,     \* the proxies registered at the output of the source
    provider,       \* history: the sink that provided a request since it
                    \* was registered
    lost,           \* history: the proxies whose UNREGISTER found no room
    unheard         \* history: the registered ones an answer to which found
                    \* no room

requestVars == <<request_list, upstream, refs, downstream_oob, upstream_oob, watching,
          registered, provider, lost, unheard>>

Message(type, p) == [type |-> type, request |-> p]

RequestInit ==
    /\ request_list = {}
    /\ upstream = [p \in Proxies |-> None]
    /\ refs = [p \in Proxies |-> 0]
    /\ downstream_oob = <<>> /\ upstream_oob = <<>>
    /\ watching = {}
    /\ registered = {}
    /\ provider = [r \in Requests |-> None]
    /\ lost = {} /\ unheard = {}

Listed(r) == {p \in request_list : upstream[p] = r}
RoomBelow == Len(downstream_oob) < OobQueues
RoomAbove == Len(upstream_oob) < OobQueues

-----------------------------------------------------------------------------
(* Mutated forms, named after the mistake, precede the steps they mutate.  *)
RegisterLeaks(r, p) ==
    /\ Listed(r) = {}
    /\ refs[p] = 0
    /\ upstream' = [upstream EXCEPT ![p] = r]
    /\ provider' = [provider EXCEPT ![r] = None]
    /\ IF RoomBelow
       THEN /\ request_list' = request_list \cup {p}
            /\ refs' = [refs EXCEPT ![p] = 2]
            /\ downstream_oob' = Append(downstream_oob, Message("REGISTER", p))
            /\ watching' = watching \cup {At[r]}
       ELSE /\ refs' = [refs EXCEPT ![p] = 1]
            /\ UNCHANGED <<request_list, downstream_oob, watching>>
    /\ UNCHANGED <<upstream_oob, registered, lost, unheard>>

RegisterNoWatcher(r, p) ==
    /\ Listed(r) = {}
    /\ refs[p] = 0
    /\ RoomBelow
    /\ provider' = [provider EXCEPT ![r] = None]
    /\ request_list' = request_list \cup {p}
    /\ upstream' = [upstream EXCEPT ![p] = r]
    /\ refs' = [refs EXCEPT ![p] = 2]
    /\ downstream_oob' = Append(downstream_oob, Message("REGISTER", p))
    /\ UNCHANGED <<upstream_oob, watching, registered, lost, unheard>>

(* upipe_qsink_register_request: a proxy is listed, and sent to the source *)
(* if its queue has room; if not, it is freed.                             *)
Register(r, p) ==
    /\ Listed(r) = {}
    /\ refs[p] = 0
    /\ provider' = [provider EXCEPT ![r] = None]
    /\ IF RoomBelow
       THEN /\ request_list' = request_list \cup {p}
            /\ upstream' = [upstream EXCEPT ![p] = r]
            /\ refs' = [refs EXCEPT ![p] = 2]
            /\ downstream_oob' = Append(downstream_oob, Message("REGISTER", p))
            /\ watching' = watching \cup {At[r]}
       ELSE UNCHANGED <<request_list, upstream, refs, downstream_oob,
                        watching>>
    /\ UNCHANGED <<upstream_oob, registered, lost, unheard>>

UnregisterSilently(r, p) ==
    /\ p \in Listed(r)
    /\ request_list' = request_list \ {p}
    /\ refs' = [refs EXCEPT ![p] = @ - 1]
    /\ UNCHANGED <<upstream, downstream_oob, upstream_oob, watching,
                   registered, provider, lost, unheard>>

(* upipe_qsink_unregister_request: the proxy is not listed any more, even  *)
(* if the source cannot be told.                                           *)
Unregister(r, p) ==
    /\ p \in Listed(r)
    /\ request_list' = request_list \ {p}
    /\ IF RoomBelow
       THEN /\ downstream_oob' = Append(downstream_oob, Message("UNREGISTER", p))
            /\ UNCHANGED <<refs, lost>>
       ELSE /\ refs' = [refs EXCEPT ![p] = @ - 1]
            /\ lost' = lost \cup {p}
            /\ UNCHANGED downstream_oob
    /\ UNCHANGED <<upstream, upstream_oob, watching, registered, provider,
                   unheard>>

SinkOobListedOnly(s) ==
    /\ s \in watching
    /\ upstream_oob # <<>>
    /\ LET p == Head(upstream_oob)
       IN  /\ p \in request_list
           /\ refs' = [refs EXCEPT ![p] = @ - 1]
           /\ provider' = [provider EXCEPT ![upstream[p]] = s]
    /\ upstream_oob' = Tail(upstream_oob)
    /\ UNCHANGED <<request_list, upstream, downstream_oob, watching, registered,
                   lost, unheard>>

(* upipe_qsink_oob: the message of a proxy that is not listed is dropped.  *)
SinkOob(s) ==
    /\ s \in watching
    /\ upstream_oob # <<>>
    /\ LET p == Head(upstream_oob)
       IN  /\ refs' = [refs EXCEPT ![p] = @ - 1]
           /\ provider' = IF p \in request_list
                          THEN [provider EXCEPT ![upstream[p]] = s] ELSE provider
    /\ upstream_oob' = Tail(upstream_oob)
    /\ UNCHANGED <<request_list, upstream, downstream_oob, watching,
                   registered, lost, unheard>>

-----------------------------------------------------------------------------
(* upipe_qsrc_oob and upipe_qsrc_register_request: the reference of the    *)
(* message goes to the source.                                             *)
SourceRegister ==
    /\ downstream_oob # <<>> /\ Head(downstream_oob).type = "REGISTER"
    /\ registered' = registered \cup {Head(downstream_oob).request}
    /\ downstream_oob' = Tail(downstream_oob)
    /\ UNCHANGED <<request_list, upstream, refs, upstream_oob, watching,
                   provider, lost, unheard>>

(* upipe_qsrc_oob and upipe_qsrc_unregister_request: the references of the *)
(* message and of the source are released.                                 *)
SourceUnregister ==
    /\ downstream_oob # <<>> /\ Head(downstream_oob).type = "UNREGISTER"
    /\ LET p == Head(downstream_oob).request
       IN  /\ registered' = registered \ {p}
           /\ unheard' = unheard \ {p}
           /\ refs' = [refs EXCEPT ![p] = @ - 2]
    /\ downstream_oob' = Tail(downstream_oob)
    /\ UNCHANGED <<request_list, upstream, upstream_oob, watching, provider,
                   lost>>

(* upipe_qsrc_provide_request: the answer is dropped if the queue is full. *)
Provide(p) ==
    /\ p \in registered
    /\ \/ /\ RoomAbove
          /\ upstream_oob' = Append(upstream_oob, p)
          /\ refs' = [refs EXCEPT ![p] = @ + 1]
          /\ UNCHANGED unheard
       \/ /\ ~RoomAbove
          /\ unheard' = unheard \cup {p}
          /\ UNCHANGED <<upstream_oob, refs>>
    /\ UNCHANGED <<request_list, upstream, downstream_oob, watching,
                   registered, provider, lost>>

RequestNext ==
    \/ \E r \in Requests, p \in Proxies : Register(r, p) \/ Unregister(r, p)
    \/ \E s \in Sinks : SinkOob(s)
    \/ SourceRegister \/ SourceUnregister
    \/ \E p \in Proxies : Provide(p)

RequestSpec == RequestInit /\ [][RequestNext]_requestVars

(* No answer to p was given yet, neither on its way nor dropped.           *)
Unanswered(p) ==
    /\ p \notin Range(upstream_oob) \cup unheard
    /\ provider[upstream[p]] = None

(* The event loops run the watchers, and what is downstream of the source  *)
(* answers each request once, whether or not there is room for the answer. *)
RequestFairSpec ==
    /\ RequestSpec
    /\ WF_requestVars(SourceRegister \/ SourceUnregister)
    /\ \A s \in Sinks : WF_requestVars(SinkOob(s))
    /\ \A p \in Proxies : WF_requestVars(Provide(p) /\ Unanswered(p))

-----------------------------------------------------------------------------
RequestTypeOK ==
    /\ request_list \subseteq Proxies
    /\ upstream \in [Proxies -> Requests \cup {None}]
    /\ refs \in [Proxies -> Nat]
    /\ downstream_oob \in Seq([type : {"REGISTER", "UNREGISTER"}, request : Proxies])
    /\ upstream_oob \in Seq(Proxies)
    /\ Len(downstream_oob) <= OobQueues /\ Len(upstream_oob) <= OobQueues
    /\ watching \subseteq Sinks
    /\ registered \subseteq Proxies
    /\ provider \in [Requests -> Sinks \cup {None}]
    /\ lost \subseteq Proxies /\ unheard \subseteq registered

One(b) == IF b THEN 1 ELSE 0
Times(s, Test(_)) == Cardinality({i \in DOMAIN s : Test(s[i])})

(* A proxy is counted once by each of its users in both threads: it is     *)
(* freed when the last of them lets it go, not before, whatever the order, *)
(* and whether or not a message could be sent.                             *)
ProxyCounted ==
    /\ RequestTypeOK
    /\ \A p \in Proxies :
         refs[p] = One(p \in request_list) + One(p \in registered)
                   + Times(downstream_oob, LAMBDA m : m.request = p)
                   + Times(upstream_oob, LAMBDA q : q = p)

(* The source has just the proxies that are listed, but for those about    *)
(* which a message is on its way, or could not be sent.                    *)
SourceFollows ==
    \A p \in Proxies \ lost :
      ~(p \in registered <=> p \in request_list) =>
        \E i \in DOMAIN downstream_oob : downstream_oob[i].request = p

(* A request that stays registered is provided, unless its answer found    *)
(* the queue full: the code does not answer again.                         *)
Answered ==
    \A r \in Requests :
      Listed(r) # {} ~> \/ Listed(r) \subseteq unheard
                         \/ provider[r] # None

(* A proxy that is not listed any more is freed, if the source could be    *)
(* told.                                                                   *)
Reclaimed ==
    \A p \in Proxies :
      p \notin request_list ~> p \in request_list \cup lost \/ refs[p] = 0
=============================================================================
