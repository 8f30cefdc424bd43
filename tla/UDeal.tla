------------------------------- MODULE UDeal -------------------------------
(***************************************************************************)
(* udeal (include/upipe/udeal.h): a lock for event-driven threads.  It     *)
(* deals access to a non-reentrant resource (libavcodec's open and close)  *)
(* with two atomic counters and a ueventfd, and never blocks a thread: a   *)
(* client whose grab fails goes back to its event loop, where its watcher  *)
(* runs the call-back again once the descriptor is readable.               *)
(*                                                                         *)
(* Each atomic operation and each system call on the descriptor is one     *)
(* step; what a thread does on its own state between two of them is part   *)
(* of the step that precedes it.                                           *)
(*                                                                         *)
(* The specification has names of its own, DealInit and so on, because     *)
(* EventLoopProofs extends this module, UpumpEv and UpipeTransfer.         *)
(***************************************************************************)
EXTENDS Integers, FiniteSets

CONSTANTS
    Clients,    \* the clients, each with its own watcher and event loop
    MaxTurns    \* bound on the accesses each client asks for

ASSUME ClientsAssumption == IsFiniteSet(Clients)
ASSUME TurnsAssumption == MaxTurns \in Nat

VARIABLES
    waiters,    \* udeal.waiters
    access,     \* udeal.access
    event,      \* TRUE when the ueventfd is readable
    style,      \* what the clients do, see below
    turns,      \* accesses each client has had
    pc          \* what each client does next

dealVars == <<waiters, access, event, style, turns, pc>>

(***************************************************************************)
(* Two kinds of clients use a udeal in the repository.  A "loop" client    *)
(* (tests/udeal_test.c) starts again after each access, and aborts in its  *)
(* call-back once it has done enough.  An "open" client (upipe_av_deal in  *)
(* lib/upipe-av) always grabs in its call-back, but its pipe may abort     *)
(* the wait at any moment the thread is back in the event loop.  All the   *)
(* clients of a udeal are of the same kind, and stay so.                   *)
(***************************************************************************)
Styles == {"loop", "open"}

(* The watcher of a client is started in all states but "out" and "done".  *)
Idle == {"out", "done"}
Attempting == {"read", "recheck"}
Critical == {"use", "yield"}
States == Idle \cup {"loop", "cb", "grab", "rewrite", "leave", "notify"}
               \cup Attempting \cup Critical

In(S) == {c \in Clients : pc[c] \in S}

Goto(c, s) == pc' = [pc EXCEPT ![c] = s]

DealInit ==                                                     \* udeal_init
    /\ waiters = 0
    /\ access = 0
    /\ event = TRUE
    /\ style \in Styles
    /\ turns = [c \in Clients |-> 0]
    /\ pc = [c \in Clients |-> "out"]

(* udeal_start: upump_start, then fetch_add(waiters); the first waiter     *)
(* runs its call-back at once.                                             *)
DealStart(c) ==
    /\ pc[c] = "out"
    /\ style = "open" => turns[c] < MaxTurns
    /\ waiters' = waiters + 1
    /\ Goto(c, IF waiters = 0 THEN "cb" ELSE "loop")
    /\ UNCHANGED <<access, event, turns, style>>

(* The event loop of c finds the descriptor readable.  Another client may  *)
(* drain it before the call-back gets to run.                              *)
Trigger(c) ==
    /\ pc[c] = "loop"
    /\ event
    /\ Goto(c, "cb")
    /\ UNCHANGED <<waiters, access, event, turns, style>>

(* Mutated forms of the steps, against which the properties are tried, are  *)
(* named after the mistake and precede the step; no step uses them.        *)
GrabAddOffByOne(c) ==
    /\ pc[c] \in {"cb", "grab"}
    /\ access' = access + 1
    /\ Goto(c, IF access > 1 THEN "read" ELSE "use")
    /\ UNCHANGED <<waiters, event, turns, style>>

(* udeal_grab, loop condition: fetch_add(access) > 0 *)
GrabAdd(c) ==
    /\ \/ pc[c] = "cb" /\ (style = "loop" => turns[c] < MaxTurns)
       \/ pc[c] = "grab"
    /\ access' = access + 1
    /\ Goto(c, IF access > 0 THEN "read" ELSE "use")
    /\ UNCHANGED <<waiters, event, turns, style>>

(* udeal_grab: ueventfd_read *)
GrabRead(c) ==
    /\ pc[c] = "read"
    /\ event' = FALSE
    /\ Goto(c, "recheck")
    /\ UNCHANGED <<waiters, access, turns, style>>

GrabSubNoDoubleCheck(c) ==
    /\ pc[c] = "recheck"
    /\ access' = access - 1
    /\ Goto(c, "loop")
    /\ UNCHANGED <<waiters, event, turns, style>>

(* udeal_grab, double-check: fetch_sub(access) > 1 *)
GrabSub(c) ==
    /\ pc[c] = "recheck"
    /\ access' = access - 1
    /\ Goto(c, IF access > 1 THEN "loop" ELSE "rewrite")
    /\ UNCHANGED <<waiters, event, turns, style>>

(* udeal_grab: ueventfd_write, and try again *)
GrabWrite(c) ==
    /\ pc[c] = "rewrite"
    /\ event' = TRUE
    /\ Goto(c, "grab")
    /\ UNCHANGED <<waiters, access, turns, style>>

(* The resource is used: avcodec_open2 and the like.                       *)
Use(c) ==
    /\ pc[c] = "use"
    /\ turns' = [turns EXCEPT ![c] = @ + 1]
    /\ Goto(c, "yield")
    /\ UNCHANGED <<waiters, access, event, style>>

(* udeal_yield: fetch_sub(access) *)
YieldAccess(c) ==
    /\ pc[c] = "yield"
    /\ access' = access - 1
    /\ Goto(c, "leave")
    /\ UNCHANGED <<waiters, event, turns, style>>

YieldWaitersOffByOne(c) ==
    /\ pc[c] = "leave"
    /\ waiters' = waiters - 1
    /\ Goto(c, IF waiters > 2 THEN "notify" ELSE "out")
    /\ UNCHANGED <<access, event, turns, style>>

(* udeal_yield: fetch_sub(waiters) > 1; upump_stop when nobody waits *)
YieldWaiters(c) ==
    /\ pc[c] = "leave"
    /\ waiters' = waiters - 1
    /\ Goto(c, IF waiters > 1 THEN "notify" ELSE "out")
    /\ UNCHANGED <<access, event, turns, style>>

(* udeal_yield: ueventfd_write, then upump_stop *)
YieldWrite(c) ==
    /\ pc[c] = "notify"
    /\ event' = TRUE
    /\ Goto(c, "out")
    /\ UNCHANGED <<waiters, access, turns, style>>

AbortInsideForgets(c) ==
    /\ style = "loop"
    /\ pc[c] = "cb"
    /\ turns[c] >= MaxTurns
    /\ Goto(c, "done")
    /\ UNCHANGED <<waiters, access, event, turns, style>>

(* udeal_abort from the call-back of a "loop" client that is done *)
AbortInside(c) ==
    /\ style = "loop"
    /\ pc[c] = "cb"
    /\ turns[c] >= MaxTurns
    /\ waiters' = waiters - 1
    /\ Goto(c, "done")
    /\ UNCHANGED <<access, event, turns, style>>

AbortOutsideForgets(c) ==
    /\ style = "open"
    /\ pc[c] = "loop"
    /\ Goto(c, "out")
    /\ UNCHANGED <<waiters, access, event, turns, style>>

(* udeal_abort of an "open" client whose pipe changes its mind *)
AbortOutside(c) ==
    /\ style = "open"
    /\ pc[c] = "loop"
    /\ waiters' = waiters - 1
    /\ Goto(c, "out")
    /\ UNCHANGED <<access, event, turns, style>>

(* What c does once it is called: none of it waits for anything.           *)
Run(c) ==
    \/ GrabAdd(c) \/ GrabRead(c) \/ GrabSub(c) \/ GrabWrite(c)
    \/ Use(c) \/ YieldAccess(c) \/ YieldWaiters(c) \/ YieldWrite(c)
    \/ AbortInside(c)

DealNext == \E c \in Clients :
            DealStart(c) \/ Trigger(c) \/ Run(c) \/ AbortOutside(c)

DealSpec == DealInit /\ [][DealNext]_dealVars

(* Threads are scheduled, and an event loop with a readable descriptor     *)
(* runs its watcher.  Nothing obliges a client to ask for access.          *)
DealFairness == \A c \in Clients : WF_dealVars(Trigger(c) \/ Run(c))

DealFairSpec == DealSpec /\ DealFairness

-----------------------------------------------------------------------------
DealTypeOK ==
    /\ waiters \in Nat
    /\ access \in Nat
    /\ event \in BOOLEAN
    /\ style \in Styles
    /\ turns \in [Clients -> Nat]
    /\ pc \in [Clients -> States]

(* The resource is non-reentrant (udeal.h:48): two clients are never       *)
(* between a successful udeal_grab and the fetch_sub of udeal_yield.       *)
MutualExclusion == \A c, d \in In(Critical) : c = d

(* What a failed grab or an abort adds to the counters, it takes back:     *)
(* access is free unless a client is between a grab and a yield, and       *)
(* waiters is zero, so that the next start runs at once, just when all     *)
(* clients are away.                                                       *)
CountersSettle ==
    /\ access = 0 <=> In(Attempting \cup Critical) = {}
    /\ waiters = 0 <=> Clients = In(Idle \cup {"notify"})

(* No wake-up is lost: a client never waits for a descriptor that is not   *)
(* readable while every other client is away or waits as well.  A failed   *)
(* grab drains the descriptor, which is shared, after having seen another  *)
(* client, and both may be leaving at that moment.                         *)
NoLostWakeup ==
    In({"loop"}) # {} /\ ~event => In(States \ (Idle \cup {"loop"})) # {}

(* A client that waits gets called once the others have gone for good,     *)
(* whatever they did to the descriptor while they were there.              *)
SoloProgress ==
    \A c \in Clients :
        <>[](\A d \in Clients \ {c} : pc[d] \in Idle)
            => []<>(pc[c] \in Idle \cup Critical)
=============================================================================
