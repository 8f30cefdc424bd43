---------------------------- MODULE UpipeTransfer --------------------------
(***************************************************************************)
(* Pipes that are run by the event loop of another thread, through a       *)
(* transfer manager and a proxy (xfer pipe) for each remote pipe           *)
(* (lib/upipe-modules/upipe_transfer.c).  The main thread sends commands   *)
(* over the queue of the manager; events of a remote pipe, and its death,  *)
(* come back over the queue of its xfer pipe.                              *)
(*                                                                         *)
(* A push on a uqueue takes two steps: the element can be popped after the *)
(* first (ufifo_push), the counter and the descriptor are written in the   *)
(* second.  A watcher runs when its descriptor is readable, and then pops  *)
(* until the queue is empty: module UQueue shows that this loses no        *)
(* element.  Memory is always available, and an xfer pipe is attached to   *)
(* the main event loop as soon as it is allocated.  A freeze may fail: it  *)
(* keeps its reference on the manager then, and one such failure, which is *)
(* as good as many, is the bound.                                          *)
(*                                                                         *)
(* The specification has names of its own, TransferInit and so on, because *)
(* EventLoopProofs extends this module, UDeal and UpumpEv.                 *)
(***************************************************************************)
EXTENDS Integers, Sequences, FiniteSets

CONSTANTS
    Pipes,          \* xfer pipes, and the remote pipes they stand for
    QueueLength,    \* of all the queues, queue_length
    Commands,       \* what may be sent: "SET_URI", "SET_OUTPUT", ...
    Events          \* events of remote pipes

ASSUME TransferAssumption ==
    /\ IsFiniteSet(Pipes) /\ "idle" \notin Pipes
    /\ QueueLength \in 1..255
    /\ "RELEASE" \notin Commands /\ "DETACH" \notin Commands
    /\ "DEAD" \notin Events

VARIABLES
    main, remote,   \* what each thread does: "idle", or the queue it reads
    pushing, remote_pushing,    \* the queues each is about to finish a push on
    mgr_refs, used, \* references on the manager, and the application's one
    leaked,         \* a reference that a failed freeze has kept
    mgr_freed,
    attached,       \* the manager is attached to the remote event loop
    frozen,         \* the main thread has locked the remote event loop
    uqueue, readable,           \* of the manager: messages, descriptor
    xfer,           \* of a pipe: "none", "used", "released", "freed"
    xfer_refs,      \* urefcount_real
    xfer_uqueue, xfer_readable,
    alive,          \* the remote pipes
    kept,           \* those that are released, and that others may hold
    lost            \* history: a message that frees something found no room

mainVars == <<main, pushing>>
remoteVars == <<remote, remote_pushing>>
mgrVars ==
    <<mgr_refs, used, leaked, mgr_freed, attached, frozen, uqueue, readable>>
xferVars == <<xfer, xfer_refs, xfer_uqueue, xfer_readable>>
pipeVars == <<alive, kept>>
transferVars == <<mainVars, remoteVars, mgrVars, xferVars, pipeVars, lost>>

Manager == "manager"
Message(type, p) == [type |-> type, pipe |-> p]

TransferInit ==
    /\ main = "idle" /\ remote = "idle"
    /\ pushing = {} /\ remote_pushing = {}
    /\ mgr_refs = 1 /\ used = TRUE /\ leaked = FALSE /\ mgr_freed = FALSE
    /\ attached = FALSE /\ frozen = FALSE
    /\ uqueue = <<>> /\ readable = FALSE
    /\ xfer = [p \in Pipes |-> "none"]
    /\ xfer_refs = [p \in Pipes |-> 0]
    /\ xfer_uqueue = [p \in Pipes |-> <<>>]
    /\ xfer_readable = [p \in Pipes |-> FALSE]
    /\ alive = [p \in Pipes |-> FALSE] /\ kept = {}
    /\ lost = FALSE

-----------------------------------------------------------------------------
(* upipe_xfer_mgr_send: the message is lost if the queue is full.          *)
Send(type, p) ==
    IF Len(uqueue) < QueueLength
    THEN /\ uqueue' = Append(uqueue, Message(type, p))
         /\ pushing' = {Manager}
         /\ UNCHANGED lost
    ELSE /\ lost' = (lost \/ type \notin Commands)
         /\ UNCHANGED <<uqueue, pushing>>

(* The rest of the push, in the main thread.                               *)
EndPush ==
    /\ pushing # {}
    /\ pushing' = {}
    /\ readable' = TRUE
    /\ UNCHANGED <<main, remoteVars, mgr_refs, used, mgr_freed, leaked,
                   attached, frozen, uqueue, xferVars, pipeVars, lost>>

(* The main thread lets go of the manager: upipe_xfer_mgr_detach for the   *)
(* last reference.                                                         *)
ReleaseMgr ==
    /\ mgr_refs' = mgr_refs - 1
    /\ IF mgr_refs = 1 THEN Send("DETACH", Manager)
                       ELSE UNCHANGED <<uqueue, pushing, lost>>

(* The application's calls.  Some come from the call-back of an event.     *)
Calling == pushing = {}

XferAlloc(p) ==
    /\ Calling /\ used
    /\ xfer[p] = "none"
    /\ xfer' = [xfer EXCEPT ![p] = "used"]
    /\ xfer_refs' = [xfer_refs EXCEPT ![p] = 1]
    /\ mgr_refs' = mgr_refs + 1
    /\ alive' = [alive EXCEPT ![p] = TRUE]
    /\ UNCHANGED <<mainVars, remoteVars, used, mgr_freed, leaked, attached,
                   frozen, uqueue, readable, xfer_uqueue, xfer_readable, kept,
                   lost>>

(* upipe_xfer_control: the command is sent to the remote pipe.             *)
Control(p, command) ==
    /\ Calling
    /\ xfer[p] = "used"
    /\ Send(command, p)
    /\ UNCHANGED <<main, remoteVars, mgr_refs, used, mgr_freed, leaked,
                   attached, frozen, readable, xferVars, pipeVars>>

(* Mutated forms, named after the mistake, precede the steps they mutate.  *)
XferReleaseFrees(p) ==
    /\ Calling
    /\ xfer[p] = "used"
    /\ xfer' = [xfer EXCEPT ![p] =
                   IF xfer_uqueue[p] = <<>> THEN "freed" ELSE "released"]
    /\ Send("RELEASE", p)
    /\ UNCHANGED <<main, remoteVars, mgr_refs, used, mgr_freed, leaked,
                   attached, frozen, readable, xfer_refs, xfer_uqueue,
                   xfer_readable, pipeVars>>

(* upipe_xfer_no_ref, when the application releases the xfer pipe.         *)
XferRelease(p) ==
    /\ Calling
    /\ xfer[p] = "used"
    /\ xfer' = [xfer EXCEPT ![p] = "released"]
    /\ Send("RELEASE", p)
    /\ UNCHANGED <<main, remoteVars, mgr_refs, used, mgr_freed, leaked,
                   attached, frozen, readable, xfer_refs, xfer_uqueue,
                   xfer_readable, pipeVars>>

(* The application releases the manager, which must be attached.           *)
Release ==
    /\ Calling /\ used /\ attached
    /\ used' = FALSE
    /\ ReleaseMgr
    /\ UNCHANGED <<main, remoteVars, mgr_freed, leaked, attached, frozen,
                   readable, xferVars, pipeVars>>

FreezeNoLock ==
    /\ Calling /\ used /\ ~frozen
    /\ frozen' = TRUE
    /\ mgr_refs' = mgr_refs + 1
    /\ UNCHANGED <<mainVars, remoteVars, used, mgr_freed, leaked, attached,
                   uqueue, readable, xferVars, pipeVars, lost>>

(* _upipe_xfer_mgr_freeze: the event loop holds the mutex while it runs.   *)
Freeze ==
    /\ Calling /\ used /\ ~frozen
    /\ remote = "idle" /\ remote_pushing = {}
    /\ frozen' = TRUE
    /\ mgr_refs' = mgr_refs + 1
    /\ UNCHANGED <<mainVars, remoteVars, used, mgr_freed, leaked, attached,
                   uqueue, readable, xferVars, pipeVars, lost>>

(* umutex_lock fails, as it does if the manager has no mutex.              *)
FreezeFails ==
    /\ Calling /\ used /\ ~leaked
    /\ leaked' = TRUE
    /\ mgr_refs' = mgr_refs + 1
    /\ UNCHANGED <<mainVars, remoteVars, used, mgr_freed, attached, frozen,
                   uqueue, readable, xferVars, pipeVars, lost>>

Thaw ==
    /\ Calling /\ frozen
    /\ frozen' = FALSE
    /\ ReleaseMgr
    /\ UNCHANGED <<main, remoteVars, used, mgr_freed, leaked, attached,
                   readable, xferVars, pipeVars>>

-----------------------------------------------------------------------------
(* upipe_xfer_worker, in the main thread; the dispatch holds a reference.  *)
XferWatch(p) ==
    /\ main = "idle" /\ Calling
    /\ xfer[p] \in {"used", "released"} /\ xfer_readable[p]
    /\ main' = p
    /\ xfer_refs' = [xfer_refs EXCEPT ![p] = @ + 1]
    /\ UNCHANGED <<pushing, remoteVars, mgrVars, xfer, xfer_uqueue,
                   xfer_readable, pipeVars, lost>>

XferPopDeadOnce(p) ==
    /\ main = p /\ Calling
    /\ xfer_uqueue[p] # <<>>
    /\ xfer_uqueue' = [xfer_uqueue EXCEPT ![p] = Tail(@)]
    /\ xfer_refs' = [xfer_refs EXCEPT ![p] = @ - 1]
    /\ UNCHANGED <<mainVars, remoteVars, mgrVars, xfer, xfer_readable,
                   pipeVars, lost>>

(* The reference of the message is released, and for DEAD the one of the   *)
(* xfer pipe itself.                                                       *)
XferPop(p) ==
    /\ main = p /\ Calling
    /\ xfer_uqueue[p] # <<>>
    /\ xfer_uqueue' = [xfer_uqueue EXCEPT ![p] = Tail(@)]
    /\ xfer_refs' = [xfer_refs EXCEPT ![p] =
                       IF Head(xfer_uqueue[p]) = "DEAD" THEN @ - 2 ELSE @ - 1]
    /\ UNCHANGED <<mainVars, remoteVars, mgrVars, xfer, xfer_readable,
                   pipeVars, lost>>

(* The queue is empty.  The last reference may be that of the dispatch:    *)
(* upipe_xfer_free.                                                        *)
XferEnd(p) ==
    /\ main = p /\ Calling
    /\ xfer_uqueue[p] = <<>>
    /\ main' = "idle"
    /\ xfer_readable' = [xfer_readable EXCEPT ![p] = FALSE]
    /\ xfer_refs' = [xfer_refs EXCEPT ![p] = @ - 1]
    /\ IF xfer_refs[p] = 1
       THEN xfer' = [xfer EXCEPT ![p] = "freed"] /\ ReleaseMgr
       ELSE UNCHANGED <<xfer, mgr_refs, uqueue, pushing, lost>>
    /\ UNCHANGED <<remoteVars, used, mgr_freed, leaked, attached, frozen,
                   readable, xfer_uqueue, pipeVars>>

-----------------------------------------------------------------------------
(* The remote thread.                                                      *)
Running == remote_pushing = {} /\ ~frozen

(* _upipe_xfer_mgr_attach                                                  *)
Attach ==
    /\ Running /\ used /\ ~attached
    /\ attached' = TRUE
    /\ UNCHANGED <<mainVars, remoteVars, mgr_refs, used, mgr_freed, leaked,
                   frozen, uqueue, readable, xferVars, pipeVars, lost>>

(* A message to the main thread, which counts as a reference, and is lost  *)
(* if the queue is full.                                                   *)
SendBack(p, type) ==
    IF Len(xfer_uqueue[p]) < QueueLength
    THEN /\ xfer_uqueue' = [xfer_uqueue EXCEPT ![p] = Append(@, type)]
         /\ xfer_refs' = [xfer_refs EXCEPT ![p] = @ + 1]
         /\ remote_pushing' = {p}
         /\ UNCHANGED lost
    ELSE /\ lost' = (lost \/ type = "DEAD")
         /\ UNCHANGED <<xfer_uqueue, xfer_refs, remote_pushing>>

EndRemotePush(p) ==
    /\ p \in remote_pushing
    /\ remote_pushing' = {}
    /\ xfer_readable' = [xfer_readable EXCEPT ![p] = TRUE]
    /\ UNCHANGED <<mainVars, remote, mgrVars, xfer, xfer_refs, xfer_uqueue,
                   pipeVars, lost>>

(* upipe_xfer_probe, on an event of a remote pipe.                         *)
Event(p, e) ==
    /\ Running /\ attached
    /\ remote = "idle"
    /\ alive[p]
    /\ SendBack(p, e)
    /\ UNCHANGED <<mainVars, remote, mgrVars, xfer, xfer_readable, pipeVars>>

(* upipe_xfer_mgr_worker                                                   *)
Watch ==
    /\ Running /\ attached /\ ~mgr_freed
    /\ remote = "idle" /\ readable
    /\ remote' = Manager
    /\ UNCHANGED <<mainVars, remote_pushing, mgrVars, xferVars, pipeVars,
                   lost>>

Popped ==
    /\ remote = Manager /\ Running
    /\ uqueue # <<>>
    /\ uqueue' = Tail(uqueue)

PopCommand ==
    /\ Popped
    /\ Head(uqueue).type \in Commands
    /\ UNCHANGED <<mainVars, remoteVars, mgr_refs, used, mgr_freed, leaked,
                   attached, frozen, readable, xferVars, pipeVars, lost>>

(* The remote pipe is released, but may have other users, such as a pipe   *)
(* that it is the output of.                                               *)
PopRelease ==
    /\ Popped
    /\ Head(uqueue).type = "RELEASE"
    /\ kept' = kept \cup {Head(uqueue).pipe}
    /\ UNCHANGED <<mainVars, remoteVars, mgr_refs, used, mgr_freed, leaked,
                   attached, frozen, readable, xferVars, alive, lost>>

(* upipe_xfer_probe_free: at once, or when the others have let go.         *)
Die(p) ==
    /\ Running
    /\ p \in kept
    /\ kept' = kept \ {p}
    /\ alive' = [alive EXCEPT ![p] = FALSE]
    /\ SendBack(p, "DEAD")
    /\ UNCHANGED <<mainVars, remote, mgrVars, xfer, xfer_readable>>

PopDetach ==
    /\ Popped
    /\ Head(uqueue).type = "DETACH"
    /\ mgr_freed' = TRUE
    /\ remote' = "idle"
    /\ UNCHANGED <<mainVars, remote_pushing, mgr_refs, used, leaked, attached,
                   frozen, readable, xferVars, pipeVars, lost>>

EndWatch ==
    /\ remote = Manager /\ Running
    /\ uqueue = <<>>
    /\ remote' = "idle"
    /\ readable' = FALSE
    /\ UNCHANGED <<mainVars, remote_pushing, mgr_refs, used, mgr_freed, leaked,
                   attached, frozen, uqueue, xferVars, pipeVars, lost>>

-----------------------------------------------------------------------------
XferThread(p) == XferPop(p) \/ XferEnd(p) \/ EndRemotePush(p)
Worker == PopCommand \/ PopRelease \/ PopDetach \/ EndWatch

TransferNext ==
    \/ \E p \in Pipes :
         \/ XferAlloc(p) \/ XferRelease(p)
         \/ \E c \in Commands : Control(p, c)
         \/ XferWatch(p) \/ XferThread(p)
         \/ \E e \in Events : Event(p, e)
         \/ Die(p)
    \/ Release \/ Freeze \/ FreezeFails \/ Thaw \/ EndPush
    \/ Attach \/ Watch \/ Worker

TransferSpec == TransferInit /\ [][TransferNext]_transferVars

(* Each thread goes on with what it began, its event loop runs a watcher   *)
(* that stays ready, the application thaws what it freezes, and whoever    *)
(* else uses a remote pipe lets go of it.                                  *)
TransferFairSpec ==
    /\ TransferSpec
    /\ \A p \in Pipes :
         /\ SF_transferVars(XferWatch(p)) /\ WF_transferVars(XferThread(p))
         /\ SF_transferVars(Die(p))
    /\ WF_transferVars(Thaw) /\ WF_transferVars(EndPush)
    /\ SF_transferVars(Watch) /\ SF_transferVars(Worker)

-----------------------------------------------------------------------------
Messages ==
    [type : Commands \cup {"RELEASE", "DETACH"}, pipe : Pipes \cup {Manager}]

TransferTypeOK ==
    /\ main \in Pipes \cup {"idle"} /\ remote \in {"idle", Manager}
    /\ pushing \subseteq {Manager} /\ remote_pushing \subseteq Pipes
    /\ mgr_refs \in Nat
    /\ {used, leaked, mgr_freed, attached, frozen, readable, lost}
         \subseteq BOOLEAN
    /\ uqueue \in Seq(Messages) /\ Len(uqueue) <= QueueLength
    /\ xfer \in [Pipes -> {"none", "used", "released", "freed"}]
    /\ xfer_refs \in [Pipes -> Nat]
    /\ xfer_uqueue \in [Pipes -> Seq(Events \cup {"DEAD"})]
    /\ xfer_readable \in [Pipes -> BOOLEAN]
    /\ alive \in [Pipes -> BOOLEAN] /\ kept \subseteq Pipes

(* No command reaches a remote pipe after its release, and none is left    *)
(* for the manager after its end: the messages about a pipe are for one    *)
(* that is alive, and nothing follows RELEASE, or DETACH.                  *)
CommandsInLife ==
    \A i \in DOMAIN uqueue :
      /\ uqueue[i].type = "DETACH" => i = Len(uqueue)
      /\ uqueue[i].type # "DETACH" => alive[uqueue[i].pipe] /\ ~mgr_freed
      /\ \A j \in 1..(i - 1) :
           uqueue[j].type = "RELEASE" => uqueue[i].pipe # uqueue[j].pipe

(* An xfer pipe outlives its remote pipe, which throws its events through  *)
(* it, and the messages of that, of which its death is the last; and the   *)
(* manager outlives its xfer pipes.                                        *)
Outlives ==
    \A p \in Pipes :
      /\ xfer[p] = "freed" => ~alive[p] /\ xfer_uqueue[p] = <<>>
      /\ \A i \in DOMAIN xfer_uqueue[p] :
           xfer_uqueue[p][i] = "DEAD" => i = Len(xfer_uqueue[p]) /\ ~alive[p]
      /\ mgr_freed => xfer[p] \in {"none", "freed"}

(* No message waits for what is gone, in whatever order both sides let go: *)
(* a message in a queue is about a pipe that is alive, and comes to a      *)
(* manager or an xfer pipe that is not freed.  A push whose second step is *)
(* left is no message any more; the queue it ends on may be freed by then  *)
(* (README, section 7).                                                    *)
LivesLongEnough == CommandsInLife /\ Outlives

(* "Use this function if you need to walk through the remote pipes"        *)
(* (upipe_transfer.c:640): while the remote loop is frozen it does not run *)
(* and the pipes that are in use stay alive.                               *)
FrozenIsStill ==
    frozen =>
      /\ remote = "idle" /\ remote_pushing = {} /\ ~mgr_freed
      /\ \A p \in Pipes : xfer[p] = "used" => alive[p]

(* Once the application has released everything, all is freed, if there    *)
(* was room for the messages that do it, and no freeze has failed.         *)
AllFreed ==
    ~used /\ (\A p \in Pipes : xfer[p] # "used")
      ~> \/ lost \/ leaked
         \/ mgr_freed /\ \A p \in Pipes : xfer[p] \in {"none", "freed"}
=============================================================================
