------------------------------- MODULE UpumpEv ------------------------------
(***************************************************************************)
(* Pumps and blockers (lib/upipe/upump_common.c) over a libev event loop   *)
(* (lib/upump-ev/upump_ev.c).  A pump that is started is active in the     *)
(* loop while it has no blocker.  The loop runs while its count of active  *)
(* watchers is not zero; a pump whose status is false takes itself out of  *)
(* the count.                                                              *)
(*                                                                         *)
(* One thread runs the loop and everything else: the steps of the client   *)
(* are calls made by the call-backs of pumps, in any order.  What libev    *)
(* does to a watcher is modelled from its use: starting one that is active *)
(* or stopping one that is not has no effect on the count, stopping also   *)
(* cancels a call-back that is due, and a timer without repeat stops when  *)
(* it expires, before its call-back runs.                                  *)
(***************************************************************************)
EXTENDS Integers, FiniteSets

CONSTANTS
    Fds, OneShots, Repeats,     \* pumps on descriptors, signals or idlers,
                                \* timers that trigger once, and again and again
    NonBlocking,    \* the pumps whose status the client may set to false
    Restarted,      \* the timers that it may restart
    MaxBlockers     \* bound on the blockers of one pump

Pumps == Fds \cup OneShots \cup Repeats
Timers == OneShots \cup Repeats

ASSUME PumpsAssumption ==
    /\ IsFiniteSet(Pumps)
    /\ Fds \cap Timers = {} /\ OneShots \cap Repeats = {}
    /\ NonBlocking \subseteq Pumps
    /\ Restarted \subseteq Timers
    /\ MaxBlockers \in Nat

VARIABLES
    allocated,
    started, status, blockers,  \* upump_common; how many blockers
    active, due,    \* of the ev watcher: it is active, its call-back is due
    count           \* the loop's count of active watchers

vars == <<allocated, started, status, blockers, active, due, count>>

Unblocked(p) == blockers[p] = 0
One(b) == IF b THEN 1 ELSE 0

Init ==
    /\ allocated = [p \in Pumps |-> FALSE]
    /\ started = [p \in Pumps |-> FALSE]
    /\ status = [p \in Pumps |-> TRUE]
    /\ blockers = [p \in Pumps |-> 0]
    /\ active = [p \in Pumps |-> FALSE]
    /\ due = [p \in Pumps |-> FALSE]
    /\ count = 0

-----------------------------------------------------------------------------
RealStart(p, s) ==                                   \* upump_ev_real_start
    /\ active' = [active EXCEPT ![p] = TRUE]
    /\ count' = count + One(~active[p]) - One(~s)
    /\ UNCHANGED due

RealStop(p, s) ==                                    \* upump_ev_real_stop
    /\ active' = [active EXCEPT ![p] = FALSE]
    /\ count' = count + One(~s) - One(active[p])
    /\ due' = [due EXCEPT ![p] = FALSE]

(* upump_ev_real_restart: ev_timer_again, or stop if active and start.     *)
(* Only these cancel a call-back that is due.                              *)
RealRestart(p) ==
    /\ active' = [active EXCEPT ![p] = TRUE]
    /\ count' = count + One(~active[p])
    /\ due' = [due EXCEPT ![p] = due[p] /\ ~active[p]]

Same == UNCHANGED <<active, due, count>>

-----------------------------------------------------------------------------
(* The calls.  Mutated forms, named after the mistake, precede the steps   *)
(* they mutate.  First upump_alloc: ev_init leaves the watcher inactive.   *)
Alloc(p) ==
    /\ ~allocated[p]
    /\ allocated' = [allocated EXCEPT ![p] = TRUE]
    /\ started' = [started EXCEPT ![p] = FALSE]
    /\ status' = [status EXCEPT ![p] = TRUE]
    /\ blockers' = [blockers EXCEPT ![p] = 0]
    /\ Same

(* upump_common_start                                                      *)
Start(p) ==
    /\ allocated[p]
    /\ ~started[p]
    /\ started' = [started EXCEPT ![p] = TRUE]
    /\ IF Unblocked(p) THEN RealStart(p, status[p]) ELSE Same
    /\ UNCHANGED <<allocated, status, blockers>>

(* upump_common_restart                                                    *)
Restart(p) ==
    /\ allocated[p]
    /\ p \in Restarted
    /\ started' = [started EXCEPT ![p] = TRUE]
    /\ IF Unblocked(p) THEN RealRestart(p) ELSE Same
    /\ UNCHANGED <<allocated, status, blockers>>

(* upump_common_stop                                                       *)
Stop(p) ==
    /\ allocated[p]
    /\ started[p]
    /\ started' = [started EXCEPT ![p] = FALSE]
    /\ IF Unblocked(p) THEN RealStop(p, status[p]) ELSE Same
    /\ UNCHANGED <<allocated, status, blockers>>

SetStatusInPlace(p, s) ==
    /\ allocated[p]
    /\ s \/ p \in NonBlocking
    /\ status' = [status EXCEPT ![p] = s]
    /\ Same
    /\ UNCHANGED <<allocated, started, blockers>>

(* upump_common_set_status: the pump is stopped with its old status and    *)
(* started with the new one.                                               *)
SetStatus(p, s) ==
    /\ allocated[p]
    /\ s \/ p \in NonBlocking
    /\ status' = [status EXCEPT ![p] = s]
    /\ IF started[p] /\ Unblocked(p)
       THEN /\ active' = [active EXCEPT ![p] = TRUE]
            /\ due' = [due EXCEPT ![p] = FALSE]
            /\ count' = count + One(~status[p]) - One(active[p]) + 1 - One(~s)
       ELSE Same
    /\ UNCHANGED <<allocated, started, blockers>>

(* upump_common_blocker_alloc                                              *)
AllocBlocker(p) ==
    /\ allocated[p]
    /\ blockers[p] < MaxBlockers
    /\ blockers' = [blockers EXCEPT ![p] = @ + 1]
    /\ IF started[p] /\ Unblocked(p) THEN RealStop(p, status[p]) ELSE Same
    /\ UNCHANGED <<allocated, started, status>>

FreeBlockerForgetsStart(p) ==
    /\ blockers[p] > 0
    /\ blockers' = [blockers EXCEPT ![p] = @ - 1]
    /\ Same
    /\ UNCHANGED <<allocated, started, status>>

FreeBlockerTooEarly(p) ==
    /\ blockers[p] > 0
    /\ blockers' = [blockers EXCEPT ![p] = @ - 1]
    /\ IF started[p] THEN RealStart(p, status[p]) ELSE Same
    /\ UNCHANGED <<allocated, started, status>>

(* upump_common_blocker_free                                               *)
FreeBlocker(p) ==
    /\ blockers[p] > 0
    /\ blockers' = [blockers EXCEPT ![p] = @ - 1]
    /\ IF started[p] /\ blockers[p] = 1 THEN RealStart(p, status[p]) ELSE Same
    /\ UNCHANGED <<allocated, started, status>>

(* upump_ev_free: the pump is stopped, and the owners of its blockers are  *)
(* called, who free them.                                                  *)
Free(p) ==
    /\ allocated[p]
    /\ allocated' = [allocated EXCEPT ![p] = FALSE]
    /\ started' = [started EXCEPT ![p] = FALSE]
    /\ blockers' = [blockers EXCEPT ![p] = 0]
    /\ IF started[p] /\ Unblocked(p) THEN RealStop(p, status[p]) ELSE Same
    /\ UNCHANGED <<status>>

-----------------------------------------------------------------------------
(* libev: something happens on a watcher that is active, and its call-back *)
(* is due; a timer without repeat stops.                                   *)
Happen(p) ==
    /\ active[p]
    /\ ~due[p]
    /\ due' = [due EXCEPT ![p] = TRUE]
    /\ IF p \in OneShots
       THEN active' = [active EXCEPT ![p] = FALSE] /\ count' = count - 1
       ELSE UNCHANGED <<active, count>>
    /\ UNCHANGED <<allocated, started, status, blockers>>

(* upump_common_dispatch: the call-back runs, and makes any calls next.    *)
Dispatch(p) ==
    /\ due[p]
    /\ due' = [due EXCEPT ![p] = FALSE]
    /\ UNCHANGED <<allocated, started, status, blockers, active, count>>

Client(p) ==
    \/ Alloc(p) \/ Start(p) \/ Restart(p) \/ Stop(p) \/ Free(p)
    \/ \E s \in BOOLEAN : SetStatus(p, s)
    \/ AllocBlocker(p) \/ FreeBlocker(p)

Loop(p) == Happen(p) \/ Dispatch(p)

Next == \E p \in Pumps : Client(p) \/ Loop(p)

Spec == Init /\ [][Next]_vars

-----------------------------------------------------------------------------
TypeOK ==
    /\ allocated \in [Pumps -> BOOLEAN]
    /\ started \in [Pumps -> BOOLEAN]
    /\ status \in [Pumps -> BOOLEAN]
    /\ blockers \in [Pumps -> 0..MaxBlockers]
    /\ active \in [Pumps -> BOOLEAN]
    /\ due \in [Pumps -> BOOLEAN]
    /\ count \in Int

(* No call-back runs, and no watcher is active, for a pump that is freed,  *)
(* stopped or blocked, whatever the calls that brought it there.           *)
Gated ==
    \A p \in Pumps :
      active[p] \/ due[p] => allocated[p] /\ started[p] /\ Unblocked(p)

(* A pump that is started and has no blocker left is active, however it    *)
(* was blocked, restarted or had its status changed meanwhile.             *)
Armed ==
    \A p \in Fds \cup Repeats : started[p] /\ Unblocked(p) => active[p]

(* A watcher is active just as long as its pump may run: neither a call    *)
(* nor a sequence of calls leaves one running that should not, or the      *)
(* other way round.                                                        *)
RunsAsAsked == Gated /\ Armed

(* The loop counts the active pumps, but those with status false: it       *)
(* returns when only such pumps are active ("whether the event loop will   *)
(* quit if the pump is the only active pump", upump.h:368).                *)
CountExact ==
    count = Cardinality({p \in Pumps : active[p] /\ status[p]})
=============================================================================
