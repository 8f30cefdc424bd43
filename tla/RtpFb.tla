-------------------------------- MODULE RtpFb -------------------------------
(***************************************************************************)
(* The receiving end of RTP with retransmissions:                          *)
(* lib/upipe-filters/upipe_rtp_feedback.c.                                 *)
(*                                                                         *)
(* Packets are held for the latency, in the order of sequence numbers.  A  *)
(* timer outputs those that are old enough and another one asks for those  *)
(* that are missing.                                                       *)
(***************************************************************************)
EXTENDS RtcpFb

CONSTANTS
    NackSpan,       \* packets a request can name after the first one, 16
    None

ASSUME FeedbackAssumption == NackSpan \in Nat /\ None \notin Int

VARIABLES
    queue, expected_seqnum, buffered, last_nack, rtt, last_output, loss,
    out             \* what was output since the queue was last restarted

Rtt == IF rtt = 0 THEN Latency \div 7 ELSE rtt

\* The sequence numbers from x up to y excluded.
Between(x, y) == {s \in 0..Modulus - 1 : Diff(s, x) < Diff(y, x)}

(* The end of upipe_rtpfb_input: a packet from the future goes to the end, *)
(* and those that it reveals to be missing are marked.                     *)
AddMarksLess(u, expected) ==
    LET s == Seqnum(u)
        missing == Between(expected, s) \ {expected}
    IN  /\ queue' = Append(queue, u)
        /\ last_nack' = [q \in 0..Modulus - 1 |->
             IF q = s THEN 0
             ELSE IF q \in missing /\ last_nack[q] = 0 THEN now - Rtt
             ELSE last_nack[q]]
        /\ buffered' = buffered + 1
        /\ expected_seqnum' = Plus(s, 1)

Add(u, expected) ==
    LET s == Seqnum(u)
        missing == Between(expected, s)
    IN  /\ queue' = Append(queue, u)
        /\ last_nack' = [q \in 0..Modulus - 1 |->
             IF q = s THEN 0
             ELSE IF q \in missing /\ last_nack[q] = 0 THEN now - Rtt
             ELSE last_nack[q]]
        /\ buffered' = buffered + 1
        /\ expected_seqnum' = Plus(s, 1)

InsertKeepsTime(u) ==
    LET s == Seqnum(u)
        k == Min({i \in DOMAIN queue : Diff(s, Seqnum(queue[i])) \notin 1..Half - 1})
    IN  IF s = Seqnum(queue[k]) \/ k = 1
        THEN UNCHANGED <<queue, last_nack, buffered, expected_seqnum>>
        ELSE /\ queue' = InsertAt(queue, k, u)
             /\ last_nack' = [last_nack EXCEPT ![s] = 0]
             /\ buffered' = buffered + 1
             /\ UNCHANGED expected_seqnum

(* upipe_rtpfb_insert: a packet from the past goes before the first one    *)
(* that is after it, at the time of the one before, unless it is already   *)
(* there or all the packets are after it.                                  *)
Insert(u) ==
    LET s == Seqnum(u)
        k == Min({i \in DOMAIN queue : Diff(s, Seqnum(queue[i])) \notin 1..Half - 1})
    IN  IF s = Seqnum(queue[k]) \/ k = 1
        THEN UNCHANGED <<queue, last_nack, buffered, expected_seqnum>>
        ELSE /\ queue' = InsertAt(queue, k,
                                  [u EXCEPT !.cr_sys = queue[k - 1].cr_sys])
             /\ last_nack' = [last_nack EXCEPT ![s] = 0]
             /\ buffered' = buffered + 1
             /\ UNCHANGED expected_seqnum

(* upipe_rtpfb_input                                                       *)
Input(p) ==
    LET u == Uref(p)
        expected == IF expected_seqnum = None THEN Seqnum(u)
                    ELSE expected_seqnum
    IN  /\ IF Diff(Seqnum(u), expected) < Half THEN Add(u, expected) ELSE Insert(u)
        /\ out' = IF expected_seqnum = None THEN <<>> ELSE out
        /\ UNCHANGED <<last_output, loss>>

OutputKeepsExpected ==
    LET Old(u) == now - u.cr_sys > Latency
        n == Leading(queue, Old)
        seqnum(k) == IF k = 0 THEN last_output ELSE Seqnum(queue[k])
        gap(k) == IF seqnum(k - 1) = None THEN 0
                  ELSE Diff(seqnum(k), seqnum(k - 1) + 1)
    IN  /\ queue' = SubSeq(queue, n + 1, Len(queue))
        /\ out' = out \o [k \in 1..n |-> queue[k].pkt]
        /\ last_output' = seqnum(n)
        /\ loss' = loss + MapThenSumSet(gap, 1..n)
        /\ buffered' = buffered - n
        /\ UNCHANGED <<last_nack, expected_seqnum>>

(* upipe_rtpfb_timer                                                       *)
Output ==
    LET Old(u) == now - u.cr_sys > Latency
        n == Leading(queue, Old)
        seqnum(k) == IF k = 0 THEN last_output ELSE Seqnum(queue[k])
        gap(k) == IF seqnum(k - 1) = None THEN 0
                  ELSE Diff(seqnum(k), seqnum(k - 1) + 1)
    IN  /\ queue' = SubSeq(queue, n + 1, Len(queue))
        /\ out' = out \o [k \in 1..n |-> queue[k].pkt]
        /\ last_output' = seqnum(n)
        /\ loss' = loss + MapThenSumSet(gap, 1..n)
        /\ buffered' = buffered - n
        /\ expected_seqnum' = IF n > 0 /\ buffered' = 0 THEN None
                              ELSE expected_seqnum
        /\ UNCHANGED last_nack

(* The holes that are neither too recent nor asked for too recently:       *)
(* rtt * 12 / 10 ago, in units of time that are much smaller than here.    *)
Hole(k) == Between(Plus(Seqnum(queue[k - 1]), 1), Seqnum(queue[k]))
Holes == {k \in 2..Len(queue) : Hole(k) # {}}
Ripe(s) == last_nack[s] = 0 \/ 10 * (now - last_nack[s]) >= 12 * Rtt
RipeHoles == {k \in Holes : \A s \in Hole(k) : Ripe(s)}

Request(k) ==
    [first |-> Plus(Seqnum(queue[k - 1]), 1),
     more |-> Min({NackSpan, Cardinality(Hole(k)) - 1})]

AskMarksAll(requests) ==
    /\ requests = {Request(k) : k \in RipeHoles}
    /\ last_nack' = [s \in 0..Modulus - 1 |->
         IF \E k \in Holes : s \in Hole(k) THEN now ELSE last_nack[s]]
    /\ UNCHANGED <<queue, expected_seqnum, buffered, last_output, loss, out>>

(* upipe_rtpfb_timer_lost, with the requests that it sends.                *)
Ask(requests) ==
    /\ requests = {Request(k) : k \in RipeHoles}
    /\ last_nack' = [s \in 0..Modulus - 1 |->
         IF \E k \in RipeHoles : s \in Hole(k) THEN now ELSE last_nack[s]]
    /\ UNCHANGED <<queue, expected_seqnum, buffered, last_output, loss, out>>
=============================================================================
