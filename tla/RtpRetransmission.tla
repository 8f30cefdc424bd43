-------------------------- MODULE RtpRetransmission -------------------------
(***************************************************************************)
(* Both ends of RTP with retransmissions, over a network that delays,      *)
(* reorders, duplicates and loses what either of them sends, as in         *)
(* examples/rist_tx.c and examples/rist_rx.c.                              *)
(*                                                                         *)
(* Time is a number of ticks, and each timer of the receiver goes off at   *)
(* least once in a tick.  The sender is given a packet in each tick.       *)
(***************************************************************************)
EXTENDS RtpFb

CONSTANTS
    Packets,        \* number of packets of the stream
    MaxDelay,       \* ticks that a message can take
    MaxLosses,      \* messages that the network can lose
    Tolerated,      \* losses that the latency leaves time to repair
    Start, Horizon  \* first and last value of the clock

\* Ticks after which a packet is asked for again, for the longest round trip.
Again == (12 * 2 * MaxDelay + 9) \div 10

(* No packet is older than half of the sequence numbers, the clock is older*)
(* than a round trip, and the latency is enough for the losses tolerated:  *)
(* it takes two packets to know that one is missing, some time to ask for  *)
(* it, which a new measure of the round trip may make longer, and one trip *)
(* for each of the second packet, the request and the answer.              *)
ASSUME NetworkAssumption ==
    /\ {Packets, MaxDelay, MaxLosses, Tolerated, Start, Horizon} \subseteq Nat
    /\ Packets <= Half
    /\ Start > Latency \div 7 /\ Start > 2 * MaxDelay
    /\ Latency >= 2 + 3 * MaxDelay + Max({1, Again - Latency \div 7})
                    + (Tolerated - 1) * Again

VARIABLES
    sent,           \* packets the sender was given
    packets,        \* packets in flight, with the latest time of delivery
    nacks,          \* requests in flight
    lost,           \* messages lost
    due             \* timers that have not gone off in this tick

network == <<packets, nacks, lost>>
receiver == <<queue, expected_seqnum, buffered, last_nack, last_output, loss, out>>
vars == <<now, kept, rtt, sent, due, network, receiver>>

InFlight(p) == [pkt |-> p, due |-> now + MaxDelay]

Send ==
    /\ sent < Min({Packets, now - Start})
    /\ sent' = sent + 1
    /\ Keep(sent)
    /\ packets' = packets \cup {InFlight(sent)}
    /\ UNCHANGED <<now, rtt, due, nacks, lost, receiver>>

SenderTimer ==
    /\ Forget
    /\ UNCHANGED <<now, rtt, sent, due, network, receiver>>

\* A message that is delivered may be delivered again.
ReceivePacket(m) ==
    /\ Input(m.pkt)
    /\ packets' \in {packets, packets \ {m}}
    /\ UNCHANGED <<now, kept, rtt, sent, due, nacks, lost>>

\* A receiver may also put its request as a range, which this one does not.
ReceiveNack(m) ==
    /\ \E found \in {Retransmitted(m.request.first, m.request.more),
                     RetransmittedRange(m.request.first, m.request.more + 1)} :
         packets' = packets \cup {InFlight(p) : p \in found}
    /\ nacks' \in {nacks, nacks \ {m}}
    /\ UNCHANGED <<now, kept, rtt, sent, due, lost, receiver>>

Lose ==
    /\ lost < MaxLosses
    /\ lost' = lost + 1
    /\ \/ \E m \in packets : packets' = packets \ {m} /\ UNCHANGED nacks
       \/ \E m \in nacks : nacks' = nacks \ {m} /\ UNCHANGED packets
    /\ UNCHANGED <<now, kept, rtt, sent, due, receiver>>

Timer ==
    /\ Output
    /\ due' = due \ {"timer"}
    /\ UNCHANGED <<now, kept, rtt, sent, network>>

TimerLost ==
    \E requests \in {{Request(k) : k \in RipeHoles}} :
      /\ Ask(requests)
      /\ nacks' = nacks \cup
           {[request |-> r, due |-> now + MaxDelay] : r \in requests}
      /\ due' = due \ {"lost"}
      /\ UNCHANGED <<now, kept, rtt, sent, packets, lost>>

(* The part of upipe_rtpfb_output_input about DLRR: a measure of the round *)
(* trip.                                                                   *)
Measure(r) ==
    /\ rtt' = r
    /\ UNCHANGED <<now, kept, sent, due, network, receiver>>

Tick ==
    /\ now < Horizon /\ due = {}
    /\ sent = Min({Packets, now - Start})
    /\ \A m \in packets \cup nacks : m.due > now
    /\ now' = now + 1
    /\ due' = {"timer", "lost"}
    /\ UNCHANGED <<kept, rtt, sent, network, receiver>>

Init ==
    /\ now = Start /\ sent = 0 /\ lost = 0 /\ rtt = 0
    /\ kept = <<>> /\ packets = {} /\ nacks = {} /\ due = {}
    /\ queue = <<>> /\ expected_seqnum = None /\ buffered = 0
    /\ last_nack = [s \in 0..Modulus - 1 |-> 0]
    /\ last_output = None /\ loss = 0 /\ out = <<>>

Next ==
    \/ Send \/ SenderTimer \/ Lose \/ Timer \/ TimerLost \/ Tick
    \/ \E m \in packets : ReceivePacket(m)
    \/ \E m \in nacks : ReceiveNack(m)
    \/ \E r \in 1..2 * MaxDelay : Measure(r)

Spec == Init /\ [][Next]_vars

-----------------------------------------------------------------------------
(* Sequence numbers that wrap put the packets in the order in which they   *)
(* were sent: what is held follows what was output, without duplicates, and*)
(* the next packet is expected after the last one.                         *)
Increasing(s) == \A k \in 2..Len(s) : s[k - 1] < s[k]

Ordered ==
    /\ Increasing(out \o Pkts(queue))
    /\ buffered = Len(queue)
    /\ IF queue = <<>> THEN expected_seqnum = None
       ELSE expected_seqnum = Plus(Seqnum(Last(queue)), 1)

(* A packet leaves a tick after its latency at most, be it repaired: times *)
(* never decrease along the queue, although only the first ones are read.  *)
OnTime ==
    /\ \A k \in 2..Len(queue) : queue[k - 1].cr_sys <= queue[k].cr_sys
    /\ \A k \in DOMAIN queue : now - queue[k].cr_sys <= Latency + 1

(* Each packet that is missing between two others is marked, so that it    *)
(* will be asked for: "if packet was lost, we should have detected it      *)
(* already" (upipe_rtp_feedback.c:406), be the packets reordered or late.  *)
HolesMarked == \A k \in Holes : \A s \in Hole(k) : last_nack[s] # 0

(* As long as the network loses no more messages than the latency leaves   *)
(* time to repair, whichever they are, no packet is missing from what is   *)
(* output, from the first one that is received on.                         *)
Repaired ==
    lost <= Tolerated =>
      /\ loss = 0
      /\ \A k \in 2..Len(out) : out[k] = out[k - 1] + 1
=============================================================================
