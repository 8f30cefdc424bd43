------------------------------- MODULE RtcpFb -------------------------------
(***************************************************************************)
(* The sending end of RTP with retransmissions:                            *)
(* lib/upipe-filters/upipe_rtcp_fb_receiver.c.                             *)
(*                                                                         *)
(* A packet is output at once and kept for the latency, in case the other  *)
(* end asks for it.  Packets are numbered from 0 on here, and the program  *)
(* only sees their sequence numbers.                                       *)
(***************************************************************************)
EXTENDS Integers, Sequences, SequencesExt, FiniteSets, FiniteSetsExt

CONSTANTS
    Modulus,        \* of sequence numbers, 2^16 in the code
    FirstSeqnum,    \* of packet 0
    Latency         \* the option of that name, at both ends

ASSUME SeqnumAssumption ==
    /\ Modulus \in Nat /\ Modulus > 1 /\ Modulus % 2 = 0
    /\ FirstSeqnum \in 0..Modulus - 1
    /\ Latency \in Nat

VARIABLES
    now,            \* uclock_now()
    kept            \* queue of the sender

Half == Modulus \div 2
Plus(seq, n) == (seq + n) % Modulus
\* As an uint16_t: how far x is after y.
Diff(x, y) == (x - y) % Modulus

Uref(p) == [pkt |-> p, cr_sys |-> now]
Seqnum(uref) == Plus(FirstSeqnum, uref.pkt)

\* The elements of a queue that a timer removes, from the first one on.
Leading(queue, Old(_)) ==
    Max({n \in 0..Len(queue) : \A k \in 1..n : Old(queue[k])})

(* upipe_rtcpfb_input                                                      *)
Keep(p) == kept' = Append(kept, Uref(p))

(* upipe_rtcpfb_timer                                                      *)
Forget ==
    LET Old(u) == now - u.cr_sys >= Latency IN
    kept' = SubSeq(kept, Leading(kept, Old) + 1, Len(kept))

Pkts(queue) == [k \in DOMAIN queue |-> queue[k].pkt]

(* upipe_rtcpfb_lost_sub: packets sent again for a request that names first*)
(* and the number of packets after it.  The queue is read once, for one of *)
(* them after the other, so that a packet it does not have stops the rest. *)
Retransmitted(first, more) ==
    LET Step(found, u) ==
          IF found <= more /\ Seqnum(u) = Plus(first, found) THEN found + 1 ELSE found
        found == FoldLeft(Step, 0, kept)
    IN  {p \in Range(Pkts(kept)) : Diff(Plus(FirstSeqnum, p), first) < found}

(* upipe_rtcpfb_lost_sub_n: the same for a request that names a range, in  *)
(* which packets it does not have are skipped.  The queue, which is in     *)
(* order, is read until the first packet after the range.                  *)
RetransmittedRange(first, n) ==
    LET From(k) == Diff(Seqnum(kept[k]), first)
        Read == {k \in DOMAIN kept : \A j \in 1..k - 1 : From(j) \notin n..Half - 1}
    IN  {kept[k].pkt : k \in {k \in Read : From(k) < n}}
=============================================================================
