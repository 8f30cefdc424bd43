---------------------------- MODULE MCUbufBlock ----------------------------
EXTENDS UbufBlockRead, TLC

CONSTANTS b1, b2

(* Three octets in all; what is deleted from the head leaves room for     *)
(* prepending.                                                             *)
PayloadOf == b1 :> <<1, 2>> @@ b2 :> <<3>>
HeadroomOf == b1 :> 0 @@ b2 :> 0
SomeWords == {<<1, 1>>, <<2, 3>>}

(* What TLC tells states apart by: no action reads the last call, and the  *)
(* handles are interchangeable, so that only the heads they have count.    *)
Distinct == <<{<<head, Cardinality({h \in Handles : block[h] = head})>> :
                 head \in {block[h] : h \in Handles}}, refs, mem>>
=============================================================================
