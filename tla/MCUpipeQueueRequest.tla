-------------------------- MODULE MCUpipeQueueRequest ----------------------
(* Two sinks of one source, with a request at each.                        *)
EXTENDS UpipeQueueRequest

CONSTANTS s1, s2, r1, r2

AtTwoSinks == (r1 :> s1) @@ (r2 :> s2)
=============================================================================
