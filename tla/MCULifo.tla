------------------------------- MODULE MCULifo ------------------------------
(* A ulifo whose two lists are both opened.                                *)
EXTENDS ULifo

BothLists == {"lifo_empty", "lifo_carrier"}
=============================================================================
