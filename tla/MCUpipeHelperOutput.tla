------------------------ MODULE MCUpipeHelperOutput ------------------------
(* Every handler may make any call of the pipe.                            *)
EXTENDS UpipeHelperOutput

AnyHandlers == [e \in Event |-> Calls]
=============================================================================
