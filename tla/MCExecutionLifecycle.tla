------------------------ MODULE MCExecutionLifecycle ------------------------
(* The launch order for TLC.                                                *)
EXTENDS ExecutionLifecycle

Two == <<"p1", "p2">>
=============================================================================
