-------------------------------- MODULE MCA2A --------------------------------
(* TLC instance of A2ABridge: one task a graph node starts, one task any     *)
(* other client starts.                                                      *)
EXTENDS A2ABridge
=============================================================================
