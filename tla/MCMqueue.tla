------------------------------ MODULE MCMqueue ------------------------------
(* Mqueue for TLC: two processes of one thread. *)
EXTENDS Mqueue, TLC

CONSTANTS a, b

MCProcOf == (a :> a) @@ (b :> b)
=============================================================================
