----------------------------- MODULE MCFutexPI -----------------------------
(* FutexPI for TLC. *)
EXTENDS FutexPI

CONSTANTS a, b, c, l1
=============================================================================
