----------------------------- MODULE MCFileLock -----------------------------
(* FileLock for TLC: two processes of one thread, and two files. *)
EXTENDS FileLock

CONSTANTS p1, p2, i1, i2

(* Each thread is its own owner. *)
MCMine == [t \in Thread |-> {t}]

(* Enough for locks in each other's way. *)
MCFlockOne == [offset : {0}, start : {0}, len : {1}]
=============================================================================
