------------------------------ MODULE MCFutex ------------------------------
(* Futex for TLC: two futexes, one word each, and no timeouts. *)
EXTENDS Futex

CONSTANTS t1, t2, k1, k2

MCKey == {k1, k2}
MCWordOf == [k \in Key |-> k]
MCBit == {1, 2}
MCMaskAll == {{1, 2}}
MCForever == {NoTimeout}
=============================================================================
