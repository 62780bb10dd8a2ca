------------------------------- MODULE MCPoll -------------------------------
(***************************************************************************)
(* An epoll that watches an epoll, for TLC: what poll_wakeup expects of a  *)
(* cascade that does not get the outer poll's lock.                        *)
(***************************************************************************)
EXTENDS Poll

CONSTANTS waiter, writer, file1, inner, outer

Watches == {<<inner, file1>>, <<outer, inner>>}
WaitsOn == {<<waiter, outer>>}
Masks == [types : {{"in"}}, et : BOOLEAN, oneshot : {FALSE}]

----------------------------------------------------------------------------
(* The same of an epoll that another watches level-triggered: poll_wakeup  *)
(* says that when it loses the race for the outer poll's lock the outer    *)
(* scanner is awake anyway and recomputes readiness.                       *)
OuterHears ==
    \A q \in Epoll, t \in Waiter : Asleep(t, q) =>
        \A k \in DOMAIN regs[q] :
            LET r == regs[q][k]
            IN  r.fd \in Epoll /\ ~ r.et /\ ~ r.disarmed /\ Reports(r.fd) \cap Heard(r) # {}
                    => \E u \in Caller : th[u].pc \in {"wake", "walk", "cascade", "ready"}
=============================================================================
