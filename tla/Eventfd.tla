------------------------------ MODULE Eventfd ------------------------------
(***************************************************************************)
(* kernel/eventfd.c: a counter that read takes from and write adds to.     *)
(* A call holds fd->lock from its start to its return or to                *)
(* wait_for_blocked, which drops it while the caller sleeps on fd->cond.   *)
(***************************************************************************)
EXTENDS Naturals

CONSTANTS
    Thread,
    MaxVal,     \* UINT64_MAX
    Increment,  \* the values the guest writes
    Semaphore   \* EFD_SEMAPHORE

(* What the constants are. *)
EventfdConstants ==
    /\ MaxVal \in Nat \ {0}
    /\ Increment \subseteq 0 .. MaxVal
    /\ Semaphore \in BOOLEAN

VARIABLES
    val,    \* fd->eventfd.val
    asleep, \* what each thread sleeps for in wait_for_blocked: "read",
            \* "write", or "no"
    inc,    \* the increment of each write under way
    woken   \* the sleepers that notify(&fd->cond) has reached

vars == <<val, asleep, inc, woken>>

Asleep == {t \in Thread : asleep[t] # "no"}
Modulus == MaxVal + 1

CanRead == val > 0

(* Mutant: the counter may reach UINT64_MAX. *)
CanWrite_Over(i) == ~ (val > MaxVal - i)

CanWrite(i) == ~ (val >= MaxVal - i)

(* What the call that t sleeps in waits for. *)
Ready(t) == IF asleep[t] = "read" THEN CanRead ELSE CanWrite(inc[t])

Init ==
    /\ val \in 0 .. MaxVal - 1
    /\ asleep = [t \in Thread |-> "no"]
    /\ inc = [t \in Thread |-> 0]
    /\ woken = {}

----------------------------------------------------------------------------
(* notify(&fd->cond) at the end of a call of t, which itself is awake. *)
Notify(t) == woken' = Asleep \ {t}

Awake(t) ==
    /\ asleep' = [asleep EXCEPT ![t] = "no"]
    /\ inc' = [inc EXCEPT ![t] = 0]

(* t goes to sleep, having dropped fd->lock in the same step. *)
Sleep(t, why, i) ==
    /\ asleep' = [asleep EXCEPT ![t] = why]
    /\ inc' = [inc EXCEPT ![t] = i]
    /\ woken' = woken \ {t}
    /\ UNCHANGED val

(* Mutant: a reader tells nobody, so a writer kept out stays asleep. *)
Take_Silent(t) ==
    /\ CanRead
    /\ val' = IF Semaphore THEN (val - 1) % Modulus ELSE 0
    /\ woken' = woken \ {t}
    /\ Awake(t)

Take(t) ==
    /\ CanRead
    /\ val' = IF Semaphore THEN (val - 1) % Modulus ELSE 0
    /\ Notify(t)
    /\ Awake(t)

Add(t, i) ==
    /\ CanWrite(i)
    /\ val' = (val + i) % Modulus
    /\ Notify(t)
    /\ Awake(t)

(* eventfd_read from its start: take, or sleep; EAGAIN changes nothing. *)
Read(t) ==
    /\ asleep[t] = "no"
    /\ \/ Take(t)
       \/ ~ CanRead /\ Sleep(t, "read", 0)

(* eventfd_write from its start; UINT64_MAX itself is EINVAL. *)
Write(t) ==
    /\ asleep[t] = "no"
    /\ \E i \in Increment \ {MaxVal} :
           \/ Add(t, i)
           \/ ~ CanWrite(i) /\ Sleep(t, "write", i)

(* The wait ends because of a notify, or because its one-second slice has; *)
(* the loop looks again.                                                   *)
Resume(t) ==
    \/ asleep[t] = "read" /\ Take(t)
    \/ asleep[t] = "write" /\ Add(t, inc[t])
    \/ t \in Asleep /\ ~ Ready(t) /\ Sleep(t, asleep[t], inc[t])

(* The wait ends with EINTR, or the descriptor was made nonblocking. *)
Interrupt(t) ==
    /\ t \in Asleep
    /\ Awake(t)
    /\ woken' = woken \ {t}
    /\ UNCHANGED val

Next == \E t \in Thread : Read(t) \/ Write(t) \/ Resume(t) \/ Interrupt(t)

Spec == Init /\ [][Next]_vars

----------------------------------------------------------------------------
TypeOK ==
    /\ val \in 0 .. MaxVal - 1
    /\ asleep \in [Thread -> {"no", "read", "write"}]
    /\ inc \in [Thread -> Increment \cup {0}]
    /\ woken \subseteq Asleep

(* No wake is lost: a reader or a writer that sleeps with no notify on its *)
(* way to it (eventfd.c:37, 71) has nothing it could do.                   *)
WakeNotLost == \A t \in Asleep \ woken : ~ Ready(t)
=============================================================================
