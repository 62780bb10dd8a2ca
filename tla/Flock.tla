------------------------------- MODULE Flock -------------------------------
(***************************************************************************)
(* fs/lock.c, flock(2): the whole-file locks of one inode, owned by open   *)
(* file descriptions, which several threads may use (after a fork, or in   *)
(* one process).  A call holds inode->lock but in wait_for_blocked.        *)
(***************************************************************************)
EXTENDS Naturals

CONSTANTS
    Caller,
    Fd,         \* open file descriptions of the file
    Users,      \* the threads that may use each description
    MaxOpens    \* bound: how often each is opened

(* What the constants are. *)
FlockConstants == Users \in [Fd -> SUBSET Caller] /\ MaxOpens \in Nat

VARIABLES
    flock_locks,    \* what is on inode->flock_locks: owner and type.  Nothing
                    \* depends on its order, or on a lock being there twice
    open,           \* the descriptions some descriptor table has
    opens,          \* how often each has been opened
    flock_call      \* the thread's flock call, asleep on flock_unlock or woken

flockVars == <<flock_locks, open, opens, flock_call>>

FlockType == {"shared", "exclusive"}
Returned == [on |-> FALSE]
FlockLocks == [owner : Fd, type : FlockType]

FlockInit ==
    /\ flock_locks = {} /\ open = {} /\ opens = [f \in Fd |-> 0]
    /\ flock_call = [t \in Caller |-> Returned]

InCall(f) == {t \in Caller : flock_call[t].on /\ flock_call[t].fd = f}

(* What keeps the description: its descriptors, and the calls c that use   *)
(* it (sys_flock takes a reference).                                       *)
Referenced(f, c) == f \in open \/ \E t \in Caller : c[t].on /\ c[t].fd = f

Owned(f, locks) == {l \in locks : l.owner = f}

(* notify: every sleeper looks again. *)
NotifyAll(c) == [t \in Caller |-> IF c[t].on THEN [c[t] EXCEPT !.asleep = FALSE] ELSE c[t]]

(* Mutant: letting go of a lock tells nobody. *)
Removed_Silent(f, locks, c) == c

(* The calls c once what f has locked is removed: the sleepers are told,   *)
(* if there was something.                                                 *)
Removed(f, locks, c) == IF Owned(f, locks) # {} THEN NotifyAll(c) ELSE c

(* Mutant: two that only one of them wants for itself do not conflict. *)
flock_locks_conflict_Both(a, b) ==
    a.owner # b.owner /\ a.type = "exclusive" /\ b.type = "exclusive"

flock_locks_conflict(a, b) ==
    a.owner # b.owner /\ "exclusive" \in {a.type, b.type}

Conflicts(locks, l) == \E k \in locks : flock_locks_conflict(k, l)

(* What f has locked goes. *)
Release(f) ==
    /\ flock_locks' = flock_locks \ Owned(f, flock_locks)
    /\ flock_call' = Removed(f, flock_locks, flock_call)

(* A descriptor is opened. *)
Open(f) ==
    /\ f \notin open /\ InCall(f) = {} /\ opens[f] < MaxOpens
    /\ open' = open \cup {f} /\ opens' = [opens EXCEPT ![f] = @ + 1]
    /\ UNCHANGED <<flock_locks, flock_call>>

(* The last descriptor is closed: fd_close, unless a call is under way. *)
Close(f) ==
    /\ f \in open /\ open' = open \ {f}
    /\ IF InCall(f) = {} THEN Release(f) ELSE UNCHANGED <<flock_locks, flock_call>>
    /\ UNCHANGED opens

(* Mutant: the call has no reference to let go of. *)
FlockReturn_NoReference(t, f, locks, c) ==
    flock_locks' = locks /\ flock_call' = [c EXCEPT ![t] = Returned]

(* The call returns, with `locks` as the list and c as the calls, and lets *)
(* go of the description.                                                  *)
FlockReturn(t, f, locks, c) ==
    LET d == [c EXCEPT ![t] = Returned] IN
    IF Referenced(f, d) THEN flock_locks' = locks /\ flock_call' = d
    ELSE flock_locks' = locks \ Owned(f, locks) /\ flock_call' = Removed(f, locks, d)

(* The body of the loop: take the lock, or sleep, or fail (LOCK_NB).       *)
Attempt(t, f, ty, nb, locks, c) ==
    LET l == [owner |-> f, type |-> ty] IN
    IF ~ Conflicts(locks, l) THEN FlockReturn(t, f, locks \cup {l}, c)
    ELSE IF nb THEN FlockReturn(t, f, locks, c)
    ELSE /\ flock_locks' = locks
         /\ flock_call' = [c EXCEPT ![t] = [on |-> TRUE, fd |-> f, type |-> ty, asleep |-> TRUE]]

(* flock_lock: what the description had is gone first, conversion or not.  *)
flock_lock(t, f, ty, nb) ==
    /\ f \in open /\ t \in Users[f] /\ ~ flock_call[t].on
    /\ Attempt(t, f, ty, nb, flock_locks \ Owned(f, flock_locks),
               Removed(f, flock_locks, flock_call))
    /\ UNCHANGED <<open, opens>>

LockUn(t, f) ==
    /\ f \in open /\ t \in Users[f] /\ ~ flock_call[t].on
    /\ Release(f)
    /\ UNCHANGED <<open, opens>>

(* Notified, or a slice is over. *)
WaitReturns(t) ==
    /\ flock_call[t].on
    /\ Attempt(t, flock_call[t].fd, flock_call[t].type, FALSE, flock_locks, flock_call)
    /\ UNCHANGED <<open, opens>>

(* EINTR: what was to be converted stays gone. *)
Interrupt(t) ==
    /\ flock_call[t].on
    /\ FlockReturn(t, flock_call[t].fd, flock_locks, flock_call)
    /\ UNCHANGED <<open, opens>>

FlockNext ==
    \/ \E f \in Fd : Open(f) \/ Close(f)
    \/ \E t \in Caller :
         \/ WaitReturns(t) \/ Interrupt(t)
         \/ \E f \in Fd :
               LockUn(t, f) \/ \E ty \in FlockType, nb \in BOOLEAN : flock_lock(t, f, ty, nb)

FlockSpec == FlockInit /\ [][FlockNext]_flockVars

----------------------------------------------------------------------------
FlockTypeOK ==
    /\ flock_locks \subseteq FlockLocks /\ open \subseteq Fd
    /\ flock_call \in [Caller -> {Returned} \cup
                           [on : {TRUE}, fd : Fd, type : FlockType, asleep : BOOLEAN]]

(* Locks of two descriptions are both shared, through conversions, waits   *)
(* and calls of several threads with one description (flock_lock).         *)
FlockExclusive ==
    \A k, l \in flock_locks : k.owner # l.owner => k.type = "shared"

(* A lock belongs to a description that is there, and so can be let go:    *)
(* one granted to a call whose descriptor was closed meanwhile goes as the *)
(* call returns ("held forever: not by a later close, not by LOCK_UN",     *)
(* kernel/fs.c:2752).                                                      *)
OwnersLive == \A l \in flock_locks : l.owner \in open \/ InCall(l.owner) # {}

(* Nobody sleeps on a file whose locks do not conflict with its own.       *)
FlockWakeNotLost ==
    \A t \in Caller : flock_call[t].on /\ flock_call[t].asleep =>
        Conflicts(flock_locks, [owner |-> flock_call[t].fd, type |-> flock_call[t].type])
=============================================================================
