------------------------------ MODULE FileLock ------------------------------
(***************************************************************************)
(* fs/lock.c: the byte-range locks of fcntl, owned by a process (its table *)
(* of descriptors) or by an open file description, with F_SETLKW and its   *)
(* search for deadlocks.                                                   *)
(*                                                                         *)
(* A call holds inode->lock from its start to its return or to wait_for,   *)
(* which drops it; lock_waiters_lock is taken inside for each access to    *)
(* the list of waiters.  A step is what happens under one hold of the      *)
(* innermost of them.                                                      *)
(***************************************************************************)
EXTENDS Integers, Sequences, FiniteSets, SequencesExt

CONSTANTS
    Inode,
    Owner,      \* struct fdtable * and struct fd *
    Thread,
    Mine,       \* the owners each thread may lock for
    Nobody,     \* NULL
    OffMax,     \* OFF_T_MAX
    Flock,      \* struct flock_ as the guest passes them, with the offset of
                \* l_whence: [offset, start, len]
    Depth       \* the longest chain of waiters followed (1024)

(* What the constants are. *)
FileLockConstants ==
    /\ Mine \in [Thread -> SUBSET Owner]
    /\ Nobody \notin Owner
    /\ OffMax \in Nat /\ Depth \in Nat
    /\ \A f \in Flock : f.offset \in 0 .. OffMax /\ f.start \in Int /\ f.len \in Int

Byte == 0 .. OffMax
LockType == {"read", "write"}
FileLocks == [start : Byte, end : Byte, type : LockType, owner : Owner]
NoLock == [owner |-> Nobody]

VARIABLES
    posix_locks,    \* inode->posix_locks, of each inode
    lock_waiters,   \* the global list of waiters, the latest first
    pc,             \* where each thread is in fcntl_setlk
    req,            \* and the request it is there with
    woken           \* who sleeps and has been notified of posix_unlock

vars == <<posix_locks, lock_waiters, pc, req, woken>>

NoReq == [inode |-> Nobody]

Init ==
    /\ posix_locks = [i \in Inode |-> <<>>]
    /\ lock_waiters = <<>>
    /\ pc = [t \in Thread |-> "run"]
    /\ req = [t \in Thread |-> NoReq]
    /\ woken = {}

----------------------------------------------------------------------------
(* Ranges.                                                                 *)

(* Mutant: the end is the byte after the last. *)
file_lock_from_flock_PastEnd(f) ==
    LET start == f.offset + f.start
        last  == IF f.len > 0 THEN start + f.len ELSE OffMax
    IN
    IF f.start > OffMax - f.offset \/ start < 0 \/ last > OffMax THEN [err |-> TRUE]
    ELSE IF f.len >= 0 THEN [err |-> FALSE, start |-> start, end |-> last]
    ELSE IF start + f.len < 0 THEN [err |-> TRUE]
    ELSE [err |-> FALSE, start |-> start + f.len, end |-> start - 1]

(* The bytes a struct flock_ names, or EINVAL or EOVERFLOW.                *)
file_lock_from_flock(f) ==
    LET start == f.offset + f.start
        end   == IF f.len > 0 THEN start + f.len - 1
                 ELSE IF f.len < 0 THEN start - 1 ELSE OffMax
    IN
    IF \/ f.start > OffMax - f.offset
       \/ start < 0
       \/ f.len > 0 /\ f.len - 1 > OffMax - start
       \/ f.len < 0 /\ start + f.len < 0
    THEN [err |-> TRUE]
    ELSE [err |-> FALSE, start |-> IF f.len < 0 THEN start + f.len ELSE start, end |-> end]

(* What F_GETLK reports of a lock.                                         *)
flock_from_file_lock(l) ==
    [offset |-> 0, start |-> l.start,
     len |-> IF l.end # OffMax THEN l.end - l.start + 1 ELSE 0]

Ranges == {r \in {file_lock_from_flock(f) : f \in Flock} : ~r.err}

file_locks_overlap(a, b) == a.end >= b.start /\ b.end >= a.start

file_locks_adjacent(a, b) == a.end = b.start - 1 \/ b.end = a.start - 1

(* Mutant: an owner is in its own way. *)
file_locks_conflict_Self(a, b) ==
    file_locks_overlap(a, b) /\ "write" \in {a.type, b.type}

file_locks_conflict(a, b) ==
    /\ a.owner # b.owner
    /\ file_locks_overlap(a, b)
    /\ "write" \in {a.type, b.type}

(* The first lock of the list in the way of r.                             *)
file_lock_test(list, r) ==
    LET c == {n \in DOMAIN list : file_locks_conflict(list[n], r)} IN
    IF c = {} THEN NoLock ELSE list[Min(c)]

(* Mutant: a lock that sticks out on both ends loses its back. *)
Left_Front(l, r) ==
    IF l.start < r.start THEN <<[l EXCEPT !.end = r.start - 1]>>
    ELSE IF l.end > r.end THEN <<[l EXCEPT !.start = r.end + 1]>> ELSE <<>>

(* What a request of another type leaves of lock l: both ends, nothing,    *)
(* the front, or the back.                                                 *)
Left(l, r) ==
    LET front == [l EXCEPT !.end = r.start - 1]
        back  == [l EXCEPT !.start = r.end + 1]
    IN
    (IF l.start < r.start THEN <<front>> ELSE <<>>) \o
    (IF l.end > r.end THEN <<back>> ELSE <<>>)

Merges(l, r) ==
    l.type = r.type /\ (file_locks_overlap(l, r) \/ file_locks_adjacent(r, l))

Overrides(l, r) == l.type # r.type /\ file_locks_overlap(l, r)

(* One lock of the owner met by the request: merged into it and gone, cut  *)
(* down, which may free bytes, or kept.                                    *)
MeetLock(acc, l) ==
    LET r == acc.request IN
    IF Merges(l, r)
    THEN [acc EXCEPT !.request.start = Min({@, l.start}), !.request.end = Max({@, l.end})]
    ELSE [acc EXCEPT !.list = @ \o (IF Overrides(l, r) THEN Left(l, r) ELSE <<l>>),
                     !.freed = @ \/ Overrides(l, r)]

(* Mutant: the new lock goes to the end of the list. *)
PlaceLock_Last(before, mine, new, after) == before \o mine \o after \o new

(* The owner's locks stay together.                                        *)
PlaceLock(before, mine, new, after) == before \o mine \o new \o after

(* file_lock_acquire, with nothing in the way: the owner's locks are the   *)
(* run of the list from its first one to the next of another owner.  It is *)
(* the list it leaves, and whether it notified.                            *)
file_lock_acquire(list, r) ==
    LET n     == Len(list) + 1
        first == Min({n} \cup {k \in DOMAIN list : list[k].owner = r.owner})
        next  == Min({n} \cup {k \in first .. Len(list) : list[k].owner # r.owner})
        met   == FoldLeft(MeetLock, [request |-> r, list |-> <<>>, freed |-> FALSE],
                          SubSeq(list, first, next - 1))
    IN
    [list |-> PlaceLock(SubSeq(list, 1, first - 1), met.list,
                        IF r.type = "unlock" THEN <<>> ELSE <<met.request>>,
                        SubSeq(list, next, Len(list))),
     freed |-> met.freed]

----------------------------------------------------------------------------
(* The calls.                                                              *)

(* Nobody holds inode->lock on its way to sleep.                           *)
Unlocked(i) == \A t \in Thread : pc[t] \in {"check", "add"} => req[t].inode # i

(* notify(&inode->posix_unlock) by t, which does not sleep itself.         *)
Notify(t, i, freed) ==
    woken' = (IF freed THEN woken \cup {u \in Thread : pc[u] = "wait" /\ req[u].inode = i}
              ELSE woken) \ {t}

(* One turn of fcntl_setlk's loop, up to the search for a deadlock.        *)
Attempt(t, i, r, blocking) ==
    LET blocker == file_lock_test(posix_locks[i], r)
        done    == file_lock_acquire(posix_locks[i], r)
    IN
    \/ /\ r.type = "unlock" \/ blocker = NoLock
       /\ posix_locks' = [posix_locks EXCEPT ![i] = done.list]
       /\ Notify(t, i, done.freed)
       /\ pc' = [pc EXCEPT ![t] = "run"]
       /\ req' = [req EXCEPT ![t] = NoReq]
    \/ /\ r.type # "unlock" /\ blocker # NoLock /\ blocking
       /\ pc' = [pc EXCEPT ![t] = "check"]
       /\ req' = [req EXCEPT ![t] = [inode |-> i, request |-> r, blocked_on |-> blocker.owner]]
       /\ woken' = woken \ {t}
       /\ UNCHANGED posix_locks

(* F_SETLK and F_SETLKW.  One that does not block and finds a lock in its  *)
(* way changes nothing.                                                    *)
fcntl_setlk(t) ==
    /\ pc[t] = "run"
    /\ \E i \in Inode, o \in Mine[t], g \in Ranges, ty \in LockType \cup {"unlock"},
          blocking \in BOOLEAN :
        /\ Unlocked(i)
        /\ Attempt(t, i, [start |-> g.start, end |-> g.end, type |-> ty, owner |-> o], blocking)
    /\ UNCHANGED lock_waiters

(* The owner that owner o waits for, as far as the list says.              *)
BlockedOn(o) ==
    LET w == {n \in DOMAIN lock_waiters : lock_waiters[n].owner = o} IN
    IF w = {} THEN Nobody ELSE lock_waiters[Min(w)].blocked_on

(* Mutant: nobody behind the owner of the lock in the way is asked. *)
posix_lock_would_deadlock_Near(self, blocker) == self = blocker

(* Whether the chain of waiters from blocker comes to self.                *)
posix_lock_would_deadlock(self, blocker) ==
    LET chain[n \in 0 .. Depth] == IF n = 0 THEN blocker ELSE BlockedOn(chain[n - 1]) IN
    self # blocker /\ \E n \in 0 .. Depth - 1 : chain[n] = self

(* EDEADLK, or on to sleep.                                                *)
CheckDeadlock(t) ==
    /\ pc[t] = "check"
    /\ IF posix_lock_would_deadlock(req[t].request.owner, req[t].blocked_on)
       THEN pc' = [pc EXCEPT ![t] = "run"] /\ req' = [req EXCEPT ![t] = NoReq]
       ELSE pc' = [pc EXCEPT ![t] = "add"] /\ UNCHANGED req
    /\ UNCHANGED <<posix_locks, lock_waiters, woken>>

posix_lock_waiter_add(t) ==
    /\ pc[t] = "add"
    /\ lock_waiters' = <<[thread |-> t, owner |-> req[t].request.owner,
                          blocked_on |-> req[t].blocked_on]>> \o lock_waiters
    /\ pc' = [pc EXCEPT ![t] = "wait"]
    /\ UNCHANGED <<posix_locks, req, woken>>

(* Mutant: the waiter is left on the list when a signal ends the wait. *)
posix_lock_waiter_remove_Done(t, err) ==
    IF err THEN lock_waiters ELSE SelectSeq(lock_waiters, LAMBDA w : w.thread # t)

posix_lock_waiter_remove(t, err) == SelectSeq(lock_waiters, LAMBDA w : w.thread # t)

(* wait_for_blocked returns with inode->lock: notified, after a slice of a *)
(* second whether notified or not, or interrupted.                         *)
WaitReturns(t) ==
    /\ pc[t] = "wait"
    /\ Unlocked(req[t].inode)
    /\ \/ /\ lock_waiters' = posix_lock_waiter_remove(t, FALSE)
          /\ Attempt(t, req[t].inode, req[t].request, TRUE)
       \/ \* EINTR
          /\ lock_waiters' = posix_lock_waiter_remove(t, TRUE)
          /\ pc' = [pc EXCEPT ![t] = "run"]
          /\ req' = [req EXCEPT ![t] = NoReq]
          /\ woken' = woken \ {t}
          /\ UNCHANGED posix_locks

Without(list, o) == SelectSeq(list, LAMBDA l : l.owner # o)

(* Mutant: a close that frees a lock tells nobody. *)
file_lock_remove_owned_by_Silent(t) == \E i \in Inode, o \in Mine[t] :
    /\ pc[t] = "run"
    /\ Unlocked(i)
    /\ posix_locks' = [posix_locks EXCEPT ![i] = Without(@, o)]
    /\ UNCHANGED <<lock_waiters, pc, req, woken>>

(* A descriptor of the process is closed, or the last one of an open file. *)
file_lock_remove_owned_by(t) == \E i \in Inode, o \in Mine[t] :
    /\ pc[t] = "run"
    /\ Unlocked(i)
    /\ posix_locks' = [posix_locks EXCEPT ![i] = Without(@, o)]
    /\ Notify(t, i, Without(posix_locks[i], o) # posix_locks[i])
    /\ UNCHANGED <<lock_waiters, pc, req>>

----------------------------------------------------------------------------
InCall(t) == CheckDeadlock(t) \/ posix_lock_waiter_add(t) \/ WaitReturns(t)

Next == \E t \in Thread : fcntl_setlk(t) \/ file_lock_remove_owned_by(t) \/ InCall(t)

Spec == Init /\ [][Next]_vars

(* A thread in the call runs; one that waits gets inode->lock in the end,  *)
(* at the latest when its slice of a second is over.                       *)
FairSpec ==
    Spec /\ \A t \in Thread : /\ WF_vars(CheckDeadlock(t) \/ posix_lock_waiter_add(t))
                              /\ SF_vars(WaitReturns(t))

----------------------------------------------------------------------------
(* Properties.                                                             *)

(* Every variable keeps its type, and a request is what it was all along.  *)
TypeOK ==
    /\ posix_locks \in [Inode -> Seq(FileLocks)]
    /\ lock_waiters \in Seq([thread : Thread, owner : Owner, blocked_on : Owner])
    /\ pc \in [Thread -> {"run", "check", "add", "wait"}]
    /\ woken \subseteq {t \in Thread : pc[t] = "wait"}
    /\ \A t \in Thread :
         IF pc[t] = "run" THEN req[t] = NoReq
         ELSE /\ req[t].request \in FileLocks /\ req[t].inode \in Inode
              /\ req[t].blocked_on \in Owner \ {req[t].request.owner}

(* Whether the list has byte b of inode i locked by o as ty.               *)
Covers(i, o, b, ty) == \E n \in DOMAIN posix_locks[i] :
    LET l == posix_locks[i][n] IN l.start <= b /\ b <= l.end /\ l.owner = o /\ l.type = ty

Held == [i \in Inode |-> [o \in Owner |-> [b \in Byte |->
            IF Covers(i, o, b, "write") THEN "write"
            ELSE IF Covers(i, o, b, "read") THEN "read" ELSE "none"]]]

Bytes == INSTANCE ByteLocks WITH held <- Held

(* The list implements the bytes: whatever splits, merges and overrides it *)
(* takes, a call locks or unlocks exactly the bytes it names for its owner *)
(* and no byte is ever write-locked by one owner and locked by another     *)
(* (file_lock_acquire).                                                    *)
ImplementsByteLocks == Bytes!Spec

(* The list is kept as small as it can be: the locks of an owner follow    *)
(* each other in the list, as the loop of file_lock_acquire that stops at  *)
(* the next owner takes for granted, are disjoint, and two of one type do  *)
(* not touch.                                                              *)
ListIsCanonical ==
    \A i \in Inode : LET list == posix_locks[i] IN
        \A m, n \in DOMAIN list : m < n /\ list[m].owner = list[n].owner =>
            /\ \A k \in m .. n : list[k].owner = list[m].owner
            /\ ~file_locks_overlap(list[m], list[n])
            /\ list[m].type = list[n].type => ~file_locks_adjacent(list[m], list[n])

(* The bytes that offset, start and length name.                           *)
Named(f) ==
    LET s == f.offset + f.start IN
    IF f.len > 0 THEN s .. s + f.len - 1
    ELSE IF f.len < 0 THEN s + f.len .. s - 1 ELSE s .. OffMax

(* F_GETLK refuses a range with bytes below 0 or beyond the last a file    *)
(* can have, finds a lock exactly when a byte of the range is locked       *)
(* against the caller, and what it reports names exactly the bytes of a    *)
(* lock, those to the end of the largest file included (fcntl_getlk).      *)
GetLkIsExact ==
    LET held == Held IN
    \A f \in [offset : {0, 1}, start : {-2, 0, 1, OffMax}, len : -2 .. 2] :
        LET g == file_lock_from_flock(f) IN
        IF f.offset + f.start \notin Byte \/ ~(Named(f) \subseteq Byte) THEN g.err
        ELSE /\ ~g.err
             /\ \A i \in Inode, o \in Owner, ty \in LockType :
                  LET l == file_lock_test(posix_locks[i], [start |-> g.start, end |-> g.end,
                                                           type |-> ty, owner |-> o])
                      r == file_lock_from_flock(flock_from_file_lock(l))
                  IN
                  /\ l # NoLock <=> \E p \in Owner \ {o}, b \in Named(f) :
                                       Bytes!Conflict(held[i][p][b], ty)
                  /\ l # NoLock => ~r.err /\ r.start = l.start /\ r.end = l.end

(* The list of waiters, whose entries are on the waiters' stacks, has the  *)
(* threads that sleep and no other (posix_lock_waiter_remove on every way  *)
(* out of the wait).                                                       *)
WaitersAreAsleep ==
    /\ {lock_waiters[n].thread : n \in DOMAIN lock_waiters} = {t \in Thread : pc[t] = "wait"}
    /\ Len(lock_waiters) = Cardinality({t \in Thread : pc[t] = "wait"})

Blocked(t) ==
    LET i == req[t].inode
        r == req[t].request
    IN \E p \in Owner \ {r.owner}, b \in r.start .. r.end : Bytes!Conflict(Held[i][p][b], r.type)

(* Who sleeps in F_SETLKW with no notify on the way has a lock in its way: *)
(* whatever frees bytes notifies, an unlock, a lock made weaker, a split   *)
(* or a close (the notify calls of file_lock_acquire and                   *)
(* file_lock_remove_owned_by), and no waiter owes it to its slice alone.   *)
WakeNotLost == \A t \in Thread : pc[t] = "wait" /\ t \notin woken => Blocked(t)

(* An F_SETLKW of t that nobody is in the way of any more comes back ("a   *)
(* waiter could sleep forever on a lock that is already gone").            *)
FreeIsGranted(t) == []<>(pc[t] = "run" \/ Blocked(t))

(* No owners sleep each on a lock of the next, round to the first: the     *)
(* last to block would have been told EDEADLK ("before blocking we add     *)
(* ourselves and walk", where the code walks and then adds).               *)
NoCycleSleeps ==
    ~ \E S \in SUBSET Owner \ {{}} :
        \A o \in S : \E n \in DOMAIN lock_waiters :
            lock_waiters[n].owner = o /\ lock_waiters[n].blocked_on \in S
=============================================================================
