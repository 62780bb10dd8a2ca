------------------------------ MODULE FutexPI ------------------------------
(***************************************************************************)
(* The PI futexes of kernel/futex.c: FUTEX_LOCK_PI, LOCK_PI2, TRYLOCK_PI   *)
(* and UNLOCK_PI, what the guest does to the lock word by itself, and what *)
(* an exiting thread does to the PI locks it holds (the robust list,       *)
(* futex_exit_pi).                                                         *)
(*                                                                         *)
(* A step is what runs under one hold of futex_lock, or one access of a    *)
(* path that does not take it.  futex_cas retries under the lock until its *)
(* load and its swap agree, so the two are one step.  Deadlines and faults *)
(* are choices: a timed wait may find its time gone whenever it looks, a   *)
(* load may fail whenever it is made.                                      *)
(***************************************************************************)
EXTENDS Integers, Sequences, FiniteSets, Lists

CONSTANTS
    Thread,     \* guest threads
    Lock,       \* PI lock words, one futex each
    Robust,     \* the locks kept on a robust list
    NoThread    \* TID 0

ASSUME FutexPIConstants ==
    /\ IsFiniteSet(Thread)
    /\ Robust \subseteq Lock
    /\ NoThread \notin Thread

VARIABLES
    word,       \* the lock words: TID, FUTEX_WAITERS, FUTEX_OWNER_DIED
    futex,      \* refcount, pi_queue and pi_owner of each lock's futex
    pi_waiting, \* futex_pi_waiting
    pc,         \* where each thread is
    frame,      \* its futex_lock_pi locals and struct futex_wait
    sig,        \* a deliverable signal is pending, or marked its wait
    todo,       \* robust entries an exiting thread has still to look at
    seen,       \* what robust_handle_death read of the word it is at
    holds       \* the locks the guest thread has been told it owns

vars == <<word, futex, pi_waiting, pc, frame, sig, todo, seen, holds>>

Tid == Thread \cup {NoThread}
Words == [tid : Tid, waiters : BOOLEAN, died : BOOLEAN]
Free == [tid |-> NoThread, waiters |-> FALSE, died |-> FALSE]
NoFrame == [on |-> FALSE]
Frames == [on : {TRUE}, lock : Lock, trylock : BOOLEAN, timed : BOOLEAN,
           queued : BOOLEAN, pi_owned : BOOLEAN, val : Words, alive : BOOLEAN]
NoObject == [refcount |-> 0, pi_queue |-> <<>>, pi_owner |-> NoThread]
NoEntry == [on |-> FALSE]
Entries == [on : {TRUE}, lock : Robust, waiters : BOOLEAN]

InLockPI == {"check", "relock", "sleep"}
Exiting(t) == pc[t] \in {"robust_get", "robust_put", "dead"}

Init ==
    /\ word = [l \in Lock |-> Free]
    /\ futex = [l \in Lock |-> NoObject]
    /\ pi_waiting = 0
    /\ pc = [t \in Thread |-> "run"]
    /\ frame = [t \in Thread |-> NoFrame]
    /\ sig = [t \in Thread |-> FALSE]
    /\ todo = [t \in Thread |-> {}]
    /\ seen = [t \in Thread |-> NoEntry]
    /\ holds = [t \in Thread |-> {}]

----------------------------------------------------------------------------
(* The guest's own fast paths.                                             *)

GuestLock(t) == \E l \in Lock :
    /\ pc[t] = "run"
    /\ word[l] = Free
    /\ word' = [word EXCEPT ![l] = [Free EXCEPT !.tid = t]]
    /\ holds' = [holds EXCEPT ![t] = @ \cup {l}]
    /\ UNCHANGED <<futex, pi_waiting, pc, frame, sig, todo, seen>>

GuestUnlock(t) == \E l \in holds[t] :
    /\ pc[t] = "run"
    /\ word[l] = [Free EXCEPT !.tid = t]
    /\ word' = [word EXCEPT ![l] = Free]
    /\ holds' = [holds EXCEPT ![t] = @ \ {l}]
    /\ UNCHANGED <<futex, pi_waiting, pc, frame, sig, todo, seen>>

----------------------------------------------------------------------------
(* FUTEX_LOCK_PI.                                                          *)

(* Mutant: a wait that gives up stays on the queue. *)
LeaveFutex_StillQueued(fx, f, t) ==
    IF fx.refcount = 1 THEN [NoObject EXCEPT !.pi_queue = fx.pi_queue]
    ELSE [fx EXCEPT !.refcount = @ - 1]

(* The end of futex_lock_pi: off the queue unless an unlock took it off,   *)
(* and the reference put.  f is the frame, fx the lock's futex.            *)
LeaveFutex(fx, f, t) ==
    LET q == IF f.queued /\ ~f.pi_owned THEN ListRemove(fx.pi_queue, t) ELSE fx.pi_queue IN
    IF fx.refcount = 1 THEN [NoObject EXCEPT !.pi_queue = q]
    ELSE [fx EXCEPT !.refcount = @ - 1, !.pi_queue = q]

LeaveLockPI(t, f, fx, got) ==
    /\ futex' = [futex EXCEPT ![f.lock] = LeaveFutex(fx, f, t)]
    /\ pi_waiting' = IF f.queued THEN pi_waiting - 1 ELSE pi_waiting
    /\ pc' = [pc EXCEPT ![t] = "run"]
    /\ frame' = [frame EXCEPT ![t] = NoFrame]
    /\ holds' = [holds EXCEPT ![t] = IF got THEN @ \cup {f.lock} ELSE @]

(* The loop from its top, with futex_lock held, to where it drops it.      *)
Attempt(t, f, fx) ==
    LET l     == f.lock
        val   == word[l]
        other == \E i \in DOMAIN fx.pi_queue : fx.pi_queue[i] # t
    IN
    \/ /\ f.pi_owned
       /\ LeaveLockPI(t, f, fx, TRUE)
       /\ UNCHANGED word
    \/ \* EFAULT
       /\ ~f.pi_owned
       /\ LeaveLockPI(t, f, fx, FALSE)
       /\ UNCHANGED word
    \/ \* free, or released by a robust owner's death
       /\ ~f.pi_owned /\ val.tid = NoThread
       /\ word' = [word EXCEPT ![l] = [tid |-> t, died |-> val.died,
                                       waiters |-> f.queued \/ other]]
       /\ LeaveLockPI(t, f, fx, TRUE)
    \/ \* EDEADLK
       /\ ~f.pi_owned /\ val.tid = t
       /\ LeaveLockPI(t, f, fx, FALSE)
       /\ UNCHANGED word
    \/ /\ ~f.pi_owned /\ val.tid \notin {NoThread, t}
       /\ word' = [word EXCEPT ![l].waiters = TRUE]
       /\ IF f.trylock
          THEN LeaveLockPI(t, f, fx, FALSE)     \* EAGAIN
          ELSE /\ futex' = [futex EXCEPT ![l] = fx]
               /\ frame' = [frame EXCEPT ![t] = [f EXCEPT !.val = word'[l]]]
               /\ pc' = [pc EXCEPT ![t] = "check"]
               /\ UNCHANGED <<pi_waiting, holds>>

FutexLockPI(t) == \E l \in Lock, trylock, timed \in BOOLEAN :
    /\ pc[t] = "run"
    /\ trylock => ~timed
    /\ Attempt(t, [on |-> TRUE, lock |-> l, trylock |-> trylock, timed |-> timed,
                   queued |-> FALSE, pi_owned |-> FALSE, val |-> Free, alive |-> TRUE],
               [futex[l] EXCEPT !.refcount = @ + 1])
    /\ UNCHANGED <<sig, todo, seen>>

(* Mutant: any TID that was ever given out counts as a live thread. *)
OwnerAlive_Known(tid) == tid \in Thread

(* futex_pi_owner_alive. *)
OwnerAlive(tid) == ~Exiting(tid)

(* It is asked with futex_lock dropped. *)
CheckOwner(t) ==
    /\ pc[t] = "check"
    /\ frame' = [frame EXCEPT ![t].alive = OwnerAlive(frame[t].val.tid)]
    /\ pc' = [pc EXCEPT ![t] = "relock"]
    /\ UNCHANGED <<word, futex, pi_waiting, sig, todo, seen, holds>>

(* Mutant: a wait is counted when it leaves and not when it queues. *)
CountQueued_Never(f) == pi_waiting

CountQueued(f) == IF f.queued THEN pi_waiting ELSE pi_waiting + 1

(* Queue behind a live owner and sleep, or find the deadline passed.       *)
SleepBehind(t, f, fx) ==
    LET q  == [f EXCEPT !.queued = TRUE]
        gx == [fx EXCEPT !.pi_owner = f.val.tid,
                         !.pi_queue = IF f.queued THEN @ ELSE ListAddTail(@, t)]
    IN
    \/ /\ futex' = [futex EXCEPT ![f.lock] = gx]
       /\ frame' = [frame EXCEPT ![t] = q]
       /\ pi_waiting' = CountQueued(f)
       /\ pc' = [pc EXCEPT ![t] = "sleep"]
       /\ UNCHANGED holds
    \/ \* ETIMEDOUT: queued and off again
       /\ f.timed
       /\ futex' = [futex EXCEPT ![f.lock] = LeaveFutex(gx, q, t)]
       /\ pi_waiting' = IF f.queued THEN pi_waiting - 1 ELSE pi_waiting
       /\ pc' = [pc EXCEPT ![t] = "run"]
       /\ frame' = [frame EXCEPT ![t] = NoFrame]
       /\ UNCHANGED holds

(* The word is as it was when the owner was found dead. *)
SameOwner(f) == word[f.lock] = f.val

(* The lock again, with the answer on the owner that was read before.      *)
Relock(t) ==
    LET f == frame[t]
        l == frame[t].lock
    IN
    /\ pc[t] = "relock"
    /\ UNCHANGED <<sig, todo, seen>>
    /\ \/ /\ f.pi_owned \/ (~f.alive /\ ~SameOwner(f))
          /\ Attempt(t, f, futex[l])
       \/ \* EFAULT, or ESRCH: nobody died holding it while there were waiters
          /\ ~f.pi_owned /\ ~f.alive
          /\ LeaveLockPI(t, f, futex[l], FALSE)
          /\ UNCHANGED word
       \/ /\ ~f.pi_owned /\ ~f.alive /\ SameOwner(f)
          /\ f.queued \/ futex[l].pi_owner = f.val.tid
          /\ word' = [word EXCEPT ![l] = [tid |-> t, waiters |-> TRUE, died |-> TRUE]]
          /\ LeaveLockPI(t, f, futex[l], TRUE)
       \/ /\ ~f.pi_owned /\ f.alive
          /\ SleepBehind(t, f, futex[l])
          /\ UNCHANGED word

(* Mutant: the signal is looked at before the hand-over. *)
WaitForReturns_SignalFirst(t) ==
    LET f == frame[t] IN
    /\ pc[t] = "sleep"
    /\ UNCHANGED <<sig, todo, seen>>
    /\ IF sig[t] THEN LeaveLockPI(t, f, futex[f.lock], FALSE) /\ UNCHANGED word
       ELSE Attempt(t, f, futex[f.lock])

(* wait_for returns, for whatever reason: handed the lock, interrupted     *)
(* (ERESTARTNOINTR), or round again after a 50 ms slice.                   *)
WaitForReturns(t) ==
    LET f == frame[t] IN
    /\ pc[t] = "sleep"
    /\ UNCHANGED <<sig, todo, seen>>
    /\ \/ /\ f.pi_owned \/ ~sig[t]
          /\ Attempt(t, f, futex[f.lock])
       \/ /\ ~f.pi_owned /\ sig[t]
          /\ LeaveLockPI(t, f, futex[f.lock], FALSE)
          /\ UNCHANGED word

(* Mutant: the lock is freed, and the first waiter told it has it. *)
UnlockedWord_Free(q) == Free

(* What an unlock leaves in the word: the first waiter, or nobody. *)
UnlockedWord(q) ==
    IF q = <<>> THEN Free ELSE [tid |-> Head(q), waiters |-> TRUE, died |-> FALSE]

(* FUTEX_UNLOCK_PI by the owner; anyone else gets EPERM and changes        *)
(* nothing.  The lock goes to the first waiter.                            *)
FutexUnlockPI(t) == \E l \in Lock :
    LET q == futex[l].pi_queue IN
    /\ pc[t] = "run"
    /\ word[l].tid = t
    /\ holds' = [holds EXCEPT ![t] = @ \ {l}]
    /\ word' = [word EXCEPT ![l] = UnlockedWord(q)]
    /\ IF q = <<>> THEN UNCHANGED <<futex, frame>>
       ELSE /\ futex' = [futex EXCEPT ![l].pi_queue = Tail(q), ![l].pi_owner = Head(q)]
            /\ frame' = [frame EXCEPT ![Head(q)].pi_owned = TRUE]
    /\ UNCHANGED <<pi_waiting, pc, sig, todo, seen>>

----------------------------------------------------------------------------
(* Signals and exit.                                                       *)

Signal(t) ==
    /\ ~Exiting(t) /\ ~sig[t]
    /\ sig' = [sig EXCEPT ![t] = TRUE]
    /\ UNCHANGED <<word, futex, pi_waiting, pc, frame, todo, seen, holds>>

Handler(t) ==
    /\ pc[t] = "run" /\ sig[t]
    /\ sig' = [sig EXCEPT ![t] = FALSE]
    /\ UNCHANGED <<word, futex, pi_waiting, pc, frame, todo, seen, holds>>

(* do_exit: `exiting` is set, and then the robust list is walked.          *)
Exit(t) ==
    /\ pc[t] = "run"
    /\ pc' = [pc EXCEPT ![t] = "robust_get"]
    /\ todo' = [todo EXCEPT ![t] = Robust]
    /\ sig' = [sig EXCEPT ![t] = FALSE]
    /\ UNCHANGED <<word, futex, pi_waiting, frame, seen, holds>>

(* robust_handle_death reads the word ...                                  *)
RobustGet(t) == \E l \in todo[t] :
    /\ pc[t] = "robust_get"
    /\ todo' = [todo EXCEPT ![t] = @ \ {l}]
    /\ IF word[l].tid = t
       THEN /\ seen' = [seen EXCEPT ![t] = [on |-> TRUE, lock |-> l, waiters |-> word[l].waiters]]
            /\ pc' = [pc EXCEPT ![t] = "robust_put"]
       ELSE UNCHANGED <<seen, pc>>
    /\ UNCHANGED <<word, futex, pi_waiting, frame, sig, holds>>

(* ... and writes it, in a second access of guest memory.                  *)
RobustPut(t) ==
    /\ pc[t] = "robust_put"
    /\ word' = [word EXCEPT ![seen[t].lock] =
                  [tid |-> NoThread, waiters |-> seen[t].waiters, died |-> TRUE]]
    /\ seen' = [seen EXCEPT ![t] = NoEntry]
    /\ pc' = [pc EXCEPT ![t] = "robust_get"]
    /\ UNCHANGED <<futex, pi_waiting, frame, sig, todo, holds>>

(* futex_exit_pi only cuts short the slice of a waiter, which may end at   *)
(* any time anyway.                                                        *)
ExitPI(t) ==
    /\ pc[t] = "robust_get" /\ todo[t] = {}
    /\ pc' = [pc EXCEPT ![t] = "dead"]
    /\ UNCHANGED <<word, futex, pi_waiting, frame, sig, todo, seen, holds>>

----------------------------------------------------------------------------
ThreadStep(t) ==
    \/ GuestLock(t) \/ GuestUnlock(t)
    \/ FutexLockPI(t) \/ CheckOwner(t) \/ Relock(t) \/ WaitForReturns(t)
    \/ FutexUnlockPI(t)
    \/ Signal(t) \/ Handler(t)
    \/ Exit(t) \/ RobustGet(t) \/ RobustPut(t) \/ ExitPI(t)

AllDead == (\A t \in Thread : pc[t] = "dead") /\ UNCHANGED vars

Next == AllDead \/ \E t \in Thread : ThreadStep(t)

Spec == Init /\ [][Next]_vars

(* A thread in the kernel goes on: the check of the owner returns, a       *)
(* sleeper is back within its 50 ms slice, an exit runs to its end.        *)
KernelStep(t) ==
    CheckOwner(t) \/ Relock(t) \/ WaitForReturns(t) \/ RobustGet(t) \/ RobustPut(t) \/ ExitPI(t)

Fairness == \A t \in Thread : WF_vars(KernelStep(t))

FairSpec == Spec /\ Fairness

----------------------------------------------------------------------------
(* Properties.                                                             *)

(* Every variable keeps its type. *)
TypeOK ==
    /\ word \in [Lock -> Words]
    /\ futex \in [Lock -> [refcount : Nat, pi_queue : Seq(Thread), pi_owner : Tid]]
    /\ pi_waiting \in Nat
    /\ pc \in [Thread -> InLockPI \cup {"run", "robust_get", "robust_put", "dead"}]
    /\ frame \in [Thread -> Frames \cup {NoFrame}]
    /\ sig \in [Thread -> BOOLEAN]
    /\ todo \in [Thread -> SUBSET Robust]
    /\ seen \in [Thread -> {NoEntry} \cup Entries]
    /\ holds \in [Thread -> SUBSET Lock]

Holders(l) == {t \in Thread : ~Exiting(t) /\ l \in holds[t]}

(* No two running threads have been told they own the same lock, through   *)
(* barging, hand-over, timeouts, signals and owners that die: for locks    *)
(* that are on no robust list.  ("this is the mutual exclusion and the     *)
(* ownership protocol, which is what programs depend on")                  *)
MutualExclusion ==
    \A l \in Lock \ Robust : \A t, u \in Holders(l) : t = u

(* The same for every lock, the robust ones included. *)
MutualExclusionAll ==
    \A l \in Lock : \A t, u \in Holders(l) : t = u

(* The word names the owner: the TID in it is that of the thread that has  *)
(* been told it owns the lock, or is about to be because an unlock made it *)
(* the owner (pi_owned).                                                   *)
WordNamesOwner ==
    \A l \in Lock \ Robust, t \in Thread :
        (\/ t \in Holders(l)
         \/ frame[t].on /\ frame[t].lock = l /\ frame[t].pi_owned)
        => word[l].tid = t

(* pi_queue holds exactly the waits still to be handed the lock, each      *)
(* once, and the counts match: a reference for each call in the kernel,    *)
(* futex_pi_waiting for each that is or was queued (an exit skips          *)
(* futex_exit_pi when it is 0).                                            *)
QueuesMatchFrames ==
    /\ \A l \in Lock :
          /\ Distinct(futex[l].pi_queue)
          /\ \A t \in Thread :
                OnList(futex[l].pi_queue, t) <=>
                /\ frame[t].on /\ frame[t].lock = l
                /\ frame[t].queued /\ ~frame[t].pi_owned
          /\ futex[l].refcount =
                Cardinality({t \in Thread : frame[t].on /\ frame[t].lock = l})
    /\ pi_waiting = Cardinality({t \in Thread : frame[t].on /\ frame[t].queued})

(* A wait that an unlock made the owner ends with the lock, whatever       *)
(* signal or deadline falls at the same time (the pi_owned checks in       *)
(* futex_lock_pi).                                                         *)
HandOverKept ==
    [][\A t \in Thread :
          frame[t].on /\ frame[t].pi_owned /\ ~frame'[t].on
          => frame[t].lock \in holds'[t]]_vars

(* A lock l whose owner d is gone does not keep its waiter t: t takes it   *)
(* over, or another does, or t stops waiting (futex_pi_owner_alive and the *)
(* slices; the robust walk and futex_exit_pi only make it sooner).         *)
DeadOwnerIsReplaced(l, d, t) ==
    (/\ word[l].tid = d /\ pc[d] = "dead"
     /\ frame[t].on /\ frame[t].lock = l)
    ~> (word[l].tid # d \/ ~frame[t].on)
=============================================================================
