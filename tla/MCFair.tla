------------------------------- MODULE MCFair -------------------------------
(***************************************************************************)
(* What must come about in the end, for TLC.  A behaviour is about one     *)
(* subject, chosen at the start: the PI futexes, FUTEX_WAIT with its       *)
(* deadlines, a timer, or byte-range locks.  The others stay as they were  *)
(* made, and nothing is asked of them.                                     *)
(***************************************************************************)
EXTENDS FutexPI, TLC

CONSTANTS th1, th2, l1, l2, k1, p1, p2, i1, Nobody

VARIABLES
    subject,
    f_word, f_futex, walk, f_pc, call, wait, park, stack, fresh, f_sig, expired, sent, now,
    missed,                                                     \* Futex
    clock, timer, raised, thread, owner, source, armed, gone, settle,     \* Timer
    posix_locks, lock_waiters, l_pc, req, woken                 \* FileLock

futexVars == <<f_word, f_futex, walk, f_pc, call, wait, park, stack, fresh, f_sig, expired, sent,
               now, missed>>
timerVars == <<clock, timer, raised, thread, owner, source, armed, gone, settle>>
lockVars == <<posix_locks, lock_waiters, l_pc, req, woken>>

(* Waits with and without a deadline, wakes and a signal, on one futex.    *)
Waits == INSTANCE Futex WITH
    word <- f_word, futex <- f_futex, pc <- f_pc, sig <- f_sig,
    Thread <- {th1, th2}, Key <- {k1}, Word <- {k1}, WordOf <- [k \in {k1} |-> k], Val <- {0},
    Bit <- {1, 2}, Timeout <- {-1, 1}, Mask <- {{1, 2}}, MaxWake <- 1, MaxSeq <- 1, MaxNow <- 1,
    MaxNest <- 1, MaxSignals <- 1, Ops <- {"wake"}

(* Off, and a time longer than the longest nap. *)
Timer == INSTANCE Timer WITH
    now <- clock,
    Values <- {0, 3}, Intervals <- {0, 1}, NapMax <- 2, Slice <- 1, TimeMax <- 9,
    MaxNow <- 3, MaxGen <- 2

(* Two processes, and three overlapping ranges of two bytes. *)
Range(o, s, n) == [offset |-> o, start |-> s, len |-> n]
Locks == INSTANCE FileLock WITH
    pc <- l_pc,
    Thread <- {p1, p2}, Owner <- {p1, p2}, Mine <- [t \in {p1, p2} |-> {t}], Inode <- {i1},
    OffMax <- 1, Depth <- 4, Flock <- {Range(0, 0, 0), Range(1, 0, -1), Range(0, 1, 1)}

ASSUME Waits!FutexConstants /\ Timer!TimerConstants /\ Locks!FileLockConstants

FairInit ==
    /\ subject \in {"pi", "wait", "timer", "locks"}
    /\ Init /\ Waits!Init /\ Timer!TimerInit /\ Locks!Init

FairNext ==
    \/ subject = "pi" /\ Next /\ UNCHANGED <<subject, futexVars, timerVars, lockVars>>
    \/ subject = "wait" /\ Waits!Next /\ UNCHANGED <<subject, vars, timerVars, lockVars>>
    \/ subject = "timer" /\ Timer!TimerNext /\ UNCHANGED <<subject, vars, futexVars, lockVars>>
    \/ subject = "locks" /\ Locks!Next /\ UNCHANGED <<subject, vars, futexVars, timerVars>>

(* The fairness of the modules, of the subject's steps. *)
PIFairness == \A t \in Thread : WF_vars(subject = "pi" /\ KernelStep(t))

WaitsFairness ==
    /\ WF_futexVars(subject = "wait" /\ Waits!Walk)
    /\ \A t \in {th1, th2} : /\ SF_futexVars(subject = "wait" /\ Waits!SpinEnd(t))
                         /\ SF_futexVars(subject = "wait" /\ Waits!WaitForReturns(t))

TimerFairness ==
    /\ WF_timerVars(subject = "timer" /\ Timer!Tick)
    /\ WF_timerVars(subject = "timer" /\ Timer!ThreadStep)

LocksFairness == \A t \in {p1, p2} :
    /\ WF_lockVars(subject = "locks" /\ (Locks!CheckDeadlock(t) \/ Locks!posix_lock_waiter_add(t)))
    /\ SF_lockVars(subject = "locks" /\ Locks!WaitReturns(t))

FairSpecs ==
    /\ FairInit /\ [][FairNext]_<<subject, vars, futexVars, timerVars, lockVars>>
    /\ PIFairness /\ WaitsFairness /\ TimerFairness /\ LocksFairness

----------------------------------------------------------------------------
(* The properties, under the fairness of their modules.  The threads of a  *)
(* module are alike, so what is asked of one of them is asked of all.      *)

(* A waiter with nothing in its way any more leaves: one whose PI lock has *)
(* lost its owner, one taken off its futex queue or marked by a signal, an *)
(* F_SETLKW whose range is free.                                           *)
WaitersLeave ==
    /\ \A l \in Lock : DeadOwnerIsReplaced(l, th1, th2)
    /\ Waits!WokenLeaves(th1)
    /\ Locks!FreeIsGranted(p1)

(* An arming left alone is delivered once its time has come, and a freed   *)
(* timer's memory is given back and its thread ends.                       *)
TimersAreServed == Timer!ArmedFires /\ Timer!FreedEventually
=============================================================================
