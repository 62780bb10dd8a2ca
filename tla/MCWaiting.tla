----------------------------- MODULE MCWaiting -----------------------------
(***************************************************************************)
(* Futexes, robust lists, wait_for and epoll, for TLC: what must never     *)
(* happen.  A behaviour is about one subject, chosen at the start.  The    *)
(* others stay as they were made, or their variables 0.                    *)
(***************************************************************************)
EXTENDS WaitFor, RobustList, TLC

CONSTANTS t1, t2, t3, u1, u2, h, k1, k2, d1, d2, waiter, writer, control, file1, file2, ep1, ep2

VARIABLES
    subject,
    f_word, f_walk, f_pc, now, futex, call, wait, park, stack, fresh, sig, expired, sent,
    missed,                                                                 \* Futex
    x_pc, x_kind, x_lock, x_cond_lock, x_wake_lock, x_cond, x_flag, x_interrupted, x_mark,
    x_should_mark, x_asleep, x_eintr, x_ready, x_pending, x_poke, x_spc, x_wake,
    x_rec,                                                                  \* WaitFor, again
    p_ready, p_pending, regs, notified, poll_lock, fd_lock, signals, th     \* Poll

futexVars == <<f_word, f_walk, f_pc, now, futex, call, wait, park, stack, fresh, sig, expired,
               sent, missed>>
againVars == <<x_pc, x_kind, x_lock, x_cond_lock, x_wake_lock, x_cond, x_flag, x_interrupted,
               x_mark, x_should_mark, x_asleep, x_eintr, x_ready, x_pending, x_poke, x_spc,
               x_wake, x_rec>>
pollVars == <<p_ready, p_pending, regs, notified, poll_lock, fd_lock, signals, th>>
all == <<subject, futexVars, robustVars, vars, againVars, pollVars>>

----------------------------------------------------------------------------
(* Three threads and every operation that wakes or moves waiters.          *)
Requeue == INSTANCE Futex WITH
    word <- f_word, walk <- f_walk, pc <- f_pc,
    Thread <- {t1, t2, t3}, Key <- {k1, k2}, Word <- {k1, k2}, WordOf <- [k \in {k1, k2} |-> k],
    Val <- {0}, Bit <- {1, 2}, Timeout <- {-1}, Mask <- {{1}, {2}}, MaxWake <- 1, MaxSeq <- 1,
    MaxNow <- 0, MaxNest <- 1, MaxSignals <- 0, Ops <- {"wake", "requeue", "cmp_requeue", "wake_op"}

(* Signals whose handlers wait in turn, and restarts. *)
Restart == INSTANCE Futex WITH
    word <- f_word, walk <- f_walk, pc <- f_pc,
    Thread <- {u1, u2}, Key <- {k1, k2}, Word <- {k1, k2}, WordOf <- [k \in {k1, k2} |-> k],
    Val <- {0}, Bit <- {1, 2}, Timeout <- {-1}, Mask <- {{1, 2}}, MaxWake <- 1, MaxSeq <- 1,
    MaxNow <- 0, MaxNest <- 2, MaxSignals <- 2, Ops <- {"wake"}

(* A wait that is moved to another futex, and then signalled. *)
Moved == INSTANCE Futex WITH
    word <- f_word, walk <- f_walk, pc <- f_pc,
    Thread <- {u1, u2}, Key <- {k1, k2}, Word <- {k1, k2}, WordOf <- [k \in {k1, k2} |-> k],
    Val <- {0}, Bit <- {1, 2}, Timeout <- {-1}, Mask <- {{1, 2}}, MaxWake <- 1, MaxSeq <- 1,
    MaxNow <- 0, MaxNest <- 1, MaxSignals <- 1, Ops <- {"wake", "requeue"}

(* Deadlines, a word that changes, and wakes of both waiters. *)
Timed == INSTANCE Futex WITH
    word <- f_word, walk <- f_walk, pc <- f_pc,
    Thread <- {u1, u2}, Key <- {k1}, Word <- {k1, k2}, WordOf <- [k \in {k1} |-> k], Val <- {0, 1},
    Bit <- {1, 2}, Timeout <- {-1, 1}, Mask <- {{1, 2}}, MaxWake <- 2, MaxSeq <- 1, MaxNow <- 1,
    MaxNest <- 1, MaxSignals <- 1, Ops <- {"wake"}

(* RobustList has two threads, and one lock more than the walk's limit.    *)
(* WaitFor has two senders, and plain waits and waits that ignore signals; *)
(* here with futex waits, and with a sender that holds the waiter's lock.  *)
Flagged == INSTANCE WaitFor WITH
    pc <- x_pc, kind <- x_kind, lock <- x_lock, cond_lock <- x_cond_lock,
    wake_lock <- x_wake_lock, cond <- x_cond, flag <- x_flag, interrupted <- x_interrupted,
    mark <- x_mark, should_mark <- x_should_mark, asleep <- x_asleep, eintr <- x_eintr,
    ready <- x_ready, pending <- x_pending, poke <- x_poke, spc <- x_spc, wake <- x_wake,
    rec <- x_rec,
    Sender <- {u1, u2}, Holding <- {}, Kinds <- {"futex", "plain"}, Record <- {d1}
Held == INSTANCE WaitFor WITH
    pc <- x_pc, kind <- x_kind, lock <- x_lock, cond_lock <- x_cond_lock,
    wake_lock <- x_wake_lock, cond <- x_cond, flag <- x_flag, interrupted <- x_interrupted,
    mark <- x_mark, should_mark <- x_should_mark, asleep <- x_asleep, eintr <- x_eintr,
    ready <- x_ready, pending <- x_pending, poke <- x_poke, spc <- x_spc, wake <- x_wake,
    rec <- x_rec,
    Sender <- {h}, Holding <- {h}, Kinds <- {"plain", "ignore"}, Record <- {d1, d2}

(* Poll: two threads wait on one epoll; an epoll in an epoll; and less    *)
(* room than there are files.                                              *)
Report(e, o) == [types |-> {"in"}, et |-> e, oneshot |-> o]
Level == Report(FALSE, FALSE)
Edge == Report(TRUE, FALSE)
Once == Report(FALSE, TRUE)

Shared == INSTANCE Poll WITH
    ready <- p_ready, pending <- p_pending,
    Waiter <- {u1, u2}, Changer <- {writer}, Controller <- {control}, File <- {file1},
    Epoll <- {ep1}, Watch <- {<<ep1, file1>>}, First <- {<<ep1, file1>>},
    Waits <- {<<u1, ep1>>, <<u2, ep1>>},
    Mask <- {Edge, Once}, Events <- {"in", "hup"}, Room <- 1, MaxSignals <- 0
Nested == INSTANCE Poll WITH
    ready <- p_ready, pending <- p_pending,
    Waiter <- {waiter}, Changer <- {writer}, Controller <- {control}, File <- {file1},
    Epoll <- {ep1, ep2}, Watch <- {<<ep1, file1>>, <<ep2, ep1>>, <<ep1, ep2>>},
    First <- {<<ep1, file1>>, <<ep2, ep1>>}, Waits <- {<<waiter, ep2>>},
    Mask <- {Level, Edge}, Events <- {"in"}, Room <- 1, MaxSignals <- 0
Full == INSTANCE Poll WITH
    ready <- p_ready, pending <- p_pending,
    Waiter <- {waiter}, Changer <- {writer}, Controller <- {}, File <- {file1, file2},
    Epoll <- {ep1}, Watch <- {<<ep1, file1>>, <<ep1, file2>>},
    First <- {<<ep1, file1>>, <<ep1, file2>>}, Waits <- {<<waiter, ep1>>},
    Mask <- {Edge, Once}, Events <- {"in"}, Room <- 1, MaxSignals <- 1

ASSUME Requeue!FutexConstants /\ Restart!FutexConstants /\ Moved!FutexConstants
ASSUME Timed!FutexConstants
ASSUME RobustListConstants
ASSUME WaitForConstants /\ Flagged!WaitForConstants /\ Held!WaitForConstants
ASSUME Shared!PollConstants /\ Nested!PollConstants /\ Full!PollConstants

----------------------------------------------------------------------------
NoFutex ==
    /\ f_word = 0 /\ f_walk = 0 /\ f_pc = 0 /\ now = 0 /\ futex = 0 /\ call = 0 /\ wait = 0
    /\ park = 0 /\ stack = 0 /\ fresh = 0 /\ sig = 0 /\ expired = 0 /\ sent = 0 /\ missed = 0
NotAgain ==
    /\ x_pc = 0 /\ x_kind = 0 /\ x_lock = 0 /\ x_cond_lock = 0 /\ x_wake_lock = 0 /\ x_cond = 0
    /\ x_flag = 0 /\ x_interrupted = 0 /\ x_mark = 0 /\ x_should_mark = 0 /\ x_asleep = 0
    /\ x_eintr = 0 /\ x_ready = 0 /\ x_pending = 0 /\ x_poke = 0 /\ x_spc = 0 /\ x_wake = 0
    /\ x_rec = 0
NoPoll ==
    /\ p_ready = 0 /\ p_pending = 0 /\ regs = 0 /\ notified = 0 /\ poll_lock = 0 /\ fd_lock = 0
    /\ signals = 0 /\ th = 0

WaitingInit ==
    /\ Init /\ RobustInit
    /\ \/ subject \in {"wait", "robust"} /\ NoFutex /\ NotAgain /\ NoPoll
       \/ /\ \/ subject = "requeue" /\ Requeue!Init
             \/ subject = "restart" /\ Restart!Init
             \/ subject = "moved" /\ Moved!Init
             \/ subject = "timed" /\ Timed!Init
          /\ NotAgain /\ NoPoll
       \/ /\ (subject = "flagged" /\ Flagged!Init) \/ (subject = "held" /\ Held!Init)
          /\ NoFutex /\ NoPoll
       \/ /\ \/ subject = "shared" /\ Shared!Init
             \/ subject = "nested" /\ Nested!Init
             \/ subject = "full" /\ Full!Init
          /\ NoFutex /\ NotAgain

WaitingNext ==
    \/ subject = "wait" /\ Next /\ UNCHANGED <<subject, futexVars, robustVars, againVars, pollVars>>
    \/ /\ subject = "robust" /\ RobustNext
       /\ UNCHANGED <<subject, futexVars, vars, againVars, pollVars>>
    \/ /\ \/ subject = "requeue" /\ Requeue!Next
          \/ subject = "restart" /\ Restart!Next
          \/ subject = "moved" /\ Moved!Next
          \/ subject = "timed" /\ Timed!Next
       /\ UNCHANGED <<subject, robustVars, vars, againVars, pollVars>>
    \/ /\ (subject = "flagged" /\ Flagged!Next) \/ (subject = "held" /\ Held!Next)
       /\ UNCHANGED <<subject, futexVars, robustVars, vars, pollVars>>
    \/ /\ \/ subject = "shared" /\ Shared!Next
          \/ subject = "nested" /\ Nested!Next
          \/ subject = "full" /\ Full!Next
       /\ UNCHANGED <<subject, futexVars, robustVars, vars, againVars>>

WaitingSpec == WaitingInit /\ [][WaitingNext]_all

Symmetric == Permutations(Lock) \cup Permutations(Thread)

----------------------------------------------------------------------------
(* The properties of the other modules, and of the other waits, each of    *)
(* the behaviours it is about.                                             *)

(* A futex has a reference for each waiter, parked wait and operation, and *)
(* a deadline's record one for its wait and one for its service thread: it *)
(* is freed once, and broadcasts only for its wait.  What points into the  *)
(* frame of a wait, the queue of a futex or waiting_interrupt_flag, points *)
(* into one that has not returned.                                         *)
HeldWhileUsed ==
    /\ subject = "requeue" => Requeue!RefsMatchHolders
    /\ subject = "restart" => Restart!RefsMatchHolders /\ Restart!QueuesHoldLiveWaits
    /\ subject = "moved" => Moved!RefsMatchHolders /\ Moved!QueuesHoldLiveWaits
    /\ subject = "timed" => Timed!RefsMatchHolders /\ Timed!QueuesHoldLiveWaits
    /\ subject = "wait" => RecordsAccounted
    /\ subject = "flagged" => Flagged!RecordsAccounted /\ Flagged!FlagIsLive


(* Matching waiters leave a futex's queue in the order they came, and a    *)
(* wait taken off its queue and not interrupted returns 0.                 *)
WakesAreKept ==
    [][/\ subject = "requeue" => Requeue!InOrderStep
       /\ subject = "timed" => Timed!WokenStep]_all

(* A restart never moves a wait's deadline further away.                   *)
RestartKeepsDeadline == [][subject = "timed" => Timed!DeadlineStep]_all

(* No futex wait, and no wait with a sender that holds its lock, sleeps on *)
(* with its condition there, or a signal and no sender; nor does           *)
(* epoll_wait, on a file that is ready and was not reported.  Nor are they *)
(* and their senders, or the threads that wait on, wake and change an      *)
(* epoll, blocked on each other in a circle.                               *)
WaitersAreReached ==
    /\ subject = "flagged" => Flagged!SleeperIsReached /\ Flagged!NoCircularWait
    /\ subject = "held" => Held!SleeperIsReached /\ Held!NoCircularWait /\ Held!MarkIsSpent
    /\ subject = "shared" => Shared!NobodyForgotten /\ Shared!NoCircularWait
    /\ subject = "nested" => Nested!NobodyForgotten /\ Nested!NoCircularWait
    /\ subject = "full" => Full!NobodyForgotten /\ Full!SignalReaches

(* One oneshot registration gives one report, whoever waits.               *)
OneshotOnce ==
    [][/\ subject = "shared" => Shared!OneshotStep
       /\ subject = "full" => Full!OneshotStep]_all
=============================================================================
