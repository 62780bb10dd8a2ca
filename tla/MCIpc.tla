------------------------------- MODULE MCIpc -------------------------------
(***************************************************************************)
(* The objects guest threads block on or are woken by, for TLC.  A         *)
(* behaviour is about one subject, chosen at the start: an eventfd, a      *)
(* FIFO, a semaphore set, a System V message queue, POSIX message queues   *)
(* (one two messages deep, or two), the byte-range or the whole-file locks *)
(* of a file, or a timer.  The names that two modules use are the          *)
(* subject's; the others stay as they were made, or their variables 0.     *)
(***************************************************************************)
EXTENDS Flock, Timer, TLC

CONSTANTS th1, th2, th3, end1, end2, fd1, fd2, Nothing, Nobody

VARIABLES
    subject,
    val, asleep, woken, call, life, waiters, pc,            \* of several
    inc,                                                    \* Eventfd
    ring, readers, writers, w_counter, fds, file, met,      \* Fifo
    adj, ncnt, zcnt, credit, by,                            \* SysvSem
    messages, cbytes, qnum, qbytes,                         \* SysvMsg
    named, refs, maxmsg, msgs, receivers_waiting, note, queues_count, charged,
    fdq, table, mq_armed,                                   \* Mqueue
    posix_locks, lock_waiters, req                          \* FileLock

sysvVars == <<life, waiters>>
eventfdVars == <<val, asleep, inc>>
fifoVars == <<ring, readers, writers, w_counter, fds, file, met>>
semVars == <<adj, ncnt, zcnt, credit, by>>
msgVars == <<messages, cbytes, qnum, qbytes>>
mqVars == <<named, refs, maxmsg, msgs, receivers_waiting, note, queues_count, charged,
            fdq, table, mq_armed>>
rangeVars == <<posix_locks, lock_waiters, req>>

----------------------------------------------------------------------------
(* An eventfd with EFD_SEMAPHORE, and one without. *)
SemEventfd == INSTANCE Eventfd WITH
    Thread <- {th1, th2, th3}, MaxVal <- 3, Increment <- {1, 2, 3}, Semaphore <- TRUE
Counter == INSTANCE Eventfd WITH
    Thread <- {th1, th2, th3}, MaxVal <- 3, Increment <- {1, 2, 3}, Semaphore <- FALSE

(* Two readers' flags, a writer, and one that opens for both; writes of    *)
(* PIPE_BUF and of more. *)
Opens(m, n) == [mode |-> m, nonblock |-> n]
Fifo == INSTANCE Fifo WITH
    Thread <- {end1, end2, th3}, Cap <- 3, PipeBuf <- 2, Size <- {2, 3}, ReadSize <- {2},
    MaxOpens <- 2,
    Flags <- (end1 :> {Opens("r", FALSE), Opens("r", TRUE)}) @@ (end2 :> {Opens("w", FALSE)})
             @@ (th3 :> {Opens("rw", TRUE)})

(* Arrays that block in the middle, undo, wait for zero, and give up.      *)
SemOp(n, o, u, w) == [num |-> n, op |-> o, undo |-> u, nowait |-> w]
Sem == INSTANCE SysvSem WITH
    Thread <- {th1, th2}, Group <- (th1 :> th1) @@ (th2 :> th2), Sem <- {0, 1}, MaxVal <- 1,
    SetValues <- {1},
    Arrays <- {<<SemOp(0, -1, TRUE, FALSE)>>,
               <<SemOp(1, 1, FALSE, FALSE), SemOp(0, -1, FALSE, FALSE)>>,
               <<SemOp(0, 0, FALSE, FALSE), SemOp(0, 1, TRUE, TRUE)>>,
               <<SemOp(0, 1, TRUE, FALSE), SemOp(1, -1, FALSE, FALSE)>>}

(* Any type, all but one, the lowest up to 2, and one type. *)
Wants(y, e, r, n) == [typ |-> y, except |-> e, room |-> r, noerror |-> n]
Msg == INSTANCE SysvMsg WITH
    Thread <- {th1, th2}, Type <- {1, 2}, Size <- {1, 2}, QBytes <- {1, 3}, MSGMNB <- 2,
    MaxNum <- 3,
    Select <- {Wants(0, FALSE, 2, FALSE), Wants(1, TRUE, 1, FALSE), Wants(-2, FALSE, 1, TRUE),
               Wants(2, FALSE, 2, FALSE)}

MqDeep == INSTANCE Mqueue WITH
    armed <- mq_armed, Thread <- {th1, th2}, Proc <- {th1, th2}, ProcOf <- (th1 :> th1) @@ (th2 :> th2), Queue <- {1},
    Desc <- {1, 2}, Prio <- {0, 1}, MaxMsgs <- {2}, QueuesMax <- 1, Limit <- 3

MqTwo == INSTANCE Mqueue WITH
    armed <- mq_armed, Thread <- {th1, th2}, Proc <- {th1, th2}, ProcOf <- (th1 :> th1) @@ (th2 :> th2),
    Queue <- {1, 2}, Desc <- {1, 2}, Prio <- {0}, MaxMsgs <- {1}, QueuesMax <- 2, Limit <- 3

(* All bytes, the one in the middle, the first two counted back, and the   *)
(* last: they merge, override, trim and split each other.                  *)
Bytes(o, s, n) == [offset |-> o, start |-> s, len |-> n]
Ranges == INSTANCE FileLock WITH
    Thread <- {th1, th2}, Owner <- {th1, th2}, Mine <- (th1 :> {th1}) @@ (th2 :> {th2}),
    Inode <- {fd1}, OffMax <- 2, Depth <- 4,
    Flock <- {Bytes(0, 0, 0), Bytes(1, 0, 1), Bytes(1, 1, -2), Bytes(0, 2, 1)}

(* Flock: a description that two threads share, and one of a third. *)
FlockUsers == (fd1 :> {th1, th2}) @@ (fd2 :> {th3})

(* Timer: overdue, off, one and two ticks, and a time that overflows. *)
TimerValues == {-2, 0, 1, 2, 9}

ASSUME SemEventfd!EventfdConstants /\ Counter!EventfdConstants
ASSUME Ranges!FileLockConstants /\ FlockConstants /\ TimerConstants /\ TimesFit
ASSUME Fifo!FifoConstants /\ Sem!SysvSemConstants /\ Msg!SysvMsgConstants
ASSUME MqDeep!MqueueConstants /\ MqTwo!MqueueConstants

----------------------------------------------------------------------------
NoFifo ==
    ring = 0 /\ readers = 0 /\ writers = 0 /\ w_counter = 0 /\ fds = 0 /\ file = 0 /\ met = 0
NoSem == adj = 0 /\ ncnt = 0 /\ zcnt = 0 /\ credit = 0 /\ by = 0
NoMsg == messages = 0 /\ cbytes = 0 /\ qnum = 0 /\ qbytes = 0
NoMq ==
    /\ named = 0 /\ refs = 0 /\ maxmsg = 0 /\ msgs = 0 /\ receivers_waiting = 0 /\ note = 0
    /\ queues_count = 0 /\ charged = 0 /\ fdq = 0 /\ table = 0 /\ mq_armed = 0
NoSysv == life = 0 /\ waiters = 0
NoRanges == posix_locks = 0 /\ lock_waiters = 0 /\ req = 0
NoEventfd == val = 0 /\ asleep = 0 /\ inc = 0

IpcInit ==
    /\ FlockInit /\ TimerInit
    /\ \/ /\ (subject = "eventfd" /\ SemEventfd!Init) \/ (subject = "counter" /\ Counter!Init)
          /\ call = 0 /\ pc = 0 /\ NoSysv /\ NoFifo /\ NoSem /\ NoMsg /\ NoMq /\ NoRanges
       \/ /\ subject = "fifo" /\ Fifo!Init
          /\ val = 0 /\ inc = 0 /\ NoSysv /\ NoSem /\ NoMsg /\ NoMq /\ NoRanges
       \/ /\ subject = "sem" /\ Sem!Init
          /\ asleep = 0 /\ inc = 0 /\ pc = 0 /\ NoFifo /\ NoMsg /\ NoMq /\ NoRanges
       \/ /\ subject = "msg" /\ Msg!Init
          /\ pc = 0 /\ NoEventfd /\ NoFifo /\ NoSem /\ NoMq /\ NoRanges
       \/ /\ \/ subject = "mqdeep" /\ MqDeep!Init
             \/ subject = "mqtwo" /\ MqTwo!Init
          /\ pc = 0 /\ NoEventfd /\ NoSysv /\ NoFifo /\ NoSem /\ NoMsg /\ NoRanges
       \/ /\ subject = "ranges" /\ Ranges!Init
          /\ call = 0
          /\ NoEventfd /\ NoSysv /\ NoFifo /\ NoSem /\ NoMsg /\ NoMq
       \/ /\ subject \in {"flock", "timer"}
          /\ call = 0 /\ woken = 0 /\ pc = 0
          /\ NoEventfd /\ NoSysv /\ NoFifo /\ NoSem /\ NoMsg /\ NoMq /\ NoRanges

instanceVars == <<woken, call, pc, eventfdVars, sysvVars, fifoVars, semVars, msgVars, mqVars,
                  rangeVars>>

IpcNext ==
    \/ subject = "flock" /\ FlockNext /\ UNCHANGED <<subject, timerVars, instanceVars>>
    \/ subject = "timer" /\ TimerNext /\ UNCHANGED <<subject, flockVars, instanceVars>>
    \/ /\ UNCHANGED <<subject, flockVars, timerVars>>
       /\ \/ /\ (subject = "eventfd" /\ SemEventfd!Next) \/ (subject = "counter" /\ Counter!Next)
             /\ UNCHANGED <<call, pc, sysvVars, fifoVars, semVars, msgVars, mqVars, rangeVars>>
          \/ /\ subject = "fifo" /\ Fifo!Next
             /\ UNCHANGED <<val, inc, sysvVars, semVars, msgVars, mqVars, rangeVars>>
          \/ /\ subject = "sem" /\ Sem!Next
             /\ UNCHANGED <<asleep, inc, pc, fifoVars, msgVars, mqVars, rangeVars>>
          \/ /\ subject = "msg" /\ Msg!Next
             /\ UNCHANGED <<pc, eventfdVars, fifoVars, semVars, mqVars, rangeVars>>
          \/ /\ \/ subject = "mqdeep" /\ MqDeep!Next
                \/ subject = "mqtwo" /\ MqTwo!Next
             /\ UNCHANGED <<pc, eventfdVars, sysvVars, fifoVars, semVars, msgVars, rangeVars>>
          \/ /\ subject = "ranges" /\ Ranges!Next
             /\ UNCHANGED <<call, eventfdVars, sysvVars, fifoVars, semVars, msgVars, mqVars>>

ipcVars == <<subject, flockVars, timerVars, instanceVars>>
IpcSpec == IpcInit /\ [][IpcNext]_ipcVars

(* th1 and th2 are alike in every instance. *)
Alike == Permutations({th1, th2})

----------------------------------------------------------------------------
(* The properties of the modules, each of the behaviours it is about.      *)
(* Flock and Timer have some of their own.                                 *)

Types ==
    /\ subject = "eventfd" => SemEventfd!TypeOK
    /\ subject = "counter" => Counter!TypeOK
    /\ subject = "fifo" => Fifo!TypeOK
    /\ subject = "sem" => Sem!TypeOK
    /\ subject = "msg" => Msg!TypeOK
    /\ subject = "mqdeep" => MqDeep!TypeOK
    /\ subject = "mqtwo" => MqTwo!TypeOK
    /\ subject = "ranges" => Ranges!TypeOK
    /\ subject = "flock" => FlockTypeOK
    /\ subject = "timer" => TimerTypeOK

(* No thread sleeps on for what it could go on with: an eventfd it could   *)
(* read or write, a FIFO whose state it waits for, an array that could be  *)
(* applied, room for its message or a message, a range or a file nobody    *)
(* else locks.  A nap on an arming that is no longer the one in force      *)
(* finds its wake.                                                         *)
SleepersAreTold ==
    /\ subject = "eventfd" => SemEventfd!WakeNotLost
    /\ subject = "counter" => Counter!WakeNotLost
    /\ subject = "fifo" => Fifo!WakeNotLost
    /\ subject = "sem" => Sem!WakeNotLost
    /\ subject = "msg" => Msg!WakeNotLost
    /\ subject = "mqdeep" => MqDeep!WakeNotLost
    /\ subject = "mqtwo" => MqTwo!WakeNotLost
    /\ subject = "ranges" => Ranges!WakeNotLost
    /\ subject = "flock" => FlockWakeNotLost
    /\ subject = "timer" => TimerWakeNotLost

(* What an object records of its users and its contents is so: the ends of *)
(* a FIFO that are open or being opened, the sleepers of a semaphore set   *)
(* by GETNCNT, GETZCNT and waiters, the messages in cbytes and qnum, the   *)
(* receivers asleep, the waiters for file locks; and the list of ranges    *)
(* has no two entries where one would do.                                  *)
RecordsAreExact ==
    /\ subject = "fifo" => Fifo!CountsMatchEnds
    /\ subject = "sem" => Sem!CountsMatchSleepers
    /\ subject = "msg" => Msg!CountsMatchMessages
    /\ subject = "mqdeep" => MqDeep!ReceiversCounted
    /\ subject = "mqtwo" => MqTwo!ReceiversCounted
    /\ subject = "ranges" => Ranges!WaitersAreAsleep /\ Ranges!ListIsCanonical

(* An object lives as long as it is used and no longer: a removed set or   *)
(* queue until the last sleeper has seen the removal, a POSIX queue (and   *)
(* its charge) while a name or a description holds it, a whole-file lock   *)
(* as its description, a timer until its thread is done with it.           *)
LivesWhileUsed ==
    /\ subject = "sem" => Sem!FreedByTheLast
    /\ subject = "msg" => Msg!FreedByTheLast
    /\ subject = "mqdeep" => MqDeep!RefsMatchHolders
    /\ subject = "mqtwo" => MqTwo!RefsMatchHolders
    /\ subject = "flock" => OwnersLive
    /\ subject = "timer" => FreedWhenDone

(* What a query answers is so: poll's POLLHUP on a FIFO, exactly when a    *)
(* writer that was there has gone; timer_read, armed exactly when an       *)
(* expiry is to come; F_GETLK, exactly what is locked.  F_GETLK is asked   *)
(* where no call is under way: one that gives up leaves the list as it is. *)
AnswersAreExact ==
    /\ subject = "fifo" => Fifo!HangupIsExact
    /\ subject = "timer" => ReadIsExact
    /\ subject = "ranges" /\ (\A t \in {th1, th2} : pc[t] = "run") => Ranges!GetLkIsExact

(* Bytes leave a FIFO in the order they came; messages of one type do; of  *)
(* a POSIX queue's, the highest priority, and equal ones as they came.     *)
TakenInOrder ==
    [][/\ subject = "fifo" => Fifo!QueueStep
       /\ subject = "msg" => Msg!InOrderStep
       /\ subject = "mqdeep" => MqDeep!PriorityStep
       /\ subject = "mqtwo" => MqTwo!PriorityStep]_ipcVars

(* A write of at most PIPE_BUF is in the ring whole or not at all, and an  *)
(* array of semaphore operations is applied whole or not at all.           *)
WholeOrNothing ==
    /\ [](subject = "fifo" => Fifo!SmallWritesAreWhole)
    /\ [][subject = "sem" => Sem!WholeStep]_ipcVars

(* Undoing every recorded adjustment leaves the plain operations' effect.  *)
UndoBalances == subject = "sem" => Sem!UndoBalances

(* No two owners sleep on each other's locks of one file.                  *)
NoCycleSleeps == subject = "ranges" => Ranges!NoCycleSleeps

(* The list of ranges implements locks on bytes.                           *)
ByteLocks == INSTANCE ByteLocks WITH
    Inode <- {fd1}, Owner <- {th1, th2}, OffMax <- 2,
    held <- IF subject = "ranges" THEN Ranges!Held
            ELSE [i \in {fd1} |-> [o \in {th1, th2} |-> [x \in 0 .. 2 |-> "none"]]]
ImplementsByteLocks == ByteLocks!Spec
=============================================================================
