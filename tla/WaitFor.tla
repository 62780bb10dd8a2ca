------------------------------ MODULE WaitFor ------------------------------
(***************************************************************************)
(* util/sync.c and wake_waiting_task of kernel/signal.c: a task waits on a *)
(* condition under a lock of its own, and is notified, signalled, poked by *)
(* the address-space barrier, or told of its deadline by a service thread. *)
(* The waiter holds its lock when it takes waiting_cond_lock; a sender     *)
(* takes them the other way round, and must not block on the second.       *)
(* A call is a futex wait, which publishes the address of a flag in its    *)
(* frame, a plain wait_for, or wait_for_ignore_signals.                    *)
(***************************************************************************)
EXTENDS Naturals, FiniteSets

CONSTANTS
    Sender,     \* threads that send the waiter a signal
    Holding,    \* the senders that hold the waiter's lock as they do
    Kinds,      \* the calls the waiter makes: "futex", "plain", "ignore"
    Record,     \* room for struct deadline_wake
    None

(* What the constants are. *)
WaitForConstants ==
    /\ IsFiniteSet(Record) /\ Kinds \subseteq {"futex", "plain", "ignore"}
    /\ Holding \subseteq Sender /\ None \notin Record \cup Sender
    /\ "waiter" \notin Sender \cup {None}

VARIABLES
    pc, kind,           \* where the waiter is, and in which call
    lock, cond_lock,    \* who holds the wait's lock, and waiting_cond_lock
    wake_lock,          \* the sender that is mid-wake
    cond,               \* waiting_cond and waiting_lock are published
    flag,               \* waiting_interrupt_flag is published
    interrupted,        \* the flag in the frame of a futex wait
    mark, should_mark,  \* wait_interrupted; should_mark_wait_interrupted
    asleep,             \* the waiter is in pthread_cond_wait, and nothing has
                        \* woken it
    eintr,              \* wait_for returns _EINTR
    ready,              \* what the call waits for has come about
    pending, poke,      \* a deliverable signal; a SIGUSR1 not yet handled
    spc,                \* where each sender is
    wake,               \* the waiter's record of this wait, or None
    rec                 \* the records: cond, refs and the timer

vars == <<pc, kind, lock, cond_lock, wake_lock, cond, flag, interrupted, mark, should_mark, asleep,
          eintr, ready, pending, poke, spc, wake, rec>>
locks == <<lock, cond_lock, wake_lock>>
others == <<wake_lock, ready, pending, poke, spc>>

Free == [cond |-> FALSE, refs |-> 0, timer |-> "none"]

Init ==
    /\ pc = "idle" /\ kind = "plain" /\ lock = None /\ cond_lock = None /\ wake_lock = None
    /\ cond = FALSE /\ flag = FALSE /\ interrupted = FALSE
    /\ mark = FALSE /\ should_mark = FALSE /\ asleep = FALSE /\ eintr = FALSE
    /\ ready = FALSE /\ pending = FALSE /\ poke = FALSE
    /\ spc = [s \in Sender |-> "idle"]
    /\ wake = None /\ rec = [r \in Record |-> Free]

Goto(l) == pc' = l
Interruptible == kind # "ignore"

----------------------------------------------------------------------------
(* The waiter: a system call, which takes its lock, and loops on ready.    *)

Call ==
    /\ pc = "idle" /\ lock = None /\ ~ pending
    /\ kind' \in Kinds
    /\ lock' = "waiter" /\ Goto("test")
    /\ UNCHANGED <<cond_lock, cond, flag, interrupted, mark, should_mark, asleep, eintr, others,
                   wake, rec>>

Test ==
    /\ pc = "test"
    /\ Goto(CASE ready -> "leave"
              [] ~ ready /\ kind = "futex" -> "flag"
              [] ~ ready /\ kind = "plain" -> "early"
              [] ~ ready /\ kind = "ignore" -> "publish")
    /\ UNCHANGED <<kind, locks, cond, flag, interrupted, mark, should_mark, asleep, eintr, others,
                   wake, rec>>

(* futex_wait publishes its flag. *)
SetFlag ==
    /\ pc = "flag" /\ cond_lock = None
    /\ flag' = TRUE /\ should_mark' = TRUE /\ Goto("early")
    /\ UNCHANGED <<kind, locks, cond, interrupted, mark, asleep, eintr, others, wake, rec>>

(* consume_wait_interrupted() || is_signal_pending(), which is two looks:  *)
(* at the mark, which is taken, and if there was none at the signals.      *)
Looks == {"early", "check", "after"}
Second(l) == CASE l = "early" -> "early2" [] l = "check" -> "check2" [] l = "after" -> "after2"
Yes(l) == CASE l = "early" -> "unflag" [] l = "check" -> "out" [] l = "after" -> "return"
No(l) == CASE l = "early" -> "publish" [] l = "check" -> "sleep" [] l = "after" -> "return"

Consume ==
    /\ pc \in Looks
    /\ mark' = FALSE
    /\ eintr' = (mark /\ pc = "after")
    /\ Goto(IF mark THEN Yes(pc) ELSE Second(pc))
    /\ UNCHANGED <<kind, locks, cond, flag, interrupted, should_mark, asleep, others, wake, rec>>

Look ==
    \E l \in Looks :
        /\ pc = Second(l)
        /\ Goto(IF pending THEN Yes(l) ELSE No(l))
        /\ eintr' = (pending /\ l = "after")
        /\ UNCHANGED <<kind, locks, cond, flag, interrupted, mark, should_mark, asleep, others,
                       wake, rec>>

(* Mutant: the early return leaves the flag published. *)
Unflag_Not ==
    /\ pc = "unflag" /\ cond_lock = None
    /\ eintr' = TRUE /\ Goto("return")
    /\ UNCHANGED <<kind, locks, cond, flag, interrupted, mark, should_mark, asleep, others, wake,
                   rec>>

(* The early return of wait_for_common. *)
Unflag ==
    /\ pc = "unflag" /\ cond_lock = None
    /\ flag' = FALSE /\ eintr' = TRUE /\ Goto("return")
    /\ UNCHANGED <<kind, locks, cond, interrupted, mark, should_mark, asleep, others, wake, rec>>

Publish ==
    /\ pc = "publish" /\ cond_lock = None
    /\ cond' = TRUE /\ Goto(IF Interruptible THEN "check" ELSE "sleep")
    /\ UNCHANGED <<kind, locks, flag, interrupted, mark, should_mark, asleep, eintr, others, wake,
                   rec>>

(* pthread_cond_wait drops the lock; a precise wait arms a record first.   *)
Sleep ==
    /\ pc = "sleep"
    /\ \/ /\ \E r \in Record : rec[r] = Free
          /\ wake' = CHOOSE r \in Record : rec[r] = Free
          /\ rec' = [rec EXCEPT ![wake'] = [cond |-> TRUE, refs |-> 2, timer |-> "armed"]]
       \/ UNCHANGED <<wake, rec>>
    /\ lock' = None /\ asleep' = TRUE
    /\ should_mark' = (should_mark \/ Interruptible)
    /\ Goto("asleep")
    /\ UNCHANGED <<kind, cond_lock, cond, flag, interrupted, mark, eintr, others>>

(* The wait ends: notified, at the end of its slice, or for no reason.     *)
Wake ==
    /\ pc = "asleep" /\ lock = None
    /\ lock' = "waiter" /\ asleep' = FALSE
    /\ Goto(IF wake = None THEN "out" ELSE "disarm")
    /\ UNCHANGED <<kind, cond_lock, cond, flag, interrupted, mark, should_mark, eintr, others, wake,
                   rec>>

(* deadline_wake_disarm: no broadcast from here on ... *)
Disarm ==
    /\ pc = "disarm"
    /\ rec' = [rec EXCEPT ![wake].cond = FALSE]
    /\ Goto("delete")
    /\ UNCHANGED <<kind, locks, cond, flag, interrupted, mark, should_mark, asleep, eintr, others,
                   wake>>

Put(r, n) == IF r.refs = n THEN Free ELSE [r EXCEPT !.refs = @ - n]

(* Mutant: the timer's reference is dropped though its event is out. *)
Dropped_Both(r) == 2

(* How many references the waiter drops: the timer's too when the delete   *)
(* took it back. *)
Dropped(r) == IF r.timer = "armed" THEN 2 ELSE 1

(* ... and the timer is deleted unless it has fired. *)
Deleted(r) == [r EXCEPT !.timer = IF r.timer = "armed" THEN "none" ELSE r.timer]

Delete ==
    /\ pc = "delete"
    /\ rec' = [rec EXCEPT ![wake] = Put(Deleted(rec[wake]), Dropped(rec[wake]))]
    /\ wake' = None /\ Goto("out")
    /\ UNCHANGED <<kind, locks, cond, flag, interrupted, mark, should_mark, asleep, eintr, others>>

(* wait_for_internal puts should_mark back and unpublishes the wait. *)
Out ==
    /\ pc = "out" /\ cond_lock = None
    /\ cond' = FALSE /\ flag' = FALSE
    /\ should_mark' = (should_mark /\ kind = "futex")
    /\ eintr' = FALSE
    /\ Goto(IF Interruptible THEN "after" ELSE "return")
    /\ UNCHANGED <<kind, locks, interrupted, mark, asleep, others, wake, rec>>

(* The caller: a futex wait asks its flag, and when it is not set takes    *)
(* the mark and looks for a signal itself; others believe wait_for.  The   *)
(* caller may have reached its deadline.  *)
Return ==
    /\ pc = "return"
    /\ should_mark' = FALSE
    /\ mark' = IF kind = "futex" /\ ~ interrupted THEN FALSE ELSE mark
    /\ \/ Goto(IF \/ kind = "futex" /\ (interrupted \/ pending)
                  \/ kind = "plain" /\ eintr
               THEN "leave" ELSE "test")
       \/ Goto("leave")
    /\ UNCHANGED <<kind, locks, cond, flag, interrupted, asleep, eintr, others, wake, rec>>

Leave ==
    /\ pc = "leave"
    /\ lock' = None /\ interrupted' = FALSE /\ eintr' = FALSE /\ ready' = FALSE /\ Goto("idle")
    /\ UNCHANGED <<kind, cond_lock, wake_lock, cond, flag, mark, should_mark, asleep, pending,
                   poke, spc, wake, rec>>

(* receive_signals, between two calls. *)
ReceiveSignals ==
    /\ pc = "idle" /\ pending
    /\ pending' = FALSE
    /\ UNCHANGED <<pc, kind, locks, cond, flag, interrupted, mark, should_mark, asleep, eintr,
                   ready, poke, spc, wake, rec>>

(* sigusr1_handler, anywhere on the waiter's thread. *)
Handler ==
    /\ poke /\ poke' = FALSE
    /\ mark' = (mark \/ should_mark)
    /\ UNCHANGED <<pc, kind, locks, cond, flag, interrupted, should_mark, asleep, eintr, ready,
                   pending, spc, wake, rec>>

----------------------------------------------------------------------------
(* notify(cond) by a thread that holds the lock. *)
Notify ==
    /\ lock = None /\ ~ ready /\ pc # "idle"
    /\ ready' = TRUE /\ asleep' = FALSE
    /\ UNCHANGED <<pc, kind, locks, cond, flag, interrupted, mark, should_mark, eintr, pending,
                   poke, spc, wake, rec>>

(* task_poke_shared_mem: no signal. *)
Poke ==
    /\ ~ poke /\ pc # "idle" /\ poke' = TRUE
    /\ UNCHANGED <<pc, kind, locks, cond, flag, interrupted, mark, should_mark, asleep, eintr,
                   ready, pending, spc, wake, rec>>

senderRest == <<pc, kind, flag, cond, should_mark, eintr, ready, wake, rec>>
Step(s, l) == spc' = [spc EXCEPT ![s] = l]

(* A sender that holds the waiter's lock: PTRACE_ATTACH and the SIGWINCH   *)
(* of tty_set_winsize hold pids_lock, which a task in wait4 waits with.    *)
TakeFirst(s) ==
    /\ s \in Holding /\ spc[s] = "idle" /\ lock = None
    /\ lock' = s /\ Step(s, "held")
    /\ UNCHANGED <<senderRest, cond_lock, wake_lock, interrupted, mark, asleep, pending, poke>>

(* The signal is queued, if it was not, and the pokes are sent. *)
Send(s) ==
    /\ spc[s] = IF s \in Holding THEN "held" ELSE "idle"
    /\ pending' = TRUE /\ poke' = TRUE
    /\ Step(s, "queued")
    /\ UNCHANGED <<senderRest, locks, interrupted, mark, asleep>>

(* signal_wake_task lets one sender of a group through at a time. *)
Serialise(s) ==
    /\ spc[s] = "queued" /\ wake_lock = None
    /\ wake_lock' = s /\ Step(s, "record")
    /\ UNCHANGED <<senderRest, lock, cond_lock, interrupted, mark, asleep, pending, poke>>

(* Mutant: a wait that does not look at the mark is marked. *)
Records_All == flag \/ cond

(* Only a wait that will look at the mark is marked. *)
Records == flag \/ (cond /\ Interruptible)

(* What a sender lets go of as it leaves. *)
Done(s) ==
    /\ lock' = (IF lock = s THEN None ELSE lock)
    /\ cond_lock' = None /\ wake_lock' = None /\ Step(s, "idle")

(* wake_waiting_task takes waiting_cond_lock and records the interruption. *)
RecordInterruption(s) ==
    /\ spc[s] = "record" /\ cond_lock = None
    /\ mark' = (mark \/ Records)
    /\ interrupted' = (interrupted \/ flag)
    /\ IF cond THEN cond_lock' = s /\ Step(s, "try") /\ UNCHANGED <<lock, wake_lock>>
               ELSE Done(s)
    /\ UNCHANGED <<senderRest, asleep, pending, poke>>

(* Mutant: it waits for the lock with waiting_cond_lock held. *)
TryFailed_Holding(s) == Step(s, "block") /\ UNCHANGED <<asleep, lock, cond_lock, wake_lock>>

(* Mutant: it gives up. *)
TryFailed_GivesUp(s) == Done(s) /\ UNCHANGED asleep

(* The trylock failed: let go of waiting_cond_lock before waiting. *)
TryFailed(s) == Step(s, "block") /\ cond_lock' = None /\ UNCHANGED <<asleep, lock, wake_lock>>

(* pthread_mutex_trylock: got it, holds it already, or another has it.     *)
Try(s) ==
    /\ spc[s] = "try"
    /\ IF lock \in {None, s} THEN Done(s) /\ asleep' = FALSE ELSE TryFailed(s)
    /\ UNCHANGED <<senderRest, interrupted, mark, pending, poke>>

Block(s) ==
    /\ spc[s] = "block" /\ lock = None
    /\ lock' = s /\ Step(s, "again")
    /\ UNCHANGED <<senderRest, cond_lock, wake_lock, interrupted, mark, asleep, pending, poke>>

(* waiting_cond_lock again: notify if the wait is still on. *)
Again(s) ==
    /\ spc[s] = "again" /\ cond_lock = None
    /\ asleep' = (asleep /\ ~ cond)
    /\ Done(s)
    /\ UNCHANGED <<senderRest, interrupted, mark, pending, poke>>

----------------------------------------------------------------------------
(* The kqueue timer fires; then the service thread, under the record's     *)
(* lock, broadcasts unless the wait is over, and drops its reference.      *)
serviceRest == <<pc, kind, locks, cond, flag, interrupted, mark, should_mark, eintr, others, wake>>

Fire(r) ==
    /\ rec[r].timer = "armed" /\ rec' = [rec EXCEPT ![r].timer = "fired"]
    /\ UNCHANGED <<serviceRest, asleep>>

Broadcast(r) ==
    /\ rec[r].timer = "fired"
    /\ rec' = [rec EXCEPT ![r].timer = "told"]
    /\ asleep' = (asleep /\ ~ rec[r].cond)
    /\ UNCHANGED serviceRest

PutLast(r) ==
    /\ rec[r].timer = "told"
    /\ rec' = [rec EXCEPT ![r] = Put([@ EXCEPT !.timer = "none"], 1)]
    /\ UNCHANGED <<serviceRest, asleep>>

Waiter ==
    \/ Call \/ Test \/ SetFlag \/ Consume \/ Look \/ Unflag \/ Publish \/ Sleep \/ Wake
    \/ Disarm \/ Delete \/ Out \/ Return \/ Leave \/ ReceiveSignals \/ Handler

Next ==
    \/ Waiter \/ Notify \/ Poke
    \/ \E s \in Sender :
          \/ TakeFirst(s) \/ Send(s) \/ Serialise(s) \/ RecordInterruption(s)
          \/ Try(s) \/ Block(s) \/ Again(s)
    \/ \E r \in Record : Fire(r) \/ Broadcast(r) \/ PutLast(r)

Spec == Init /\ [][Next]_vars

----------------------------------------------------------------------------
TypeOK ==
    /\ kind \in {"plain", "futex", "ignore"}
    /\ lock \in Sender \cup {None, "waiter"} /\ {cond_lock, wake_lock} \subseteq Sender \cup {None}
    /\ wake \in Record \cup {None}
    /\ asleep => pc = "asleep"

(* A wait that can be ended is not left asleep: what it waits for has not  *)
(* come about, and a signal that is pending has a sender that has yet to   *)
(* get past the two locks, even if its trylock failed while the waiter was *)
(* on its way into pthread_cond_wait (signal.c:529, sync.c:479).           *)
SleeperIsReached ==
    asleep => /\ ~ ready
              /\ pending /\ Interruptible => \E s \in Sender : spc[s] \notin {"idle", "held"}

(* waiting_interrupt_flag points into a live frame: of a futex wait that   *)
(* has not returned (sync.c:334, signal.c:497).                            *)
FlagIsLive == flag => pc \notin {"idle", "test", "leave"} /\ kind = "futex"

(* wait_interrupted does not outlive the wait it was set for: "it cannot   *)
(* leave without taking this lock to unpublish the wait, and wait_for      *)
(* looks at wait_interrupted only after that" (signal.c:466).              *)
MarkIsSpent == pc = "idle" => ~ mark

(* A record has the references of the waiter in its wait and of the timer  *)
(* that is set or whose event is out, so it is freed once, by the last of  *)
(* the two; a broadcast is only ever for the wait under way (sync.c:179).  *)
RecordsAccounted ==
    \A r \in Record :
        /\ rec[r].refs = (IF wake = r THEN 1 ELSE 0) + (IF rec[r].timer # "none" THEN 1 ELSE 0)
        /\ rec[r].cond => wake = r /\ pc \in {"asleep", "disarm"}

(* The lock a thread is blocked on, as who holds it. *)
Awaits(a) ==
    IF a = "waiter"
    THEN CASE pc \in {"flag", "unflag", "publish", "out"} -> cond_lock
           [] pc = "asleep" /\ ~ asleep -> lock
           [] OTHER -> None
    ELSE CASE spc[a] = "queued" -> wake_lock
           [] spc[a] \in {"record", "again"} -> cond_lock
           [] spc[a] = "block" -> lock
           [] OTHER -> None

(* The waiter and its senders are never blocked on each other in a circle: *)
(* a sender does not wait for the waiter's lock with waiting_cond_lock     *)
(* held, which the waiter takes with its own lock held (signal.c:529), and *)
(* wake_lock brings no other circle (signal.c:918, signal.h:407).          *)
NoCircularWait ==
    \A C \in (SUBSET (Sender \cup {"waiter"})) \ {{}} : \E a \in C : Awaits(a) \notin C
=============================================================================
