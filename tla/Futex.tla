------------------------------- MODULE Futex -------------------------------
(***************************************************************************)
(* kernel/futex.c: FUTEX_WAIT, WAKE, their _BITSET forms, REQUEUE,         *)
(* CMP_REQUEUE, CMP_REQUEUE_PI and WAKE_OP, and the park that carries an   *)
(* interrupted wait across an SA_RESTART restart.  (The PI locks and the   *)
(* robust list are FutexPI and RobustList.)                                *)
(*                                                                         *)
(* One global futex_lock protects every futex object.  A wait is one step  *)
(* up to the point where it gives the lock up, and one step each time it   *)
(* has it back.  A wake-like operation keeps the lock for a whole walk of  *)
(* the queue; the walk is one step per waiter, so that what needs no lock  *)
(* (a signal, a guest store) can fall between two of them.                 *)
(***************************************************************************)
EXTENDS Integers, Sequences, FiniteSets, Lists

CONSTANTS
    Thread,     \* guest threads
    Key,        \* futex keys (futex_key_of): one futex object each
    Word,       \* cells of guest memory
    WordOf,     \* the cell a key's address reads; two keys may share one
    Val,        \* values of a cell
    Bit,        \* bits of a FUTEX_WAIT_BITSET mask
    Timeout,    \* relative timeouts a wait may pass; NoTimeout for none
    Mask,       \* bitsets the guest passes (never empty: val3 == 0 is EINVAL)
    MaxWake,    \* bound: the largest wake or requeue count passed
    MaxSeq,     \* bound: wake_seq of one object
    MaxNow,     \* bound: clock ticks
    MaxNest,    \* bound: interrupted waits one thread has stacked up
    MaxSignals, \* bound: signals sent
    Ops         \* the wake-like operations the guest uses

NoTimeout == -1

(* What the constants are. *)
FutexConstants ==
    /\ IsFiniteSet(Thread)
    /\ WordOf \in [Key -> Word]
    /\ Timeout \subseteq Nat \cup {NoTimeout}
    /\ Mask \subseteq (SUBSET Bit) \ {{}}
    /\ MaxWake \in Nat /\ MaxSeq \in Nat /\ MaxNow \in Nat /\ MaxNest \in Nat
    /\ MaxSignals \in Nat
    /\ Ops \subseteq {"wake", "requeue", "cmp_requeue", "wake_op"}

VARIABLES
    word,   \* guest memory
    futex,  \* the futex objects, by key; refcount 0: no object
    walk,   \* the wake-like operation holding futex_lock, or NoWalk
    pc,     \* where each thread is in futex_wait_masked
    call,   \* the arguments of its FUTEX_WAIT, while in one
    wait,   \* its struct futex_wait, while pc is "spin" or "sleep", else NoWait
    park,   \* its futex_restart_* fields, or NoPark
    stack,  \* waits cut short that will be re-executed, the innermost first
    fresh,  \* restart_sys_pending: rewound over a wait, no handler run yet
    sig,    \* a deliverable signal is pending
    expired,\* its last FUTEX_WAIT reported ETIMEDOUT
    sent,   \* how many signals have been sent
    now,    \* CLOCK_MONOTONIC
    missed  \* history: wakes that fell in the window of its interrupted wait

vars == <<word, futex, walk, pc, call, wait, park, stack, fresh, sig,
          expired, sent, now, missed>>

NoWalk == [on |-> FALSE]
NoPark == [on |-> FALSE]
NoCall == [on |-> FALSE]
NoWait == [on |-> FALSE]

Calls == [on : {TRUE}, key : Key, val : Val, timeout : Timeout, bitset : Mask]
Waits == [on : {TRUE}, key : Key, bitset : Mask, interrupted : BOOLEAN,
          deadline : Nat \cup {NoTimeout}]
Parks == {NoPark} \cup
         [on : {TRUE}, key : Key, wake_seq : Nat, timed : BOOLEAN,
          deadline : Nat \cup {NoTimeout}, timeout : Timeout]
Walks == {NoWalk} \cup
         [on : {TRUE}, by : Thread, op : {"wake", "wake_op", "cmp_requeue"},
          key : Key, key2 : Key, two : BOOLEAN, wake : 0 .. MaxWake, mask : Mask \cup {Bit},
          wake2 : 0 .. MaxWake, move : 0 .. MaxWake]

Waiting(t) == pc[t] \in {"spin", "sleep"}

Queued(t) == Waiting(t) /\ OnList(futex[wait[t].key].queue, t)

Locked == walk.on

----------------------------------------------------------------------------
(* The futex objects: futex_get_unlocked and futex_put_unlocked on a table *)
(* fx.  A freed object's counters go with it.                              *)

NewFutex == [refcount |-> 1, wake_seq |-> 0, queue |-> <<>>]

futex_get(fx, k) ==
    [fx EXCEPT ![k] = IF @.refcount = 0 THEN NewFutex
                      ELSE [@ EXCEPT !.refcount = @ + 1]]

futex_put(fx, k) ==
    [fx EXCEPT ![k] = IF @.refcount = 1
                      THEN [refcount |-> 0, wake_seq |-> 0, queue |-> @.queue]
                      ELSE [@ EXCEPT !.refcount = @ - 1]]

(* Mutant: the waiter returns with its frame still on the queue. *)
Unlink_Forgotten(fx, k, t) == fx

(* list_remove_safe: off whatever queue it is on, if it is on one. *)
Unlink(fx, k, t) == [fx EXCEPT ![k].queue = ListRemove(@, t)]

----------------------------------------------------------------------------
Init ==
    /\ word \in [Word -> Val]
    /\ futex = [k \in Key |-> [refcount |-> 0, wake_seq |-> 0, queue |-> <<>>]]
    /\ walk = NoWalk
    /\ pc = [t \in Thread |-> "run"]
    /\ call = [t \in Thread |-> NoCall]
    /\ wait = [t \in Thread |-> NoWait]
    /\ park = [t \in Thread |-> NoPark]
    /\ stack = [t \in Thread |-> <<>>]
    /\ fresh = [t \in Thread |-> FALSE]
    /\ sig = [t \in Thread |-> FALSE]
    /\ expired = [t \in Thread |-> FALSE]
    /\ sent = 0
    /\ now = 0
    /\ missed = [t \in Thread |-> {}]

----------------------------------------------------------------------------
(* FUTEX_WAIT.                                                             *)

(* The wait leaves with err: park or put the reference.  fx is the table   *)
(* with the waiter off its queue.  (call[t] stays as it was: a restart     *)
(* re-executes it.)                                                        *)
LeaveParked(t, fx) ==
    LET k == wait[t].key IN
    /\ futex' = fx
    /\ park' = [park EXCEPT ![t] =
                  [on |-> TRUE, key |-> k, wake_seq |-> fx[k].wake_seq,
                   timed |-> call[t].timeout # NoTimeout,
                   deadline |-> wait[t].deadline,
                   timeout |-> call[t].timeout]]
    /\ pc' = [pc EXCEPT ![t] = "eintr"]
    /\ wait' = [wait EXCEPT ![t] = NoWait]
    /\ missed' = [missed EXCEPT ![t] = {}]
    /\ UNCHANGED <<call, expired>>

LeaveWith(t, fx, err) ==
    /\ futex' = futex_put(fx, wait[t].key)
    /\ pc' = [pc EXCEPT ![t] = "run"]
    /\ wait' = [wait EXCEPT ![t] = NoWait]
    /\ call' = [call EXCEPT ![t] = NoCall]
    /\ expired' = [expired EXCEPT ![t] = err = "ETIMEDOUT"]
    /\ missed' = [missed EXCEPT ![t] = {}]
    /\ UNCHANGED park

(* Mutant: every execution of the call starts its timeout over. *)
Deadline_StartOver(t, c) ==
    IF c.timeout = NoTimeout THEN NoTimeout ELSE now + c.timeout

(* A wait resumed from its park, with the timeout it had and with nothing  *)
(* run in front of the restart, keeps its deadline.                        *)
Deadline(t, c) ==
    IF c.timeout = NoTimeout THEN NoTimeout
    ELSE IF /\ park[t].on /\ park[t].key = c.key
            /\ park[t].timed /\ park[t].timeout = c.timeout
    THEN park[t].deadline
    ELSE now + c.timeout

(* futex_wait_masked from futex_get to the point where it lets go of the   *)
(* lock: spinning or asleep on the queue, or returned.  rest is the stack  *)
(* of interrupted waits under this call.                                   *)
FutexWaitEnter(t, c, rest) ==
    /\ ~Locked
    /\ stack' = [stack EXCEPT ![t] = rest]
    /\ fresh' = [fresh EXCEPT ![t] = FALSE]
    /\ expired' = [expired EXCEPT ![t] = FALSE]
    /\ UNCHANGED <<word, walk, sig, sent, now>>
    /\ LET k       == c.key
           p       == park[t]
           resumed == p.on /\ p.key = k
           \* a park for another futex is dropped; a resumed one lends its
           \* reference to this wait
           fx      == IF resumed THEN futex
                      ELSE IF p.on THEN futex_put(futex_get(futex, k), p.key)
                      ELSE futex_get(futex, k)
           leave   == /\ futex' = futex_put(fx, k)
                      /\ pc' = [pc EXCEPT ![t] = "run"]
                      /\ missed' = [missed EXCEPT ![t] = {}]
                      /\ UNCHANGED <<call, wait>>
       IN
       \/ \* ENOMEM: futex_get could not make the object; the park stays
          /\ futex[k].refcount = 0
          /\ pc' = [pc EXCEPT ![t] = "run"]
          /\ UNCHANGED <<futex, call, wait, park, missed>>
       \/ /\ resumed /\ fx[k].wake_seq # p.wake_seq
          /\ park' = [park EXCEPT ![t] = NoPark]
          /\ leave          \* 0: woken while it was away
       \/ /\ resumed => fx[k].wake_seq = p.wake_seq
          /\ park' = [park EXCEPT ![t] = NoPark]
          /\ \/ leave       \* EFAULT, or EAGAIN on another value
             \/ /\ word[WordOf[k]] = c.val
                /\ futex' = [fx EXCEPT ![k].queue = ListAddTail(@, t)]
                /\ call' = [call EXCEPT ![t] = c]
                /\ wait' = [wait EXCEPT ![t] =
                              [on |-> TRUE, key |-> k, bitset |-> c.bitset,
                               interrupted |-> FALSE,
                               deadline |-> Deadline(t, c)]]
                /\ pc' = [pc EXCEPT ![t] = "spin"]
                \* a new call, as a handler's own, gives up the window of
                \* the call it interrupts; a restart is in its own window
                /\ missed' = [missed EXCEPT ![t] = IF resumed \/ rest # stack[t] THEN @ ELSE {}]

(* A thread between syscalls: not one whose interrupted wait is about to   *)
(* be re-executed with no handler in front of it.                          *)
MayCall(t) == pc[t] = "run" /\ ~fresh[t]

FutexWait(t) ==
    /\ MayCall(t)
    /\ Len(stack[t]) < MaxNest
    /\ \E c \in Calls : FutexWaitEnter(t, c, stack[t])

(* The rewound syscall instruction runs again, with the same arguments. *)
Restart(t) ==
    /\ pc[t] = "run"
    /\ stack[t] # <<>>
    /\ FutexWaitEnter(t, Head(stack[t]), Tail(stack[t]))

(* Mutant: the deadline is looked at before the queue. *)
LoopTop_DeadlineFirst(t) ==
    \/ /\ wait[t].deadline # NoTimeout /\ now >= wait[t].deadline
       /\ LeaveWith(t, Unlink(futex, wait[t].key, t), "ETIMEDOUT")
    \/ /\ wait[t].deadline = NoTimeout \/ now < wait[t].deadline
       /\ IF Queued(t)
          THEN /\ pc' = [pc EXCEPT ![t] = "sleep"]
               /\ UNCHANGED <<futex, call, wait, park, expired, missed>>
          ELSE LeaveWith(t, futex, "0")

(* Mutant: only the notification ends the wait, which a wake that falls    *)
(* between two sleeps does not leave behind.                               *)
LoopTop_NoListNull(t) ==
    /\ pc' = [pc EXCEPT ![t] = "sleep"]
    /\ UNCHANGED <<futex, call, wait, park, expired, missed>>

(* The loop with futex_lock in hand, from its top: woken, out of time, or  *)
(* to sleep (again).                                                       *)
LoopTop(t) ==
    \/ /\ ~Queued(t)
       /\ LeaveWith(t, futex, "0")
    \/ /\ Queued(t)
       /\ wait[t].deadline # NoTimeout /\ now >= wait[t].deadline
       /\ IF sig[t] THEN LeaveParked(t, Unlink(futex, wait[t].key, t))
          ELSE LeaveWith(t, Unlink(futex, wait[t].key, t), "ETIMEDOUT")
    \/ /\ Queued(t)
       /\ wait[t].deadline = NoTimeout \/ now < wait[t].deadline
       /\ pc' = [pc EXCEPT ![t] = "sleep"]
       /\ UNCHANGED <<futex, call, wait, park, expired, missed>>

SpinEnd(t) ==
    /\ pc[t] = "spin"
    /\ ~Locked
    /\ LoopTop(t)
    /\ UNCHANGED <<word, walk, stack, fresh, sig, sent, now>>

(* wait_for gives the lock back, for whatever reason it ended: a notify, a *)
(* signal, a poke, or the 50 ms slice.                                     *)
WaitForReturns(t) ==
    /\ pc[t] = "sleep"
    /\ ~Locked
    /\ IF wait[t].interrupted \/ sig[t]
       THEN LeaveParked(t, Unlink(futex, wait[t].key, t))
       ELSE LoopTop(t)
    /\ UNCHANGED <<word, walk, stack, fresh, sig, sent, now>>

(* sys_futex_common: a parked wait is restarted or reports EINTR. *)
DecideRestart(t) ==
    /\ pc[t] = "eintr"
    /\ pc' = [pc EXCEPT ![t] = "run"]
    /\ stack' = [stack EXCEPT ![t] = <<call[t]>> \o @]
    /\ fresh' = [fresh EXCEPT ![t] = TRUE]
    /\ call' = [call EXCEPT ![t] = NoCall]
    /\ UNCHANGED <<word, futex, walk, wait, park, sig, expired, sent, now, missed>>

ReleasePark(t) ==
    /\ futex' = IF park[t].on THEN futex_put(futex, park[t].key) ELSE futex
    /\ park' = [park EXCEPT ![t] = NoPark]

DecideEintr(t) ==
    /\ pc[t] = "eintr"
    /\ ~Locked
    /\ ReleasePark(t)
    /\ pc' = [pc EXCEPT ![t] = "run"]
    /\ call' = [call EXCEPT ![t] = NoCall]
    /\ missed' = [missed EXCEPT ![t] = {}]
    /\ UNCHANGED <<word, walk, wait, stack, fresh, sig, expired, sent, now>>

----------------------------------------------------------------------------
(* Signals, the clock and the guest.                                       *)

(* A signal is queued; wake_waiting_task marks the wait of a sleeper. *)
Signal(t) ==
    /\ pc[t] # "dead"
    /\ sent < MaxSignals
    /\ sent' = sent + 1
    /\ sig' = [sig EXCEPT ![t] = TRUE]
    /\ wait' = IF pc[t] = "sleep" THEN [wait EXCEPT ![t].interrupted = TRUE] ELSE wait
    /\ UNCHANGED <<word, futex, walk, pc, call, park, stack, fresh, expired, now, missed>>

(* Another thread of the process takes the signal first. *)
SignalTaken(t) ==
    /\ sig[t]
    /\ sig' = [sig EXCEPT ![t] = FALSE]
    /\ UNCHANGED <<word, futex, walk, pc, call, wait, park, stack, fresh, expired, sent, now, missed>>

(* receive_signal sets up a handler: the parked deadline is forgotten, and *)
(* a handler without SA_RESTART in front of the restart cancels it.        *)
Handler(t) ==
    /\ pc[t] = "run"
    /\ sig[t]
    /\ sig' = [sig EXCEPT ![t] = FALSE]
    /\ park' = [park EXCEPT ![t] = IF @.on THEN [@ EXCEPT !.timed = FALSE] ELSE @]
    /\ \/ UNCHANGED <<stack, missed>>
       \/ /\ fresh[t]
          /\ stack' = [stack EXCEPT ![t] = Tail(@)]
          /\ missed' = [missed EXCEPT ![t] = {}]
    /\ fresh' = [fresh EXCEPT ![t] = FALSE]
    /\ UNCHANGED <<word, futex, walk, pc, call, wait, expired, sent, now>>

(* The handler leaves by longjmp: the interrupted wait never restarts. *)
LongJmp(t) ==
    /\ MayCall(t)
    /\ stack[t] # <<>>
    /\ stack' = [stack EXCEPT ![t] = Tail(@)]
    /\ missed' = [missed EXCEPT ![t] = {}]
    /\ UNCHANGED <<word, futex, walk, pc, call, wait, park, fresh, sig, expired, sent, now>>

(* do_exit drops the park. *)
Exit(t) ==
    /\ pc[t] = "run"
    /\ ~Locked
    /\ ReleasePark(t)
    /\ pc' = [pc EXCEPT ![t] = "dead"]
    /\ stack' = [stack EXCEPT ![t] = <<>>]
    /\ fresh' = [fresh EXCEPT ![t] = FALSE]
    /\ sig' = [sig EXCEPT ![t] = FALSE]
    /\ UNCHANGED <<word, walk, call, wait, expired, sent, now, missed>>

GuestStore(t) ==
    /\ MayCall(t)
    /\ \E a \in Word, v \in Val : word' = [word EXCEPT ![a] = v]
    /\ UNCHANGED <<futex, walk, pc, call, wait, park, stack, fresh, sig, expired, sent, now, missed>>

Tick ==
    /\ now < MaxNow
    /\ now' = now + 1
    /\ UNCHANGED <<word, futex, walk, pc, call, wait, park, stack, fresh, sig, expired, sent, missed>>

----------------------------------------------------------------------------
(* The wake-like operations: take the lock and the references, then walk.  *)

(* The call t will re-execute: the one cut short, or the innermost of      *)
(* those under its handlers.                                               *)
Interrupted(t) == IF pc[t] = "eintr" THEN call[t] ELSE Head(stack[t])

(* An operation that wakes waiters of keys falls in the window of whoever  *)
(* is parked on one, between two executions of a call.  A requeued wait is *)
(* parked elsewhere than the call it re-executes says.                     *)
Missed(op, keys) ==
    missed' = [t \in Thread |->
        IF park[t].on /\ park[t].key \in keys /\ (pc[t] = "eintr" \/ stack[t] # <<>>)
        THEN missed[t] \cup {IF park[t].key = Interrupted(t).key THEN op ELSE "elsewhere"}
        ELSE missed[t]]

MayBegin(t) == MayCall(t) /\ ~Locked

Begin(t, fx, w) ==
    /\ futex' = fx
    /\ walk' = w
    /\ pc' = [pc EXCEPT ![t] = "walk"]
    /\ UNCHANGED <<call, wait, park, stack, fresh, sig, expired, sent, now>>


(* FUTEX_WAKE and FUTEX_WAKE_BITSET: wake_seq moves before the walk. *)
BumpSeq(fx, k) == [fx EXCEPT ![k].wake_seq = @ + 1]

FutexWake(t) == MayBegin(t) /\ \E k \in Key, n \in 0 .. MaxWake, m \in Mask :
    /\ "wake" \in Ops
    /\ futex[k].wake_seq < MaxSeq
    /\ Begin(t, BumpSeq(futex_get(futex, k), k),
             [on |-> TRUE, by |-> t, op |-> "wake", key |-> k, key2 |-> k, two |-> FALSE,
              wake |-> n, mask |-> m, wake2 |-> 0, move |-> 0])
    /\ Missed("wake", IF n > 0 THEN {k} ELSE {})
    /\ UNCHANGED word

FutexRequeue(t) == MayBegin(t) /\ \E k, k2 \in Key, n, r \in 0 .. MaxWake :
    /\ "requeue" \in Ops
    /\ futex[k].wake_seq < MaxSeq
    /\ Begin(t, BumpSeq(futex_get(futex_get(futex, k), k2), k),
             [on |-> TRUE, by |-> t, op |-> "wake", key |-> k, key2 |-> k2, two |-> TRUE,
              wake |-> n, mask |-> Bit, wake2 |-> 0, move |-> r])
    /\ Missed("wake", IF n > 0 THEN {k} ELSE {})
    /\ UNCHANGED word

(* FUTEX_CMP_REQUEUE, and with n = 0 FUTEX_CMP_REQUEUE_PI (which compares  *)
(* with val instead of val3 and wakes nobody).  EAGAIN and EFAULT put both *)
(* references back and change nothing.                                     *)
FutexCmpRequeue(t) == MayBegin(t) /\ \E k, k2 \in Key, n, r \in 0 .. MaxWake, v \in Val :
    /\ "cmp_requeue" \in Ops
    /\ word[WordOf[k]] = v
    /\ Begin(t, futex_get(futex_get(futex, k), k2),
             [on |-> TRUE, by |-> t, op |-> "cmp_requeue", key |-> k, key2 |-> k2, two |-> TRUE,
              wake |-> n, mask |-> Bit, wake2 |-> 0, move |-> r])
    /\ Missed("cmp_requeue", IF n > 0 THEN {k} ELSE {})
    /\ UNCHANGED word

(* FUTEX_WAKE_OP: the atomic update of the second word stores some v, and  *)
(* its comparison goes either way (n2 = 0 where it fails).                 *)
FutexWakeOp(t) == MayBegin(t) /\ \E k, k2 \in Key, n, n2 \in 0 .. MaxWake, v \in Val :
    /\ "wake_op" \in Ops
    /\ word' = [word EXCEPT ![WordOf[k2]] = v]
    /\ Begin(t, futex_get(futex_get(futex, k), k2),
             [on |-> TRUE, by |-> t, op |-> "wake_op", key |-> k, key2 |-> k2, two |-> TRUE,
              wake |-> n, mask |-> Bit, wake2 |-> n2, move |-> 0])
    /\ Missed("wake_op", (IF n > 0 THEN {k} ELSE {}) \cup (IF n2 > 0 THEN {k2} ELSE {}))

----------------------------------------------------------------------------
(* The walk: wake waiters of key from the front, then of key2 (WAKE_OP),   *)
(* then move the rest, then put the references and the lock.               *)

Matches(i) == wait[futex[walk.key].queue[i]].bitset \cap walk.mask # {}

(* Mutant: any waiter that matches. *)
FirstMatch_Any(i) == Matches(i)

FirstMatch(i) == Matches(i) /\ \A j \in 1 .. i - 1 : ~Matches(j)

WakeLeft  == walk.wake > 0 /\ \E i \in DOMAIN futex[walk.key].queue : Matches(i)
Wake2Left == walk.wake2 > 0 /\ futex[walk.key2].queue # <<>>
MoveLeft  == walk.move > 0 /\ walk.key # walk.key2 /\ futex[walk.key].queue # <<>>

Walking == UNCHANGED <<word, call, park, stack, fresh, sig, expired, sent, now, missed>>

(* notify, list_remove: the first waiter whose bitset matches. *)
WalkWake ==
    /\ Locked /\ WakeLeft
    /\ \E i \in DOMAIN futex[walk.key].queue :
          /\ FirstMatch(i)
          /\ futex' = [futex EXCEPT ![walk.key].queue = ListRemoveAt(@, i)]
    /\ walk' = [walk EXCEPT !.wake = @ - 1]
    /\ UNCHANGED <<pc, wait>>
    /\ Walking

WalkWake2 ==
    /\ Locked /\ ~WakeLeft /\ Wake2Left
    /\ futex' = [futex EXCEPT ![walk.key2].queue = Tail(@)]
    /\ walk' = [walk EXCEPT !.wake2 = @ - 1]
    /\ UNCHANGED <<pc, wait>>
    /\ Walking

(* Mutant: the waiter moves and its reference does not. *)
MoveHead_NoRef(fx, k, k2) ==
    LET t == Head(fx[k].queue) IN
    [fx EXCEPT ![k].queue = Tail(@), ![k2].queue = ListAddTail(@, t)]

(* futex_requeue_waiters: the waiter goes to the tail of the target, and   *)
(* its reference goes with it.  A futex requeued onto itself moves nobody. *)
MoveHead(fx, k, k2) ==
    LET t == Head(fx[k].queue) IN
    [fx EXCEPT ![k]  = [@ EXCEPT !.queue = Tail(@), !.refcount = @ - 1],
               ![k2] = [@ EXCEPT !.queue = ListAddTail(@, t), !.refcount = @ + 1]]

WalkMove ==
    /\ Locked /\ ~WakeLeft /\ ~Wake2Left /\ MoveLeft
    /\ futex' = MoveHead(futex, walk.key, walk.key2)
    /\ wait' = [wait EXCEPT ![Head(futex[walk.key].queue)].key = walk.key2]
    /\ walk' = [walk EXCEPT !.move = @ - 1]
    /\ UNCHANGED pc
    /\ Walking

WalkDone ==
    /\ Locked /\ ~WakeLeft /\ ~Wake2Left /\ ~MoveLeft
    /\ futex' = futex_put(IF walk.two THEN futex_put(futex, walk.key2) ELSE futex,
                          walk.key)
    /\ walk' = NoWalk
    /\ pc' = [pc EXCEPT ![walk.by] = "run"]
    /\ UNCHANGED wait
    /\ Walking

----------------------------------------------------------------------------
Walk == WalkWake \/ WalkWake2 \/ WalkMove \/ WalkDone

ThreadStep(t) ==
    \/ FutexWait(t) \/ Restart(t) \/ SpinEnd(t) \/ WaitForReturns(t)
    \/ DecideRestart(t) \/ DecideEintr(t)
    \/ Signal(t) \/ SignalTaken(t) \/ Handler(t) \/ LongJmp(t) \/ Exit(t)
    \/ GuestStore(t)
    \/ FutexWake(t) \/ FutexRequeue(t) \/ FutexCmpRequeue(t) \/ FutexWakeOp(t)

(* Every thread has exited: nothing is left to happen. *)
AllDead == (\A t \in Thread : pc[t] = "dead") /\ UNCHANGED vars

Next == Walk \/ Tick \/ AllDead \/ \E t \in Thread : ThreadStep(t)

Spec == Init /\ [][Next]_vars

(* The holder of futex_lock goes on, and a thread that waits for the lock  *)
(* gets it: a sleeper is back within its 50 ms slice, a spinner within its *)
(* spin, and the host's mutex starves neither.                             *)
Fairness == /\ WF_vars(Walk)
            /\ \A t \in Thread : SF_vars(SpinEnd(t)) /\ SF_vars(WaitForReturns(t))

FairSpec == Spec /\ Fairness

----------------------------------------------------------------------------
(* Properties.                                                             *)

(* Every variable keeps its type. *)
TypeOK ==
    /\ word \in [Word -> Val]
    /\ futex \in [Key -> [refcount : Nat, wake_seq : Nat, queue : Seq(Thread)]]
    /\ walk \in Walks
    /\ pc \in [Thread -> {"run", "walk", "spin", "sleep", "eintr", "dead"}]
    /\ call \in [Thread -> Calls \cup {NoCall}]
    /\ wait \in [Thread -> Waits \cup {NoWait}]
    /\ park \in [Thread -> Parks]
    /\ stack \in [Thread -> Seq(Calls)]
    /\ fresh \in [Thread -> BOOLEAN]
    /\ sig \in [Thread -> BOOLEAN]
    /\ expired \in [Thread -> BOOLEAN]
    /\ sent \in Nat
    /\ now \in Nat
    /\ missed \in [Thread -> SUBSET {"wake", "wake_op", "cmp_requeue", "elsewhere"}]

Waiters(k) == {t \in Thread : Waiting(t) /\ wait[t].key = k}
Parked(k)  == {t \in Thread : park[t].on /\ park[t].key = k}
WalkRefs(k) == (IF walk.on /\ walk.key = k THEN 1 ELSE 0)
             + (IF walk.on /\ walk.two /\ walk.key2 = k THEN 1 ELSE 0)

(* A futex object has one reference for each waiter in its wait (a requeue *)
(* moves it with the waiter), each wait parked on it for a restart and     *)
(* each operation at work on it: none is freed under a holder, and none    *)
(* outlives the last.  (struct futex, futex_get, futex_put,                *)
(* futex_requeue_waiters, the park in futex_wait_masked.)                  *)
RefsMatchHolders ==
    \A k \in Key : futex[k].refcount =
        Cardinality(Waiters(k)) + Cardinality(Parked(k)) + WalkRefs(k)

(* A queue holds only waits whose frame is live and that point back at     *)
(* this futex, each once: no wake runs over a frame that has returned      *)
(* (FUTEX_WAIT_MAGIC, futex_wait_is_live), and no object is freed with a   *)
(* waiter queued (the asserts of futex_put_unlocked).                      *)
QueuesHoldLiveWaits ==
    \A k \in Key : LET q == futex[k].queue IN
        /\ \A i \in DOMAIN q : Waiting(q[i]) /\ wait[q[i]].key = k
        /\ Distinct(q)
        /\ q # <<>> => futex[k].refcount > 0


(* The same for every operation that wakes: wake_seq is said to be "bumped *)
(* by every FUTEX_WAKE-like op on this futex" (struct futex).              *)
EveryWakeInWindowHonoured ==
    \A t \in Thread : Waiting(t) => missed[t] = {}

Leaves(t) == Waiting(t) /\ ~Waiting(t)'

(* A wait that a waker took off its queue, and that no signal interrupts,  *)
(* returns 0, however its deadline and its slices fall (the list_null      *)
(* checks of futex_wait_masked).                                           *)
WokenStep ==
    \A t \in Thread :
        Leaves(t) /\ ~Queued(t) /\ ~wait[t].interrupted /\ ~sig[t]
        => ~expired'[t] /\ pc'[t] = "run"

(* Waiters whose bitsets match leave in the order they queued: a walk      *)
(* takes nobody off past a matching waiter in front (list_for_each over    *)
(* the queue, list_add_tail).                                              *)
InOrderStep ==
    \A k \in Key : \A i, j \in DOMAIN futex[k].queue :
        LET a == futex[k].queue[i]
            b == futex[k].queue[j] IN
        (/\ i < j /\ walk.on
         /\ ~OnList(futex'[k].queue, b)
         /\ wait[a].bitset \cap walk.mask # {})
        => ~OnList(futex'[k].queue, a)

(* A waiter t that has been taken off its queue, or that a signal marked,  *)
(* does not wait on, even where the notification itself is lost between    *)
(* two sleeps (the 50 ms slices of futex_wait_masked).                     *)
WokenLeaves(t) ==
    Waiting(t) /\ (~Queued(t) \/ wait[t].interrupted) ~> ~Waiting(t)

(* A wait restarted with nothing run in front of it keeps its deadline: it *)
(* is never moved further away by a restart (futex_restart_deadline).      *)
DeadlineStep ==
    \A t \in Thread :
        (/\ fresh[t] /\ Waiting(t)'
         /\ park[t].on /\ park[t].key = Head(stack[t]).key)
        => wait'[t].deadline = park[t].deadline

=============================================================================
