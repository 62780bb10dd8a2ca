-------------------------------- MODULE Poll --------------------------------
(***************************************************************************)
(* fs/poll.c and kernel/epoll.c: epoll instances that watch emulated files *)
(* and each other.  A thread waits on one: it scans the registrations with *)
(* the poll's lock, and sleeps in the host's wait without it; a byte in    *)
(* the poll's notify pipe tears it out.  A file that changes tells every   *)
(* registration of it (poll_wakeup), and an epoll that hears of it tells   *)
(* those that watch it in turn, but takes no lock it would have to wait    *)
(* for.  Locks are ordered: fd->poll_lock, then poll->lock; a scan takes   *)
(* the lock of an inner poll with the outer's held.                        *)
(***************************************************************************)
EXTENDS Naturals, Sequences, FiniteSets, SequencesExt

CONSTANTS
    Waiter,     \* threads that call epoll_wait
    Changer,    \* threads that change files: read, write, hang up
    Controller, \* threads that call epoll_ctl
    File, Epoll,
    Watch,      \* who may watch what: pairs of an epoll and a file or an epoll
    First,      \* who watches what at the start
    Waits,      \* who waits where: pairs of a thread and an epoll
    Mask,       \* events of a registration: [types, et, oneshot]
    Events,     \* what files come to report: "in", "hup"
    Room,       \* maxevents
    MaxSignals, \* how many signals a waiter is sent
    None

Caller == Waiter \cup Changer \cup Controller
Fd == File \cup Epoll
EP_MAX_NESTS == 4

(* What the constants are. *)
PollConstants ==
    /\ First \subseteq Watch /\ Watch \subseteq Epoll \X Fd /\ Waits \subseteq Waiter \X Epoll
    /\ Mask \subseteq [types : SUBSET {"in"}, et : BOOLEAN, oneshot : BOOLEAN]
    /\ Events \subseteq {"in", "hup"} /\ Room \in Nat \ {0} /\ MaxSignals \in Nat
    /\ None \notin Caller \cup Fd

VARIABLES
    ready,              \* what the operation poll of each file reports
    regs,               \* each poll's list of registrations, poll_fds
    notified,           \* a byte is in the notify pipe
    poll_lock, fd_lock, \* who holds poll->lock, and fd->poll_lock
    pending, signals,   \* a signal the waiter does not block; how many came
    th                  \* the threads

vars == <<ready, regs, notified, poll_lock, fd_lock, pending, signals, th>>

Idle == [pc |-> "idle", poll |-> None, fd |-> None, why |-> "top", i |-> 0, n |-> 0,
         events |-> {}, todo |-> {}, op |-> "none", mask |-> None]

(* told and spoke are not in the code: the registration has been reported  *)
(* since the last event of its file, and since it was armed.               *)
Armed(fd, m) ==
    [fd |-> fd, types |-> m.types, et |-> m.et, oneshot |-> m.oneshot, triggered |-> {},
     disarmed |-> FALSE, told |-> FALSE, spoke |-> FALSE]

Watched(p) == {fd \in Fd : <<p, fd>> \in First}

Init ==
    /\ ready = [f \in File |-> {}]
    /\ \E m \in [First -> Mask] :
           regs = [p \in Epoll |-> [k \in 1..Cardinality(Watched(p)) |->
                       LET fd == SetToSeq(Watched(p))[k] IN Armed(fd, m[<<p, fd>>])]]
    /\ notified = [p \in Epoll |-> FALSE]
    /\ poll_lock = [p \in Epoll |-> None] /\ fd_lock = [f \in Fd |-> None]
    /\ pending = [t \in Waiter |-> FALSE] /\ signals = [t \in Waiter |-> 0]
    /\ th = [t \in Caller |-> Idle]

At(t, l) == th[t].pc = l
InWait == {"scan", "look", "sleep", "woken", "poked", "expired"}
Waiters(p) == {t \in Waiter : th[t].poll = p /\ th[t].pc \in InWait}
Has(p, fd) == \E k \in DOMAIN regs[p] : regs[p][k].fd = fd
Position(p, fd) == CHOOSE k \in DOMAIN regs[p] :
                       regs[p][k].fd = fd /\ \A j \in 1..(k - 1) : regs[p][j].fd # fd

----------------------------------------------------------------------------
(* What a file reports.                                                    *)

(* The events that count for a registration: a hangup always does. *)
Heard(r) == r.types \cup {"hup"}

(* fd->ops->poll: epoll_poll for an epoll, which is readable when one of   *)
(* its registrations has something to report.                              *)
PollOf[d \in 0..EP_MAX_NESTS, fd \in Fd] ==
    IF fd \in File THEN ready[fd]
    ELSE IF d # 0 /\ \E k \in DOMAIN regs[fd] :
                LET r == regs[fd][k]
                    types == PollOf[d - 1, r.fd] \cap Heard(r)
                IN  ~ r.disarmed /\ types \ (IF r.et THEN r.triggered ELSE {}) # {}
         THEN {"in"} ELSE {}
Reports(fd) == PollOf[EP_MAX_NESTS, fd]

(* The polls whose lock that takes. *)
Inside[d \in 0..EP_MAX_NESTS, fd \in Fd] ==
    IF fd \in File \/ d = 0 THEN {}
    ELSE {fd} \cup UNION {Inside[d - 1, regs[fd][k].fd] : k \in DOMAIN regs[fd]}
CanLook(fd) == \A p \in Inside[EP_MAX_NESTS, fd] : poll_lock[p] = None

(* Mutant: what was reported is not forgotten. *)
NoteEvent_Kept(r, events) ==
    IF events \cap Heard(r) = {} THEN r ELSE [r EXCEPT !.told = FALSE]

(* poll_fd_note_event_locked: an edge-triggered registration forgets what  *)
(* it has reported.                                                        *)
NoteEvent(r, events) ==
    IF events \cap Heard(r) = {} THEN r
    ELSE [r EXCEPT !.triggered = IF r.et THEN {} ELSE @, !.told = FALSE]

Noted(list, fd, events) ==
    [k \in DOMAIN list |-> IF list[k].fd = fd THEN NoteEvent(list[k], events) ELSE list[k]]

(* A byte for whoever is in poll_wait; there is no pipe if nobody is. *)
Poke(P) == [p \in Epoll |-> notified[p] \/ (p \in P /\ Waiters(p) # {})]

----------------------------------------------------------------------------
(* poll_wait.                                                              *)

Enter(t) ==
    /\ At(t, "idle")
    /\ \E p \in Epoll :
           /\ <<t, p>> \in Waits /\ poll_lock[p] = None
           /\ poll_lock' = [poll_lock EXCEPT ![p] = t]
           /\ th' = [th EXCEPT ![t] = [Idle EXCEPT !.pc = "scan", !.poll = p, !.i = 1]]
    /\ UNCHANGED <<ready, regs, notified, fd_lock, pending, signals>>

(* Mutant: a oneshot registration is not disarmed. *)
Deliver_Armed(r, types) ==
    IF r.oneshot THEN [r EXCEPT !.types = {}, !.told = TRUE, !.spoke = TRUE]
    ELSE [r EXCEPT !.triggered = IF r.et THEN @ \cup types ELSE @, !.told = TRUE, !.spoke = TRUE]

(* What a report leaves of a registration. *)
Deliver(r, types) ==
    IF r.oneshot THEN [r EXCEPT !.types = {}, !.disarmed = TRUE, !.told = TRUE, !.spoke = TRUE]
    ELSE [r EXCEPT !.triggered = IF r.et THEN @ \cup types ELSE @, !.told = TRUE, !.spoke = TRUE]

(* A registration with something to report, and not of what it has. *)
Due(r, types) == ~ r.disarmed /\ types # {} /\ (r.et => ~ types \subseteq r.triggered)

(* Mutant: a report there is no room for counts as made. *)
Reported_Refused(r, types, room) ==
    IF room THEN Deliver(r, types) ELSE [r EXCEPT !.triggered = IF r.et THEN @ \cup types ELSE @]

(* A report for which the caller has no room leaves the registration. *)
Reported(r, types, room) == IF room THEN Deliver(r, types) ELSE r

(* poll_scan_ready_locked, one registration. *)
Scan(t) ==
    LET p == th[t].poll
        i == th[t].i
        r == regs[p][i]
        types == Reports(r.fd) \cap Heard(r)
        room == th[t].n < Room
    IN  /\ At(t, "scan") /\ i \in DOMAIN regs[p]
        /\ r.disarmed \/ CanLook(r.fd)
        /\ IF Due(r, types)
           THEN /\ regs' = [regs EXCEPT ![p][i] = Reported(r, types, room)]
                /\ th' = [th EXCEPT ![t].i = i + 1, ![t].n = IF room THEN @ + 1 ELSE @]
           ELSE /\ th' = [th EXCEPT ![t].i = i + 1]
                /\ UNCHANGED regs
        /\ UNCHANGED <<ready, notified, poll_lock, fd_lock, pending, signals>>

(* After the scan a wake-up asked for, the pipe is emptied. *)
Drained(t) == IF th[t].why = "woken" THEN [notified EXCEPT ![th[t].poll] = FALSE] ELSE notified

(* The last waiter closes the pipe.  An epoll_wait without a timeout that  *)
(* has nothing to return starts again.                                     *)
Leave(t) ==
    LET p == th[t].poll
    IN  /\ notified' = IF Waiters(p) = {t} THEN [notified EXCEPT ![p] = FALSE] ELSE Drained(t)
        /\ poll_lock' = [poll_lock EXCEPT ![p] = None]
        /\ th' = [th EXCEPT ![t] = Idle]

Again(t) == th' = [th EXCEPT ![t].pc = "scan", ![t].why = "top", ![t].i = 1]

ScanEnd(t) ==
    /\ At(t, "scan") /\ th[t].i \notin DOMAIN regs[th[t].poll]
    /\ \/ /\ th[t].n > 0 \/ (pending[t] /\ th[t].why # "woken") \/ th[t].why = "expired"
          /\ Leave(t)
       \/ /\ th[t].n = 0 /\ th[t].why = "top" /\ ~ pending[t]
          /\ poll_lock' = [poll_lock EXCEPT ![th[t].poll] = None]
          /\ th' = [th EXCEPT ![t].pc = "look", ![t].i = 0]
          /\ UNCHANGED notified
       \/ /\ th[t].n = 0 /\ th[t].why # "top" /\ (th[t].why = "expired" => ~ pending[t])
          /\ notified' = Drained(t) /\ Again(t)
          /\ UNCHANGED poll_lock
    /\ UNCHANGED <<ready, regs, fd_lock, pending, signals>>

(* The lock is dropped, the signals are looked at, and the host waits: for *)
(* a byte, a poke of the thread, the cap of one second or the deadline.    *)
Look(t) ==
    /\ At(t, "look")
    /\ \/ pending[t] /\ th' = [th EXCEPT ![t].pc = "poked"]
       \/ ~ pending[t] /\ th' = [th EXCEPT ![t].pc = "sleep"]
       \/ ~ pending[t] /\ th' = [th EXCEPT ![t].pc = "expired"]
    /\ UNCHANGED <<ready, regs, notified, poll_lock, fd_lock, pending, signals>>

HostReturns(t) ==
    /\ At(t, "sleep")
    /\ \/ notified[th[t].poll] /\ th' = [th EXCEPT ![t].pc = "woken"]
       \/ th' = [th EXCEPT ![t].pc = "poked"]
       \/ th' = [th EXCEPT ![t].pc = "expired"]
    /\ UNCHANGED <<ready, regs, notified, poll_lock, fd_lock, pending, signals>>

Relock(t) ==
    LET p == th[t].poll
    IN  /\ th[t].pc \in {"woken", "poked", "expired"} /\ poll_lock[p] = None
        /\ IF At(t, "poked") /\ pending[t]
           THEN Leave(t)
           ELSE /\ th' = [th EXCEPT ![t].pc = "scan", ![t].i = 1,
                              ![t].why = IF At(t, "poked") THEN "top" ELSE th[t].pc]
                /\ poll_lock' = [poll_lock EXCEPT ![p] = t]
                /\ UNCHANGED notified
        /\ UNCHANGED <<ready, regs, fd_lock, pending, signals>>

(* Mutant: only the thread is poked. *)
Signal_NoPipe(t) ==
    /\ signals[t] < MaxSignals
    /\ pending' = [pending EXCEPT ![t] = TRUE] /\ signals' = [signals EXCEPT ![t] = @ + 1]
    /\ UNCHANGED <<ready, regs, notified, poll_lock, fd_lock, th>>

(* signal_wake_task, from another thread: the pipe the task advertises. *)
Signal(t) ==
    /\ signals[t] < MaxSignals
    /\ pending' = [pending EXCEPT ![t] = TRUE] /\ signals' = [signals EXCEPT ![t] = @ + 1]
    /\ notified' = IF th[t].pc \in InWait THEN Poke({th[t].poll}) ELSE notified
    /\ UNCHANGED <<ready, regs, poll_lock, fd_lock, th>>

(* The handler runs as the system call returns. *)
Handle(t) ==
    /\ At(t, "idle") /\ pending[t]
    /\ pending' = [pending EXCEPT ![t] = FALSE]
    /\ UNCHANGED <<ready, regs, notified, poll_lock, fd_lock, signals, th>>

----------------------------------------------------------------------------
(* A file changes, and its implementation calls poll_wakeup.               *)

Change(t) ==
    /\ At(t, "idle")
    /\ \E f \in File :
           \/ \E e \in Events :
                 /\ ready' = [ready EXCEPT ![f] = @ \cup {e}]
                 /\ th' = [th EXCEPT ![t] = [Idle EXCEPT !.pc = "wake", !.fd = f, !.events = {e}]]
           \/ /\ "in" \in ready[f]
              /\ ready' = [ready EXCEPT ![f] = @ \ {"in"}]
              /\ th' = [th EXCEPT ![t] = [Idle EXCEPT !.pc = "wake", !.fd = f, !.events = {"out"}]]
    /\ UNCHANGED <<regs, notified, poll_lock, fd_lock, pending, signals>>

WakeLock(t) ==
    LET f == th[t].fd
        P == {p \in Epoll : Has(p, f)}
    IN  /\ At(t, "wake") /\ fd_lock[f] = None
        /\ IF P = {} THEN th' = [th EXCEPT ![t] = Idle] /\ UNCHANGED fd_lock
           ELSE /\ th' = [th EXCEPT ![t].pc = "walk", ![t].todo = P]
                /\ fd_lock' = [fd_lock EXCEPT ![f] = t]
        /\ UNCHANGED <<ready, regs, notified, poll_lock, pending, signals>>

(* One of the polls that watch the file. *)
Walk(t) ==
    /\ At(t, "walk")
    /\ \E p \in th[t].todo :
           /\ poll_lock[p] = None
           /\ poll_lock' = [poll_lock EXCEPT ![p] = t]
           /\ regs' = [regs EXCEPT ![p] = Noted(@, th[t].fd, th[t].events)]
           /\ notified' = Poke({p})
           /\ th' = [th EXCEPT ![t].pc = "cascade", ![t].poll = p, ![t].todo = @ \ {p}]
    /\ UNCHANGED <<ready, fd_lock, pending, signals>>

(* poll_wakeup_trylock of the epoll itself: the polls it gets to. *)
Outward[d \in 0..EP_MAX_NESTS, p \in Epoll] ==
    IF d = 0 THEN {p}
    ELSE LET P == Outward[d - 1, p]
         IN  P \cup {q \in Epoll : poll_lock[q] = None /\
                         \E o \in P : fd_lock[o] = None /\ Has(q, o)}

(* Mutant: the lock of an outer poll is waited for. *)
Cascade_Waits(t) ==
    LET p == th[t].poll
        P == {q \in Epoll : Has(q, p)}
        more == th[t].todo # {}
    IN  /\ At(t, "cascade") /\ \A q \in P : poll_lock[q] = None
        /\ regs' = [q \in Epoll |-> IF q \in P THEN Noted(regs[q], p, {"in"}) ELSE regs[q]]
        /\ notified' = Poke(P)
        /\ poll_lock' = [poll_lock EXCEPT ![p] = None]
        /\ fd_lock' = IF more THEN fd_lock ELSE [fd_lock EXCEPT ![th[t].fd] = None]
        /\ th' = [th EXCEPT ![t] = IF more THEN [@ EXCEPT !.pc = "walk", !.poll = None] ELSE Idle]
        /\ UNCHANGED <<ready, pending, signals>>

(* The epoll is an fd others may watch: those whose locks are free are     *)
(* told.  Then the walk goes on.                                           *)
Cascade(t) ==
    LET p == th[t].poll
        P == Outward[EP_MAX_NESTS, p]
        more == th[t].todo # {}
    IN  /\ At(t, "cascade")
        /\ regs' = [q \in Epoll |->
                       IF q \in P \ {p}
                       THEN [k \in DOMAIN regs[q] |->
                                IF regs[q][k].fd \in P /\ fd_lock[regs[q][k].fd] = None
                                THEN NoteEvent(regs[q][k], {"in"}) ELSE regs[q][k]]
                       ELSE regs[q]]
        /\ notified' = Poke(P \ {p})
        /\ poll_lock' = [poll_lock EXCEPT ![p] = None]
        /\ fd_lock' = IF more THEN fd_lock ELSE [fd_lock EXCEPT ![th[t].fd] = None]
        /\ th' = [th EXCEPT ![t] = IF more THEN [@ EXCEPT !.pc = "walk", !.poll = None] ELSE Idle]
        /\ UNCHANGED <<ready, pending, signals>>

----------------------------------------------------------------------------
(* epoll_ctl.                                                              *)

Ctl(t) ==
    /\ At(t, "idle")
    /\ \E w \in Watch, op \in {"add", "mod", "del"}, m \in Mask :
           th' = [th EXCEPT ![t] = [Idle EXCEPT !.pc = IF op = "add" THEN "has" ELSE "fdlock",
                      !.op = op, !.poll = w[1], !.fd = w[2],
                      !.mask = IF op = "del" THEN None ELSE m]]
    /\ UNCHANGED <<ready, regs, notified, poll_lock, fd_lock, pending, signals>>

(* poll_has_fd: EEXIST. *)
CtlHas(t) ==
    /\ At(t, "has") /\ poll_lock[th[t].poll] = None
    /\ th' = [th EXCEPT ![t] = IF Has(@.poll, @.fd) THEN Idle ELSE [@ EXCEPT !.pc = "loop"]]
    /\ UNCHANGED <<ready, regs, notified, poll_lock, fd_lock, pending, signals>>

(* epoll_would_loop: the epoll is found among what the new member watches, *)
(* or there are too many levels: ELOOP.                                    *)
WouldLoop[d \in 0..EP_MAX_NESTS, p \in Epoll, fd \in Fd] ==
    /\ fd \in Epoll
    /\ d = 0 \/ \E k \in DOMAIN regs[fd] :
                   regs[fd][k].fd = p \/ WouldLoop[d - 1, p, regs[fd][k].fd]

(* Mutant: no search. *)
Loops_Not(p, fd) == FALSE

Loops(p, fd) == WouldLoop[EP_MAX_NESTS, p, fd]

CtlLoop(t) ==
    /\ At(t, "loop") /\ CanLook(th[t].fd)
    /\ th' = [th EXCEPT ![t] = IF Loops(@.poll, @.fd) THEN Idle
                               ELSE [@ EXCEPT !.pc = "fdlock"]]
    /\ UNCHANGED <<ready, regs, notified, poll_lock, fd_lock, pending, signals>>

CtlFdLock(t) ==
    /\ At(t, "fdlock") /\ fd_lock[th[t].fd] = None
    /\ fd_lock' = [fd_lock EXCEPT ![th[t].fd] = t]
    /\ th' = [th EXCEPT ![t].pc = "ctl"]
    /\ UNCHANGED <<ready, regs, notified, poll_lock, pending, signals>>

(* poll_add_fd, poll_mod_fd, poll_del_fd: the new list.  MOD arms again. *)
Changed(t) ==
    LET p == th[t].poll
        fd == th[t].fd
    IN  CASE th[t].op = "add" -> <<Armed(fd, th[t].mask)>> \o regs[p]
          [] th[t].op = "mod" -> [regs[p] EXCEPT ![Position(p, fd)] = Armed(fd, th[t].mask)]
          [] th[t].op = "del" -> RemoveAt(regs[p], Position(p, fd))

CtlChange(t) ==
    LET p == th[t].poll
        fd == th[t].fd
    IN  /\ At(t, "ctl") /\ poll_lock[p] = None
        /\ IF th[t].op = "add" \/ Has(p, fd)
           THEN regs' = [regs EXCEPT ![p] = Changed(t)]
           ELSE UNCHANGED regs
        /\ IF th[t].op # "del" /\ (th[t].op = "add" \/ Has(p, fd))
           THEN /\ poll_lock' = [poll_lock EXCEPT ![p] = t]
                /\ th' = [th EXCEPT ![t].pc = "ready", ![t].mask = None]
                /\ UNCHANGED fd_lock
           ELSE /\ th' = [th EXCEPT ![t] = Idle]
                /\ fd_lock' = [fd_lock EXCEPT ![fd] = None]
                /\ UNCHANGED poll_lock
        /\ UNCHANGED <<ready, notified, pending, signals>>

(* Mutant: nobody is told of a registration that is ready as it is armed. *)
CtlReady_Silent(t) ==
    /\ At(t, "ready") /\ CanLook(th[t].fd)
    /\ poll_lock' = [poll_lock EXCEPT ![th[t].poll] = None]
    /\ fd_lock' = [fd_lock EXCEPT ![th[t].fd] = None]
    /\ th' = [th EXCEPT ![t] = Idle]
    /\ UNCHANGED <<ready, regs, notified, pending, signals>>

(* poll_fd_currently_ready: whoever waits on this poll is to scan again. *)
CtlReady(t) ==
    LET p == th[t].poll
        r == regs[p][Position(p, th[t].fd)]
    IN  /\ At(t, "ready") /\ CanLook(r.fd)
        /\ notified' = IF Reports(r.fd) \cap Heard(r) # {} THEN Poke({p}) ELSE notified
        /\ poll_lock' = [poll_lock EXCEPT ![p] = None]
        /\ fd_lock' = [fd_lock EXCEPT ![r.fd] = None]
        /\ th' = [th EXCEPT ![t] = Idle]
        /\ UNCHANGED <<ready, regs, pending, signals>>

----------------------------------------------------------------------------
Wait(t) == Enter(t) \/ Scan(t) \/ ScanEnd(t) \/ Look(t) \/ HostReturns(t) \/ Relock(t) \/ Handle(t)
Wakeup(t) == Change(t) \/ WakeLock(t) \/ Walk(t) \/ Cascade(t)
Control(t) == Ctl(t) \/ CtlHas(t) \/ CtlLoop(t) \/ CtlFdLock(t) \/ CtlChange(t) \/ CtlReady(t)

Next ==
    \/ \E t \in Waiter : Wait(t) \/ Signal(t)
    \/ \E t \in Changer : Wakeup(t)
    \/ \E t \in Controller : Control(t)

Spec == Init /\ [][Next]_vars

----------------------------------------------------------------------------
Asleep(t, p) == th[t].poll = p /\ th[t].pc \in {"look", "sleep"} /\ ~ notified[p]

(* A thread that has changed the file has yet to tell the poll, or one     *)
(* that has armed the registration.                                        *)
OnItsWay(p, fd) ==
    \E t \in Caller : \/ th[t].fd = fd /\ (At(t, "wake") \/ p \in th[t].todo)
                      \/ th[t].fd = fd /\ At(t, "ready") /\ th[t].poll = p

(* No thread sleeps in poll_wait on a file that is ready and has not been  *)
(* reported since its last event, unless a wake-up is on its way: the cap  *)
(* of one second is for wakes that get lost, "which should never happen".  *)
NobodyForgotten ==
    \A p \in Epoll, t \in Waiter : Asleep(t, p) =>
        \A k \in DOMAIN regs[p] :
            LET r == regs[p][k]
            IN  r.fd \in File /\ ~ r.disarmed /\ Reports(r.fd) \cap Heard(r) # {} /\ ~ r.told
                    => OnItsWay(p, r.fd)

(* A signal tears the only waiter of a poll out of the host's wait through *)
(* the pipe, even when the poke of the thread is lost.                     *)
SignalReaches ==
    \A p \in Epoll, t \in Waiter : Asleep(t, p) /\ At(t, "sleep") => ~ pending[t]

(* No thread in the middle of a call is left with a lock nobody will free: *)
(* when nothing but sleepers and stuck threads are left, none is stuck.    *)
NoCircularWait ==
    LET Busy == {t \in Caller : th[t].pc \notin {"idle", "sleep"}}
    IN  Busy # {} => \E t \in Busy : ENABLED (Wait(t) \/ Wakeup(t) \/ Control(t))

(* A oneshot registration is reported once each time it is armed. *)
OneshotStep ==
    \A t \in Waiter : At(t, "scan") /\ th'[t].n = th[t].n + 1 =>
        LET r == regs[th[t].poll][th[t].i] IN r.oneshot => ~ r.spoke
OneshotOnce == [][OneshotStep]_vars
=============================================================================
