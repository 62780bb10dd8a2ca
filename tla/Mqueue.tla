------------------------------- MODULE Mqueue -------------------------------
(***************************************************************************)
(* kernel/mqueue.c: POSIX message queues of one namespace under one name:  *)
(* the queues (one named, others unlinked and still open), their open      *)
(* descriptions, senders and receivers asleep on q->cond, and mq_notify.   *)
(* A step is one hold of q->lock or ns->mq_lock.  A description lives      *)
(* while a descriptor table or a call in progress holds it (f_get_retain). *)
(***************************************************************************)
EXTENDS Integers, Sequences, FiniteSets, SequencesExt

CONSTANTS
    Thread, Proc, ProcOf,   \* the process each thread belongs to
    Queue, Desc,            \* queues and open descriptions there is room for
    Prio,
    MaxMsgs,                \* the values of mq_maxmsg the guest asks for
    QueuesMax, Limit,       \* mq_queues_max; RLIMIT_MSGQUEUE in message slots
    Nothing

(* What the constants are. *)
MqueueConstants ==
    /\ ProcOf \in [Thread -> Proc]
    /\ Prio \subseteq Nat /\ MaxMsgs \subseteq Nat \ {0}
    /\ QueuesMax \in 0 .. Cardinality(Queue) /\ Limit \in Nat

VARIABLES
    named,      \* the queue that has the name
    refs, maxmsg, msgs, receivers_waiting,
    note,       \* the process registered with each queue, or Nothing
    queues_count, charged,
    fdq,        \* the queue of each open description
    table,      \* the descriptor of each process
    call, woken,
    armed       \* history: queues seen empty since their registration

queueVars == <<named, refs, maxmsg, msgs, receivers_waiting, note, queues_count, charged>>
vars == <<queueVars, fdq, table, call, woken, armed>>

Idle == [op |-> "none", d |-> Nothing]
Asleep(q) == {t \in Thread : call[t].op \in {"send", "receive"} /\ fdq[call[t].d] = q}

Init ==
    /\ named = Nothing
    /\ refs = [q \in Queue |-> 0] /\ maxmsg = [q \in Queue |-> 0]
    /\ msgs = [q \in Queue |-> <<>>] /\ receivers_waiting = [q \in Queue |-> 0]
    /\ note = [q \in Queue |-> Nothing]
    /\ queues_count = 0 /\ charged = 0
    /\ fdq = [d \in Desc |-> Nothing]
    /\ table = [p \in Proc |-> Nothing]
    /\ call = [t \in Thread |-> Idle] /\ woken = {}
    /\ armed = {}

----------------------------------------------------------------------------
(* Mutant: the queue is not counted out when it goes. *)
mq_release_Counted(q, m) ==
    /\ refs' = [refs EXCEPT ![q] = @ - 1]
    /\ msgs' = IF refs[q] = 1 THEN [m EXCEPT ![q] = <<>>] ELSE m
    /\ charged' = IF refs[q] = 1 THEN charged - maxmsg[q] ELSE charged
    /\ maxmsg' = IF refs[q] = 1 THEN [maxmsg EXCEPT ![q] = 0] ELSE maxmsg
    /\ UNCHANGED queues_count

(* mq_release; m are the messages it finds.  The last reference frees the  *)
(* queue, which nobody else can reach any more, and gives back its charge. *)
mq_release(q, m) ==
    /\ refs' = [refs EXCEPT ![q] = @ - 1]
    /\ msgs' = IF refs[q] = 1 THEN [m EXCEPT ![q] = <<>>] ELSE m
    /\ charged' = IF refs[q] = 1 THEN charged - maxmsg[q] ELSE charged
    /\ maxmsg' = IF refs[q] = 1 THEN [maxmsg EXCEPT ![q] = 0] ELSE maxmsg
    /\ queues_count' = IF refs[q] = 1 THEN queues_count - 1 ELSE queues_count

(* A holder of d lets go of it, with the tables at tab and the calls at    *)
(* cal: fd_close, and mq_close by process p when it was the last.          *)
Drop(d, p, tab, cal, m, n) ==
    LET q == fdq[d]
        last == (\A r \in Proc : tab[r] # d) /\ (\A t \in Thread : cal[t].d # d)
        gone == last /\ refs[q] = 1
        own == n[q] = p
    IN  /\ table' = tab /\ call' = cal
        /\ fdq' = IF last THEN [fdq EXCEPT ![d] = Nothing] ELSE fdq
        /\ note' = IF gone \/ (last /\ own) THEN [n EXCEPT ![q] = Nothing] ELSE n
        /\ IF last THEN mq_release(q, m)
           ELSE msgs' = m /\ UNCHANGED <<refs, maxmsg, charged, queues_count>>
        /\ armed' = (IF m[q] = <<>> THEN armed \cup {q} ELSE armed) \ {r \in Queue : note'[r] = Nothing}

(* t returns from its call on d. *)
Return(t, d, m, n) == Drop(d, ProcOf[t], table, [call EXCEPT ![t] = Idle], m, n)

(* A call that has to wait, or that has a notification to send. *)
Hold(t, c) ==
    /\ call' = [call EXCEPT ![t] = c]
    /\ UNCHANGED <<table, fdq, refs, maxmsg, charged, queues_count>>

Sleep(t, c) == Hold(t, c) /\ woken' = woken \ {t} /\ UNCHANGED <<msgs, note, armed>>

Full(q) == Len(msgs[q]) >= maxmsg[q]

(* Mutant: only one sleeper is told. *)
Notify_One(t, q) ==
    woken' = (IF Asleep(q) = {} THEN woken ELSE woken \cup {CHOOSE r \in Asleep(q) : TRUE}) \ {t}

(* notify(&q->cond): the senders and the receivers asleep on it. *)
Notify(t, q) == woken' = (woken \cup Asleep(q)) \ {t}

(* Mutant: in front of the messages of its own priority. *)
Insert_First(s, m) ==
    LET lower == {i \in DOMAIN s : s[i].prio <= m.prio}
        at == IF lower = {} THEN Len(s) + 1 ELSE CHOOSE i \in lower : \A j \in lower : i <= j
    IN  SubSeq(s, 1, at - 1) \o <<m>> \o SubSeq(s, at, Len(s))

(* Behind every message of its own priority or higher. *)
Insert(s, m) ==
    LET higher == {i \in DOMAIN s : s[i].prio < m.prio}
        at == IF higher = {} THEN Len(s) + 1 ELSE CHOOSE i \in higher : \A j \in higher : i <= j
    IN  SubSeq(s, 1, at - 1) \o <<m>> \o SubSeq(s, at, Len(s))

(* One pass of mq_send_fd: a queue that was empty, with nobody waiting to  *)
(* receive, gives up its registration, and t sends it after the unlock.    *)
SendPass(t, d, m) ==
    LET q == fdq[d]
        put == [msgs EXCEPT ![q] = Insert(@, m)]
        take == receivers_waiting[q] = 0 /\ Len(put[q]) = 1 /\ note[q] # Nothing
    IN  /\ IF Full(q) THEN Sleep(t, [op |-> "send", d |-> d, msg |-> m])
           ELSE /\ Notify(t, q)
                /\ IF take
                   THEN /\ Hold(t, [op |-> "fire", d |-> d])
                        /\ msgs' = put /\ note' = [note EXCEPT ![q] = Nothing]
                        /\ armed' = armed \ {q}
                   ELSE Return(t, d, put, note)
        /\ UNCHANGED <<named, receivers_waiting>>

(* One pass of mq_receive_fd; t is counted in receivers_waiting while it   *)
(* sleeps. *)
ReceivePass(t, d) ==
    LET q == fdq[d] IN
    /\ IF msgs[q] = <<>>
       THEN /\ Sleep(t, [op |-> "receive", d |-> d])
            /\ receivers_waiting' =
                  [receivers_waiting EXCEPT ![q] = IF call[t].op = "none" THEN @ + 1 ELSE @]
       ELSE /\ Notify(t, q)
            /\ Return(t, d, [msgs EXCEPT ![q] = Tail(@)], note)
            /\ receivers_waiting' =
                  [receivers_waiting EXCEPT ![q] = IF call[t].op = "none" THEN @ ELSE @ - 1]
    /\ UNCHANGED named

mq_send(t) ==
    /\ call[t] = Idle /\ table[ProcOf[t]] # Nothing
    /\ \E y \in Prio : SendPass(t, table[ProcOf[t]], [prio |-> y, by |-> t])

mq_receive(t) ==
    /\ call[t] = Idle /\ table[ProcOf[t]] # Nothing
    /\ ReceivePass(t, table[ProcOf[t]])

Resume(t) ==
    \/ call[t].op = "send" /\ SendPass(t, call[t].d, call[t].msg)
    \/ call[t].op = "receive" /\ ReceivePass(t, call[t].d)

(* Mutant: the receiver stays counted. *)
Interrupt_Counted(t) ==
    /\ call[t].op \in {"send", "receive"}
    /\ Return(t, call[t].d, msgs, note)
    /\ woken' = woken \ {t}
    /\ UNCHANGED <<named, receivers_waiting>>

(* The wait fails: a signal, or the deadline. *)
Interrupt(t) ==
    /\ call[t].op \in {"send", "receive"}
    /\ Return(t, call[t].d, msgs, note)
    /\ receivers_waiting' = [receivers_waiting EXCEPT
          ![fdq[call[t].d]] = IF call[t].op = "receive" THEN @ - 1 ELSE @]
    /\ woken' = woken \ {t}
    /\ UNCHANGED named

(* mq_note_fire, with the lock dropped.  The call holds its description    *)
(* until the signal or the datagram is sent, which is not modelled.        *)
mq_note_fire(t) ==
    /\ call[t].op = "fire"
    /\ Return(t, call[t].d, msgs, note)
    /\ UNCHANGED <<named, receivers_waiting, woken>>

(* mq_open: the named queue, or a new one that the limits allow. *)
mq_open(p) ==
    /\ table[p] = Nothing
    /\ {d \in Desc : fdq[d] = Nothing} # {}
    /\ LET d == CHOOSE d \in Desc : fdq[d] = Nothing
           q == CHOOSE q \in Queue : refs[q] = 0 IN
        /\ table' = [table EXCEPT ![p] = d]
        /\ IF named # Nothing
           THEN /\ fdq' = [fdq EXCEPT ![d] = named]
                /\ refs' = [refs EXCEPT ![named] = @ + 1]
                /\ UNCHANGED <<named, maxmsg, queues_count, charged>>
           ELSE /\ queues_count < QueuesMax
                /\ \E n \in MaxMsgs :
                    /\ charged + n <= Limit
                    /\ named' = q /\ fdq' = [fdq EXCEPT ![d] = q]
                    /\ refs' = [refs EXCEPT ![q] = 2]
                    /\ maxmsg' = [maxmsg EXCEPT ![q] = n]
                    /\ charged' = charged + n
                /\ queues_count' = queues_count + 1
    /\ UNCHANGED <<msgs, receivers_waiting, note, call, woken, armed>>

(* mq_unlink takes the name and then its reference. *)
mq_unlink ==
    /\ named # Nothing
    /\ named' = Nothing
    /\ mq_release(named, msgs)
    /\ note' = IF refs[named] = 1 THEN [note EXCEPT ![named] = Nothing] ELSE note
    /\ armed' = IF refs[named] = 1 THEN armed \ {named} ELSE armed
    /\ UNCHANGED <<receivers_waiting, fdq, table, call, woken>>

Close(p) ==
    /\ table[p] # Nothing
    /\ Drop(table[p], p, [table EXCEPT ![p] = Nothing], call, msgs, note)
    /\ UNCHANGED <<named, receivers_waiting, woken>>

mq_notify(p) ==
    /\ table[p] # Nothing
    /\ LET q == fdq[table[p]] IN
        \/ /\ note[q] = Nothing
           /\ note' = [note EXCEPT ![q] = p]
           /\ armed' = IF msgs[q] = <<>> THEN armed \cup {q} ELSE armed
        \/ /\ note[q] = p
           /\ note' = [note EXCEPT ![q] = Nothing]
           /\ armed' = armed \ {q}
    /\ UNCHANGED <<named, refs, maxmsg, msgs, receivers_waiting, queues_count, charged,
                   fdq, table, call, woken>>

Next ==
    \/ \E t \in Thread : mq_send(t) \/ mq_receive(t) \/ Resume(t) \/ Interrupt(t) \/ mq_note_fire(t)
    \/ \E p \in Proc : mq_open(p) \/ Close(p) \/ mq_notify(p)
    \/ mq_unlink

Spec == Init /\ [][Next]_vars

----------------------------------------------------------------------------
TypeOK ==
    /\ named \in Queue \cup {Nothing}
    /\ \A q \in Queue : Len(msgs[q]) <= maxmsg[q]
    /\ fdq \in [Desc -> Queue \cup {Nothing}]
    /\ table \in [Proc -> Desc \cup {Nothing}]
    /\ \A t \in Thread : call[t].d \in Desc \cup {Nothing}
    /\ woken \subseteq {t \in Thread : call[t].op \in {"send", "receive"}}

(* A queue lives exactly as long as its name, or an open description that  *)
(* a table or a blocked call holds, and is counted against queues_max and  *)
(* charged to its user exactly that long (mqueue.c:199).                   *)
RefsMatchHolders ==
    LET held(d) == (\E p \in Proc : table[p] = d) \/ (\E t \in Thread : call[t].d = d)
        live == {q \in Queue : refs[q] > 0}
        sum[S \in SUBSET Queue] ==
            IF S = {} THEN 0 ELSE LET q == CHOOSE q \in S : TRUE IN maxmsg[q] + sum[S \ {q}]
    IN  /\ \A q \in Queue :
            /\ refs[q] = (IF named = q THEN 1 ELSE 0) + Cardinality({d \in Desc : fdq[d] = q})
            /\ refs[q] = 0 => msgs[q] = <<>> /\ note[q] = Nothing
        /\ \A d \in Desc : fdq[d] # Nothing <=> held(d)
        /\ queues_count = Cardinality(live)
        /\ charged = sum[live]

(* receivers_waiting is the number of receivers asleep, through timeouts   *)
(* and signals, and closes of the descriptor they sleep on (mqueue.c:828). *)
ReceiversCounted ==
    \A q \in Queue :
        receivers_waiting[q] = Cardinality({t \in Asleep(q) : call[t].op = "receive"})

(* A sleeper that no notify is on its way to has nothing to wake for.      *)
WakeNotLost ==
    \A q \in Queue : \A t \in Asleep(q) \ woken :
        IF call[t].op = "send" THEN Len(msgs[q]) = maxmsg[q] ELSE msgs[q] = <<>>

PriorityStep ==
    \A q \in Queue, y \in Prio :
        LET of(s) == SelectSeq(s, LAMBDA m : m.prio = y) IN
        /\ \A i, j \in DOMAIN msgs[q] : i < j => msgs[q][i].prio >= msgs[q][j].prio
        /\ \/ IsPrefix(of(msgs[q]), of(msgs'[q]))
           \/ of(msgs[q]) # <<>> /\ of(msgs'[q]) = Tail(of(msgs[q]))
           \/ refs'[q] = 0

(* The highest priority leaves first, and messages of one priority in the  *)
(* order they came (mqueue.c:761).                                         *)
PriorityOrder == [][PriorityStep]_msgs

(* "A process waiting in mq_receive takes the message straight away, and   *)
(* then no notification is sent ... Otherwise a queue that was empty tells *)
(* its registered process" (mqueue.c:774): a message that filled an empty  *)
(* queue is either taken by a receiver or told.                            *)
FillIsToldOrTaken ==
    \A q \in Queue :
        note[q] # Nothing /\ q \in armed /\ msgs[q] # <<>> => receivers_waiting[q] > 0
=============================================================================
