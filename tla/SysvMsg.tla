------------------------------ MODULE SysvMsg ------------------------------
(***************************************************************************)
(* kernel/sysvmsg.c: a System V message queue.  A step is what happens     *)
(* under one hold of ns->msg_lock; wait_for_blocked drops it while a       *)
(* sender sleeps on queue->snd_cond or a receiver on queue->rcv_cond.      *)
(***************************************************************************)
EXTENDS Integers, Sequences, FiniteSets, SequencesExt

CONSTANTS
    Thread,
    Type,       \* the message types the guest uses, from 1 on
    Size,       \* the sizes of the messages it sends
    QBytes,     \* the capacities it sets with IPC_SET
    MSGMNB,     \* the capacity of a new queue
    Select,     \* what it receives: [typ, except, room, noerror]
    MaxNum      \* bound on the number of messages queued

(* What the constants are. *)
SysvMsgConstants ==
    /\ Type \subseteq Nat \ {0} /\ Size \subseteq Nat /\ QBytes \subseteq Nat
    /\ MSGMNB \in Nat /\ MaxNum \in Nat
    /\ \A s \in Select : s.typ \in Int /\ s.room \in Nat

VARIABLES
    life,       \* the queue: "none", "live", or "removed" with waiters left
    messages,   \* queue->messages, the oldest first
    cbytes, qnum, qbytes,
    waiters,
    call,       \* the message each sleeping sender holds, or what a sleeping
                \* receiver asks for
    woken       \* the sleepers that a notify has reached

vars == <<life, messages, cbytes, qnum, qbytes, waiters, call, woken>>

NoCall == [op |-> "none"]
Msg == [type : Type, size : Size, by : Thread]
Senders == {t \in Thread : call[t].op = "snd"}
Receivers == {t \in Thread : call[t].op = "rcv"}
Asleep == Senders \cup Receivers

Init ==
    /\ life = "none"
    /\ messages = <<>> /\ cbytes = 0 /\ qnum = 0 /\ qbytes = MSGMNB
    /\ waiters = 0
    /\ call = [t \in Thread |-> NoCall]
    /\ woken = {}

----------------------------------------------------------------------------
(* t is awake in this step, with w other sleepers; T are told. *)
Leave(t, w, T) ==
    /\ call' = [call EXCEPT ![t] = NoCall]
    /\ waiters' = w
    /\ woken' = (woken \cup T) \ {t}

Sleep(t, c, w) ==
    /\ call' = [call EXCEPT ![t] = c]
    /\ waiters' = w + 1
    /\ woken' = woken \ {t}
    /\ UNCHANGED <<messages, cbytes, qnum>>

Fits(m) == ~ (cbytes + m.size > qbytes)

(* One pass of the loop of msgsnd. *)
SendPass(t, m, w) ==
    /\ \/ /\ Fits(m) /\ qnum < MaxNum
          /\ messages' = Append(messages, m)
          /\ cbytes' = cbytes + m.size /\ qnum' = qnum + 1
          /\ Leave(t, w, Receivers)
       \/ ~ Fits(m) /\ Sleep(t, [op |-> "snd", msg |-> m], w)
    /\ UNCHANGED <<life, qbytes>>

(* m is what a receiver asks for. *)
Wants(s, m) ==
    CASE s.typ = 0 -> TRUE
      [] s.typ > 0 -> (m.type = s.typ) # s.except
      [] s.typ < 0 -> m.type <= -s.typ

Match(s) == {i \in DOMAIN messages : Wants(s, messages[i])}

(* Mutant: the highest type that is asked for, and the latest of it. *)
msg_pick_Last(s) ==
    CHOOSE i \in Match(s) :
        \A j \in Match(s) : \/ s.typ < 0 /\ messages[j].type < messages[i].type
                            \/ (s.typ < 0 => messages[j].type = messages[i].type) /\ j <= i

(* msg_pick: the first that matches, or the first of the lowest type. *)
msg_pick(s) ==
    CHOOSE i \in Match(s) :
        \A j \in Match(s) : \/ s.typ < 0 /\ messages[i].type < messages[j].type
                            \/ (s.typ < 0 => messages[j].type = messages[i].type) /\ i <= j

(* Mutant: what was copied out is given back, not what was charged. *)
Released_Copied(m, s) == IF m.size > s.room THEN s.room ELSE m.size

(* The bytes a message that is received no longer takes up. *)
Released(m, s) == m.size

(* One pass of msgrcv: E2BIG leaves the message where it is. *)
ReceivePass(t, s, w) ==
    /\ \/ /\ Match(s) # {}
          /\ LET i == msg_pick(s)
                 m == messages[i]
             IN  IF m.size > s.room /\ ~ s.noerror
                 THEN UNCHANGED <<messages, cbytes, qnum>> /\ Leave(t, w, {})
                 ELSE /\ messages' = RemoveAt(messages, i)
                      /\ cbytes' = cbytes - Released(m, s) /\ qnum' = qnum - 1
                      /\ Leave(t, w, Senders)
       \/ Match(s) = {} /\ Sleep(t, [op |-> "rcv", sel |-> s], w)
    /\ UNCHANGED <<life, qbytes>>

(* msgsnd and msgrcv from their start; ENOMSG and EAGAIN change nothing. *)
Msgsnd(t) ==
    /\ life = "live" /\ call[t] = NoCall
    /\ \E y \in Type, n \in Size : SendPass(t, [type |-> y, size |-> n, by |-> t], waiters)

Msgrcv(t) ==
    /\ life = "live" /\ call[t] = NoCall
    /\ \E s \in Select : ReceivePass(t, s, waiters)

(* Mutant: freed as soon as it is removed. *)
MaybeFree_Now(w) ==
    life' = "none" /\ messages' = <<>> /\ cbytes' = 0 /\ qnum' = 0 /\ qbytes' = MSGMNB

(* msg_queue_maybe_free, of a removed queue with w waiters left. *)
MaybeFree(w) ==
    IF w # 0 THEN life' = "removed" /\ UNCHANGED <<messages, cbytes, qnum, qbytes>>
    ELSE life' = "none" /\ messages' = <<>> /\ cbytes' = 0 /\ qnum' = 0 /\ qbytes' = MSGMNB

(* A sleep ends: the queue is gone (EIDRM), the wait was interrupted, or   *)
(* it was notified or its one-second slice ended and the loop looks again. *)
Resume(t) ==
    /\ t \in Asleep
    /\ \/ life = "removed" /\ MaybeFree(waiters - 1) /\ Leave(t, waiters - 1, {})
       \/ life = "live" /\ IF call[t].op = "snd"
                           THEN SendPass(t, call[t].msg, waiters - 1)
                           ELSE ReceivePass(t, call[t].sel, waiters - 1)

Interrupt(t) ==
    /\ t \in Asleep /\ life = "live"
    /\ Leave(t, waiters - 1, {})
    /\ UNCHANGED <<life, messages, cbytes, qnum, qbytes>>

(* msgget, where no queue has the key. *)
Msgget ==
    /\ life = "none"
    /\ life' = "live"
    /\ UNCHANGED <<messages, cbytes, qnum, qbytes, waiters, call, woken>>

(* msgctl IPC_RMID. *)
IpcRmid ==
    /\ life = "live"
    /\ woken' = Asleep
    /\ MaybeFree(waiters)
    /\ UNCHANGED <<waiters, call>>

(* Mutant: the senders are not told of the room they now have. *)
IpcSet_Silent ==
    /\ life = "live"
    /\ qbytes' \in QBytes
    /\ UNCHANGED <<life, messages, cbytes, qnum, waiters, call, woken>>

(* msgctl IPC_SET; the new capacity may be less than what is queued. *)
IpcSet ==
    /\ life = "live"
    /\ qbytes' \in QBytes
    /\ woken' = woken \cup Senders
    /\ UNCHANGED <<life, messages, cbytes, qnum, waiters, call>>

Next ==
    \/ \E t \in Thread : Msgsnd(t) \/ Msgrcv(t) \/ Resume(t) \/ Interrupt(t)
    \/ Msgget \/ IpcRmid \/ IpcSet

Spec == Init /\ [][Next]_vars

----------------------------------------------------------------------------
TypeOK ==
    /\ life \in {"none", "live", "removed"}
    /\ messages \in Seq(Msg) /\ Len(messages) <= MaxNum
    /\ qbytes \in QBytes \cup {MSGMNB}
    /\ woken \subseteq Asleep

(* cbytes and qnum are those of the messages queued, through every send,   *)
(* receive, and truncated or refused receive (sysvmsg.c:238, 315).         *)
CountsMatchMessages ==
    /\ qnum = Len(messages)
    /\ cbytes = SumFunction([i \in DOMAIN messages |-> messages[i].size])

(* A removed queue is kept exactly as long as someone sleeps on it, and    *)
(* the last to see the removal frees it (sysvmsg.c:100).                   *)
FreedByTheLast ==
    /\ waiters = Cardinality(Asleep)
    /\ life = "none" => waiters = 0
    /\ life = "removed" => waiters > 0

(* No wake is lost: a sleeper no notify is on its way to has a queue that  *)
(* is there, and no room or no message for it, though IPC_SET changes the  *)
(* room and a sleeper is woken for messages it does not want.              *)
WakeNotLost ==
    \A t \in Asleep \ woken :
        /\ life = "live"
        /\ IF call[t].op = "snd" THEN ~ Fits(call[t].msg) ELSE Match(call[t].sel) = {}

InOrderStep ==
    \A y \in Type :
        LET of(q) == SelectSeq(q, LAMBDA m : m.type = y) IN
        \/ IsPrefix(of(messages), of(messages'))
        \/ IsSuffix(of(messages'), of(messages))

(* Messages of one type leave in the order they came, whichever types and  *)
(* ranges the receivers ask for (msg_pick, sysvmsg.c:250).                 *)
InOrderOfType == [][InOrderStep]_messages
=============================================================================
