----------------------------- MODULE IpcProofs -----------------------------
(***************************************************************************)
(* For every finite set of threads and every choice of types, sizes,       *)
(* capacities and requests: a removed queue is freed by the last of its    *)
(* sleepers and by nobody else, and no wake is lost.                       *)
(***************************************************************************)
EXTENDS SysvMsg, ListProofs, FiniteSetTheorems, WellFoundedInduction

Given == SysvMsgConstants /\ IsFiniteSet(Thread)

Call == {NoCall} \cup [op : {"snd"}, msg : Msg] \cup [op : {"rcv"}, sel : Select]

Types ==
    /\ life \in {"none", "live", "removed"}
    /\ messages \in Seq(Msg) /\ cbytes \in Int /\ qbytes \in Nat
    /\ call \in [Thread -> Call] /\ woken \subseteq Asleep

(* u has nothing to wake up for. *)
Stuck(u) == IF call[u].op = "snd" THEN ~ Fits(call[u].msg) ELSE Match(call[u].sel) = {}

Inv == Types /\ WakeNotLost /\ FreedByTheLast

(* A set of numbers has a least one. *)
LEMMA NatMin ==
    ASSUME NEW T, T \subseteq Nat, T # {}
    PROVE  \E x \in T : \A y \in T : x <= y
<1>1. PICK x \in T : \A y \in T : ~ (<<y, x>> \in OpToRel(<, Nat))
  BY WFMin, NatLessThanWellFounded, Zenon
<1>2. ASSUME NEW y \in T PROVE x <= y
  <2>1. ~ (y < x)
    BY <1>1, Zenon DEF OpToRel
  <2> QED BY <2>1
<1> QED BY <1>2, Zenon

(* msg_pick picks one of those that match, if there are any.               *)
LEMMA PickMatches ==
    ASSUME Given, NEW s \in Select, messages \in Seq(Msg), Match(s) # {}
    PROVE  msg_pick(s) \in Match(s)
<1> DEFINE Best(i) == \A j \in Match(s) :
                         \/ s.typ < 0 /\ messages[i].type < messages[j].type
                         \/ (s.typ < 0 => messages[j].type = messages[i].type) /\ i <= j
<1>1. Match(s) \subseteq Nat /\ \A i \in Match(s) : messages[i].type \in Nat
  <2>1. Match(s) \subseteq DOMAIN messages
    BY Zenon DEF Match
  <2>2. DOMAIN messages \subseteq Nat /\ \A i \in DOMAIN messages : messages[i] \in Msg
    OBVIOUS
  <2>3. \A m \in Msg : m.type \in Nat
    BY Zenon DEF Msg, Given, SysvMsgConstants
  <2> QED BY <2>1, <2>2, <2>3, Zenon
<1>2. s.typ \in Int
  BY Zenon DEF Given, SysvMsgConstants
<1>3. \E i \in Match(s) : Best(i)
  <2>1. CASE ~ (s.typ < 0)
    <3>1. PICK i \in Match(s) : \A j \in Match(s) : i <= j
      BY <1>1, NatMin, Zenon
    <3> QED BY <2>1, <3>1, Zenon
  <2>2. CASE s.typ < 0
    <3> DEFINE Y == {messages[i].type : i \in Match(s)}
    <3>1. PICK y \in Y : \A z \in Y : y <= z
      <4>1. Y \subseteq Nat /\ Y # {}
        BY <1>1, Zenon
      <4> HIDE DEF Y
      <4> QED BY <4>1, NatMin, Zenon
    <3> DEFINE T == {i \in Match(s) : messages[i].type = y}
    <3>2. PICK i \in T : \A j \in T : i <= j
      <4>1. T \subseteq Nat /\ T # {}
        BY <1>1, Zenon
      <4> HIDE DEF T
      <4> QED BY <4>1, NatMin, Zenon
    <3>3. ASSUME NEW j \in Match(s)
          PROVE  \/ messages[i].type < messages[j].type
                 \/ messages[j].type = messages[i].type /\ i <= j
      <4>1. y <= messages[j].type /\ messages[i].type = y
        BY <3>1, Zenon
      <4>2. CASE messages[j].type = y
        BY <3>2, <4>1, <4>2
      <4>3. CASE messages[j].type # y
        BY <1>1, <4>1, <4>3
      <4> QED BY <4>2, <4>3, Zenon
    <3> QED BY <2>2, <3>3, Zenon
  <2> QED BY <2>1, <2>2, Zenon
<1> QED BY <1>3, Zenon DEF msg_pick

(* What is left when the i-th is taken out was there before. *)
LEMMA RemoveAtSubset ==
    ASSUME NEW q \in Seq(Msg), NEW i \in DOMAIN q
    PROVE  /\ RemoveAt(q, i) \in Seq(Msg)
           /\ \A j \in DOMAIN RemoveAt(q, i) : \E k \in DOMAIN q : RemoveAt(q, i)[j] = q[k]
<1>1. RemoveAt(q, i) = ListRemoveAt(q, i) /\ Len(q) \in Nat /\ i \in 1 .. Len(q)
  BY DEF RemoveAt, ListRemoveAt
<1> DEFINE r == ListRemoveAt(q, i)
<1>2. /\ r \in Seq(Msg) /\ Len(r) = Len(q) - 1
      /\ \A j \in DOMAIN r : r[j] = IF j < i THEN q[j] ELSE q[j + 1]
  BY RemoveAtShape, Zenon
<1> HIDE DEF r
<1>3. ASSUME NEW j \in DOMAIN r PROVE \E k \in DOMAIN q : r[j] = q[k]
  <2>1. j \in 1 .. Len(q) - 1 /\ j + 1 \in 1 .. Len(q) /\ j \in 1 .. Len(q)
    BY <1>1, <1>2
  <2> QED BY <1>2, <2>1
<1> QED BY <1>1, <1>2, <1>3, Zenon DEF r

(* What t's leaving or going to sleep does to the sets of sleepers, and to *)
(* their number where w counts the others.                                 *)
LEMMA LeaveFacts ==
    ASSUME Given, Types, NEW t \in Thread, NEW w, NEW T, T \subseteq Asleep, Leave(t, w, T),
           w = Cardinality(Asleep \ {t})
    PROVE  /\ call' \in [Thread -> Call] /\ woken' \subseteq Asleep'
           /\ Asleep' = Asleep \ {t} /\ \A u \in Asleep' : call'[u] = call[u]
           /\ waiters' = Cardinality(Asleep')
<1>1. call' \in [Thread -> Call] /\ call'[t] = NoCall /\ \A u \in Thread \ {t} : call'[u] = call[u]
  BY Zenon DEF Leave, Types, Call
<1>2. Asleep' = Asleep \ {t}
  BY <1>1 DEF Asleep, Senders, Receivers, NoCall
<1> QED BY <1>1, <1>2, Zenon DEF Leave, Types, Asleep, Senders, Receivers

LEMMA SleepFacts ==
    ASSUME Given, Types, NEW t \in Thread, NEW w, NEW c \in Call, c.op \in {"snd", "rcv"},
           Sleep(t, c, w), w = Cardinality(Asleep \ {t})
    PROVE  /\ call' \in [Thread -> Call] /\ woken' \subseteq Asleep'
           /\ Asleep' = Asleep \cup {t} /\ call'[t] = c
           /\ \A u \in Asleep' \ {t} : u \in Asleep /\ call'[u] = call[u]
           /\ waiters' = Cardinality(Asleep')
<1>1. call' \in [Thread -> Call] /\ call'[t] = c /\ \A u \in Thread \ {t} : call'[u] = call[u]
  BY Zenon DEF Sleep, Types
<1>2. Asleep' = Asleep \cup {t} /\ Asleep \subseteq Thread
  BY <1>1, Zenon DEF Asleep, Senders, Receivers
<1>3. waiters' = Cardinality(Asleep')
  <2>1. IsFiniteSet(Asleep \ {t})
    BY <1>2, FS_Subset, Zenon DEF Given
  <2>2. Cardinality((Asleep \ {t}) \cup {t}) = w + 1
    BY <2>1, FS_AddElement, Zenon
  <2>3. (Asleep \ {t}) \cup {t} = Asleep'
    BY <1>2, Zenon
  <2> QED BY <2>2, <2>3, Zenon DEF Sleep
<1> QED BY <1>1, <1>2, <1>3, Zenon DEF Sleep, Types

(* What a sleeper sleeps for is in its call. *)
LEMMA AsleepType ==
    ASSUME Types, NEW u \in Asleep
    PROVE  /\ call[u].op \in {"snd", "rcv"}
           /\ call[u].op = "snd" => u \in Senders /\ call[u].msg \in Msg
           /\ call[u].op = "rcv" => u \in Receivers /\ call[u].sel \in Select
<1>1. call[u] \in Call /\ call[u].op \in {"snd", "rcv"} /\ u \in Thread
  BY Zenon DEF Types, Asleep, Senders, Receivers
<1>2. call[u].op = "snd" => call[u] \in [op : {"snd"}, msg : Msg]
  BY <1>1 DEF Call, NoCall
<1>3. call[u].op = "rcv" => call[u] \in [op : {"rcv"}, sel : Select]
  BY <1>1 DEF Call, NoCall
<1> QED BY <1>1, <1>2, <1>3 DEF Senders, Receivers

LEMMA MsgSize == ASSUME Given, NEW m \in Msg PROVE m.size \in Nat
BY Zenon DEF Given, SysvMsgConstants, Msg

(* A pass that ends asleep: t has looked, and nobody else is disturbed.    *)
LEMMA SleepInv ==
    ASSUME Given, Inv, life = "live", UNCHANGED <<life, qbytes>>,
           NEW t \in Thread, NEW w, w = Cardinality(Asleep \ {t}),
           NEW c \in Call, c.op \in {"snd", "rcv"}, Sleep(t, c, w),
           IF c.op = "snd" THEN ~ Fits(c.msg) ELSE Match(c.sel) = {}
    PROVE  Inv'
<1> USE DEF Inv
<1>1. /\ call' \in [Thread -> Call] /\ woken' \subseteq Asleep'
      /\ Asleep' = Asleep \cup {t} /\ call'[t] = c
      /\ \A u \in Asleep' \ {t} : u \in Asleep /\ call'[u] = call[u]
      /\ waiters' = Cardinality(Asleep')
  BY SleepFacts, Zenon
<1>2. UNCHANGED <<messages, cbytes>> /\ woken' = woken \ {t}
  BY Zenon DEF Sleep
<1>3. Types'
  BY <1>1, <1>2, Zenon DEF Types
<1>4. ASSUME NEW u \in (Asleep \ woken)' PROVE Stuck(u)'
  <2>1. CASE u = t
    BY <1>1, <1>2, <2>1 DEF Stuck, Fits, Match
  <2>2. CASE u # t
    <3>1. u \in Asleep \ woken /\ call'[u] = call[u]
      BY <1>1, <1>2, <1>4, <2>2, ZenonT(30)
    <3> QED BY <1>2, <3>1, Zenon DEF WakeNotLost, Stuck, Fits, Match
  <2> QED BY <2>1, <2>2, Zenon
<1> QED BY <1>1, <1>3, <1>4 DEF WakeNotLost, Stuck, FreedByTheLast

(* One pass of msgsnd: a message that is added is seen by every receiver,  *)
(* and leaves the senders less room (sysvmsg.c:238).                       *)
LEMMA SendInv ==
    ASSUME Given, Inv, life = "live", NEW t \in Thread, NEW m \in Msg, NEW w,
           w = Cardinality(Asleep \ {t}), SendPass(t, m, w)
    PROVE  Inv'
<1> USE DEF Inv
<1>0. life' = "live" /\ qbytes' = qbytes
  BY Zenon DEF SendPass
<1>1. CASE /\ messages' = Append(messages, m)
           /\ cbytes' = cbytes + m.size /\ Leave(t, w, Receivers)
  <2>1. /\ call' \in [Thread -> Call] /\ woken' \subseteq Asleep'
        /\ Asleep' = Asleep \ {t} /\ \A u \in Asleep' : call'[u] = call[u]
        /\ waiters' = Cardinality(Asleep')
    BY <1>1, LeaveFacts, Zenon DEF Asleep
  <2>2. Types'
    BY <1>0, <1>1, <2>1, MsgSize DEF Types
  <2>3. ASSUME NEW u \in (Asleep \ woken)'
        PROVE  Stuck(u)'
    <3>1. u \in Asleep \ woken /\ u \notin Receivers /\ call'[u] = call[u]
      BY <1>1, <2>1, <2>3, Zenon DEF Leave
    <3>2. call[u].op = "snd" /\ call[u].msg.size \in Nat
      BY <3>1, AsleepType, MsgSize
    <3>3. ~ Fits(call[u].msg)
      BY <3>1, <3>2, Zenon DEF WakeNotLost
    <3>4. cbytes \in Int /\ qbytes \in Nat /\ m.size \in Nat /\ cbytes' = cbytes + m.size
          /\ qbytes' = qbytes
      BY <1>0, <1>1, MsgSize, Zenon DEF Types
    <3>5. cbytes' + call[u].msg.size > qbytes'
      BY <3>2, <3>3, <3>4 DEF Fits
    <3> QED BY <3>1, <3>2, <3>5, Zenon DEF Stuck, Fits
  <2> QED BY <1>0, <2>1, <2>2, <2>3 DEF WakeNotLost, Stuck, FreedByTheLast
<1>2. CASE ~ Fits(m) /\ Sleep(t, [op |-> "snd", msg |-> m], w)
  <2> DEFINE c == [op |-> "snd", msg |-> m]
  <2>1. c \in Call /\ c.op = "snd" /\ c.msg = m
    BY Zenon DEF Call
  <2> QED BY <1>0, <1>2, <2>1, SleepInv
<1> QED BY <1>1, <1>2, Zenon DEF SendPass

(* t leaves and the queue is as it was: E2BIG, EINTR. *)
LEMMA LeaveInv ==
    ASSUME Given, Inv, life = "live", NEW t \in Thread, NEW w, w = Cardinality(Asleep \ {t}),
           Leave(t, w, {}), UNCHANGED <<life, messages, cbytes, qbytes>>
    PROVE  Inv'
<1> USE DEF Inv
<1>1. /\ call' \in [Thread -> Call] /\ woken' \subseteq Asleep'
      /\ Asleep' = Asleep \ {t} /\ \A u \in Asleep' : call'[u] = call[u]
      /\ waiters' = Cardinality(Asleep')
  BY LeaveFacts
<1>2. Types'
  BY <1>1, Zenon DEF Types
<1>3. ASSUME NEW u \in (Asleep \ woken)' PROVE Stuck(u)'
  <2>1. u \in Asleep \ woken /\ call'[u] = call[u]
    BY <1>1, <1>3, Zenon DEF Leave
  <2> QED BY <2>1, Zenon DEF WakeNotLost, Stuck, Fits, Match
<1> QED BY <1>1, <1>2, <1>3 DEF WakeNotLost, Stuck, FreedByTheLast

(* One pass of msgrcv: a message that is taken is seen by every sender,    *)
(* and leaves the receivers less to find (sysvmsg.c:315).                  *)
LEMMA ReceiveInv ==
    ASSUME Given, Inv, life = "live", NEW t \in Thread, NEW s \in Select, NEW w,
           w = Cardinality(Asleep \ {t}), ReceivePass(t, s, w)
    PROVE  Inv'
<1> USE DEF Inv
<1> DEFINE i == msg_pick(s)
           m == messages[i]
<1>0. UNCHANGED <<life, qbytes>>
  BY Zenon DEF ReceivePass
<1>1. CASE Match(s) = {} /\ Sleep(t, [op |-> "rcv", sel |-> s], w)
  <2> DEFINE c == [op |-> "rcv", sel |-> s]
  <2>1. c \in Call /\ c.op = "rcv" /\ c.sel = s
    BY Zenon DEF Call
  <2> QED BY <1>0, <1>1, <2>1, SleepInv
<1>2. CASE UNCHANGED <<messages, cbytes, qnum>> /\ Leave(t, w, {})
  BY <1>0, <1>2, LeaveInv
<1>3. CASE /\ Match(s) # {} /\ messages' = RemoveAt(messages, i)
           /\ cbytes' = cbytes - Released(m, s) /\ Leave(t, w, Senders)
  <2>1. i \in DOMAIN messages /\ messages \in Seq(Msg)
    <3>1. i \in Match(s) /\ messages \in Seq(Msg)
      BY <1>3, PickMatches, Zenon DEF Types
    <3> QED BY <3>1, Zenon DEF Match
  <2> HIDE DEF i
  <2>2. /\ messages' \in Seq(Msg)
        /\ \A j \in DOMAIN messages' : \E k \in DOMAIN messages : messages'[j] = messages[k]
    BY <1>3, <2>1, RemoveAtSubset, Zenon
  <2>3. cbytes' \in Int
    <3>1. m.size \in Nat
      BY <2>1, MsgSize
    <3> QED BY <1>3, <3>1 DEF Released, Types
  <2>4. /\ call' \in [Thread -> Call] /\ woken' \subseteq Asleep'
        /\ Asleep' = Asleep \ {t} /\ \A u \in Asleep' : call'[u] = call[u]
        /\ waiters' = Cardinality(Asleep')
    BY <1>3, LeaveFacts, Zenon DEF Asleep
  <2>5. Types'
    BY <1>0, <2>2, <2>3, <2>4 DEF Types
  <2>6. ASSUME NEW u \in (Asleep \ woken)' PROVE Stuck(u)'
    <3>1. u \in Asleep \ woken /\ u \notin Senders /\ call'[u] = call[u]
      BY <1>3, <2>4, <2>6, Zenon DEF Leave
    <3>2. call[u].op = "rcv"
      BY <3>1, AsleepType, Zenon
    <3>3. Match(call[u].sel) = {}
      BY <3>1, <3>2, Zenon DEF WakeNotLost
    <3>4. \A j \in DOMAIN messages' : ~ Wants(call[u].sel, messages'[j])
      BY <2>2, <3>3, Zenon DEF Match
    <3> QED BY <3>1, <3>2, <3>4 DEF Stuck, Match
  <2> QED BY <1>0, <2>4, <2>5, <2>6 DEF WakeNotLost, Stuck, FreedByTheLast
<1> QED BY <1>1, <1>2, <1>3 DEF ReceivePass

LEMMA MaybeFreeTypes ==
    ASSUME Given, Types, NEW w, MaybeFree(w)
    PROVE  /\ life' = IF w # 0 THEN "removed" ELSE "none"
           /\ messages' \in Seq(Msg) /\ cbytes' \in Int /\ qbytes' \in Nat
<1>1. CASE w # 0
  BY <1>1, Zenon DEF MaybeFree, Types
<1>2. CASE w = 0
  <2>1. MSGMNB \in Nat /\ <<>> \in Seq(Msg)
    BY DEF Given, SysvMsgConstants
  <2> QED BY <1>2, <2>1 DEF MaybeFree
<1> QED BY <1>1, <1>2, Zenon

(* Sleepers that are all told stay so: the removal is seen by each, and    *)
(* the last of them frees the queue (msg_queue_maybe_free).                *)
LEMMA RemovedInv ==
    ASSUME Given, Inv, life = "removed", NEW t \in Asleep,
           MaybeFree(waiters - 1), Leave(t, waiters - 1, {})
    PROVE  Inv'
<1> USE DEF Inv
<1>1. IsFiniteSet(Asleep) /\ t \in Thread
  BY FS_Subset, Zenon DEF Given, Asleep, Senders, Receivers
<1>2. waiters - 1 = Cardinality(Asleep \ {t}) /\ waiters - 1 \in Nat
  BY <1>1, FS_RemoveElement, FS_CardinalityType DEF FreedByTheLast
<1>3. /\ call' \in [Thread -> Call] /\ woken' \subseteq Asleep'
      /\ Asleep' = Asleep \ {t} /\ waiters' = Cardinality(Asleep')
  BY <1>1, <1>2, LeaveFacts
<1>4. Asleep' \subseteq woken'
  BY <1>3, ZenonT(30) DEF WakeNotLost, Leave
<1>5. Types'
  BY <1>3, MaybeFreeTypes, Zenon DEF Types
<1>6. FreedByTheLast'
  BY <1>2, <1>3, MaybeFreeTypes DEF FreedByTheLast, Leave
<1> QED BY <1>4, <1>5, <1>6, Zenon DEF WakeNotLost

LEMMA InitInv == Given /\ Init => Inv
<1> SUFFICES ASSUME Given, Init PROVE Inv
  BY ZenonT(30)
<1>1. Asleep = {}
  BY Zenon DEF Init, Asleep, Senders, Receivers, NoCall
<1>2. Types
  BY <1>1 DEF Init, Types, Given, SysvMsgConstants, Call
<1> QED BY <1>1, <1>2, FS_EmptySet, Zenon DEF Init, Inv, WakeNotLost, FreedByTheLast

LEMMA NextInv == Given /\ Inv /\ [Next]_vars => Inv'
<1> SUFFICES ASSUME Given, Inv, [Next]_vars PROVE Inv'
  BY Zenon
<1> USE DEF Inv
<1>0. IsFiniteSet(Asleep) /\ Asleep \subseteq Thread
  BY FS_Subset, Zenon DEF Given, Asleep, Senders, Receivers
<1>1. CASE UNCHANGED vars
  BY <1>1, Zenon DEF vars, Types, WakeNotLost, FreedByTheLast, Asleep, Senders, Receivers, Fits, Match
<1>2. ASSUME NEW t \in Thread, Msgsnd(t) \/ Msgrcv(t) PROVE Inv'
  <2>1. life = "live" /\ Asleep \ {t} = Asleep
    BY <1>2 DEF Msgsnd, Msgrcv, Asleep, Senders, Receivers, NoCall
  <2>2. waiters = Cardinality(Asleep \ {t})
    BY <2>1, Zenon DEF FreedByTheLast
  <2>3. CASE Msgsnd(t)
    <3>1. PICK y \in Type, n \in Size : SendPass(t, [type |-> y, size |-> n, by |-> t], waiters)
      BY <2>3, ZenonT(30) DEF Msgsnd
    <3>2. [type |-> y, size |-> n, by |-> t] \in Msg
      BY ZenonT(30) DEF Msg
    <3> QED BY <2>1, <2>2, <3>1, <3>2, SendInv, Zenon
  <2>4. CASE Msgrcv(t)
    BY <2>1, <2>2, <2>4, ReceiveInv, Zenon DEF Msgrcv
  <2> QED BY <1>2, <2>3, <2>4, Zenon
<1>3. ASSUME NEW t \in Thread, Resume(t) \/ Interrupt(t) PROVE Inv'
  <2>1. t \in Asleep
    BY <1>3, ZenonT(30) DEF Resume, Interrupt
  <2>2. waiters - 1 = Cardinality(Asleep \ {t})
    BY <1>0, <2>1, FS_RemoveElement, Zenon DEF FreedByTheLast
  <2>3. CASE Interrupt(t)
    BY <2>2, <2>3, LeaveInv, ZenonT(30) DEF Interrupt
  <2>4. CASE life = "removed" /\ MaybeFree(waiters - 1) /\ Leave(t, waiters - 1, {})
    BY <2>1, <2>4, RemovedInv, ZenonT(30)
  <2>5. CASE life = "live" /\ call[t].op = "snd" /\ SendPass(t, call[t].msg, waiters - 1)
    BY <2>1, <2>2, <2>5, AsleepType, SendInv, Zenon
  <2>6. CASE life = "live" /\ call[t].op # "snd" /\ ReceivePass(t, call[t].sel, waiters - 1)
    BY <2>1, <2>2, <2>6, AsleepType, ReceiveInv, Zenon
  <2> QED BY <1>3, <2>3, <2>4, <2>5, <2>6, Zenon DEF Resume
<1>4. CASE Msgget
  BY <1>4, ZenonT(30) DEF Msgget, Types, WakeNotLost, FreedByTheLast, Asleep, Senders, Receivers
<1>5. CASE IpcRmid
  <2>1. Asleep' = Asleep /\ woken' = Asleep /\ waiters' = waiters /\ call' = call
    BY <1>5, ZenonT(30) DEF IpcRmid, Asleep, Senders, Receivers
  <2>2. waiters \in Nat /\ waiters' = Cardinality(Asleep')
    BY <1>0, <2>1, FS_CardinalityType, Zenon DEF FreedByTheLast
  <2>3. Types'
    BY <1>5, <2>1, MaybeFreeTypes, Zenon DEF IpcRmid, Types
  <2>4. FreedByTheLast'
    BY <1>5, <2>1, <2>2, MaybeFreeTypes DEF IpcRmid, FreedByTheLast
  <2> QED BY <2>1, <2>3, <2>4, Zenon DEF WakeNotLost
<1>6. CASE IpcSet
  <2>1. /\ UNCHANGED <<life, messages, cbytes, waiters, call>> /\ qbytes' \in Nat
        /\ woken' = woken \cup Senders /\ Asleep' = Asleep
    BY <1>6, Zenon DEF IpcSet, Given, SysvMsgConstants, Asleep, Senders, Receivers
  <2>2. Types' /\ FreedByTheLast'
    BY <2>1, Zenon DEF Types, FreedByTheLast, Asleep
  <2>3. ASSUME NEW u \in (Asleep \ woken)' PROVE life' = "live" /\ Stuck(u)'
    <3>1. u \in Asleep \ woken /\ u \notin Senders
      BY <2>1, <2>3, ZenonT(30)
    <3>2. call[u].op = "rcv"
      BY <3>1, AsleepType, Zenon
    <3> QED BY <2>1, <3>1, <3>2, Zenon DEF WakeNotLost, Stuck, Match
  <2> QED BY <2>2, <2>3, Zenon DEF WakeNotLost, Stuck
<1> QED BY <1>1, <1>2, <1>3, <1>4, <1>5, <1>6, Zenon DEF Next

(* The queue that IPC_RMID removes is kept for its sleepers, whoever they  *)
(* are, and freed by the last of them to wake (sysvmsg.c:100): no sleeper  *)
(* wakes to a freed queue, and none is left behind unfreed.                *)
THEOREM LastSleeperFrees == ASSUME Given PROVE Spec => []FreedByTheLast
<1>1. Inv => FreedByTheLast
  BY Zenon DEF Inv
<1> QED BY <1>1, InitInv, NextInv, PTL DEF Spec

(* No sender sleeps with room for its message, no receiver with a message  *)
(* it asks for in the queue, unless a notify is on its way to it.          *)
THEOREM NoMsgWakeIsLost == ASSUME Given PROVE Spec => []WakeNotLost
<1>1. Inv => WakeNotLost
  BY Zenon DEF Inv
<1> QED BY <1>1, InitInv, NextInv, PTL DEF Spec
=============================================================================
