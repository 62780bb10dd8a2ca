--------------------------- MODULE BlockingProofs ---------------------------
(***************************************************************************)
(* What blocks and is woken, for every set of threads.                     *)
(*                                                                         *)
(* Of wait_for, for every set of senders, of those that hold the wait's    *)
(* lock and of records: a sleeper is reached, the flag and the records are *)
(* accounted for; without the flag of a futex wait no mark outlives its    *)
(* wait, and without a sender that holds the lock nobody is blocked in a   *)
(* circle.                                                                 *)
(*                                                                         *)
(* Of an eventfd, with every width of the counter and every set of         *)
(* increments: the counter never overflows, and no wake is lost.  Of the   *)
(* flock(2) locks of a file, with every set of descriptions and every way  *)
(* of sharing them: an exclusive lock excludes, the owner of a lock is     *)
(* there to let go of it, and no wake is lost.                             *)
(*                                                                         *)
(* Of the robust lists, with every set of threads and locks and every      *)
(* limit: the next owner of a dead thread's lock is told, the walk writes  *)
(* no other thread's word, and the lock being taken is let go of unless an *)
(* access to the thread's memory fails.                                    *)
(***************************************************************************)
EXTENDS WaitFor, Flock, RobustList, ListProofs

CONSTANTS MaxVal, Increment, Semaphore

(* A name that Eventfd shares with another module is of whichever a        *)
(* theorem is about.                                                       *)
VARIABLES val, inc, woken

E == INSTANCE Eventfd
eventfdVars == <<val, asleep, inc, woken>>

----------------------------------------------------------------------------
(* Where the waiter has not yet published its wait, and where it has.      *)
Before == {"flag", "early", "early2", "publish"}
Published == {"check", "check2", "sleep", "asleep", "disarm", "delete", "out"}
Places == {"idle", "test", "unflag", "after", "after2", "return", "leave"} \cup Before \cup Published

(* A sender that signal_wake_task has let through. *)
Through == {"record", "try", "block", "again"}

Types ==
    /\ pc \in Places /\ kind \in {"plain", "futex", "ignore"}
    /\ lock \in Sender \cup {None, "waiter"}
    /\ cond_lock \in Sender \cup {None} /\ wake_lock \in Sender \cup {None}
    /\ spc \in [Sender -> {"idle", "held", "queued"} \cup Through]

(* Who holds the locks. *)
WaiterHolds == lock = "waiter" <=> pc \notin {"idle", "asleep"}
SenderHolds(s) ==
    /\ lock = s <=> spc[s] = "again" \/ (s \in Holding /\ spc[s] # "idle")
    /\ s \in Holding => spc[s] \notin {"block", "again"}
    /\ cond_lock = s <=> spc[s] = "try"
    /\ wake_lock = s <=> spc[s] \in Through
LocksHeld == WaiterHolds /\ \A s \in Sender : SenderHolds(s)

(* What the waiter has published, and what it has seen on the way to its   *)
(* sleep: a signal that it has not seen has a sender under way.            *)
Flagged == {"early", "early2", "unflag", "publish"} \cup Published
Seen ==
    /\ cond <=> pc \in Published
    /\ flag => kind = "futex" /\ pc \in Flagged
    /\ pc = "flag" => kind = "futex"
    /\ asleep => pc = "asleep" /\ ~ ready
    /\ pc \in Before \cup {"check", "check2", "sleep"} => ~ ready
UnderWay == \E s \in Sender : spc[s] \notin {"idle", "held"}
Reached == (pc = "sleep" \/ asleep) /\ pending /\ Interruptible => UnderWay

(* Who has a reference to a record. *)
Timers == {"none", "armed", "fired", "told"}
RecordTypes ==
    /\ wake \in Record \cup {None}
    /\ rec \in [Record -> [cond : BOOLEAN, refs : Nat, timer : Timers]]
RecordsHeld ==
    /\ wake # None => pc \in {"asleep", "disarm", "delete"}
    /\ pc \in {"disarm", "delete"} => wake # None
    /\ RecordsAccounted

WaitInv == Types /\ LocksHeld /\ Seen /\ Reached /\ RecordTypes /\ RecordsHeld

(* The marks of waits that have no flag. *)
PlainMarks ==
    /\ kind # "futex" /\ ~ flag
    /\ should_mark => Interruptible /\ pc \in {"asleep", "disarm", "delete", "out"}
    /\ mark => Interruptible /\ pc \in Published \cup {"after"}

----------------------------------------------------------------------------
LEMMA WaitStarts == ASSUME WaitForConstants, Init PROVE WaitInv /\ PlainMarks
<1> USE DEF Init, WaitForConstants
<1>1. Types
  BY Zenon DEF Types, Places, Before, Published
<1>2. LocksHeld
  BY Zenon DEF LocksHeld, WaiterHolds, SenderHolds, Through
<1>3. Seen /\ Reached
  BY Zenon DEF Seen, Reached, Published, Before
<1>4. RecordTypes /\ RecordsHeld
  BY DEF RecordTypes, RecordsHeld, RecordsAccounted, Free, Timers
<1>5. PlainMarks
  BY Zenon DEF PlainMarks
<1> QED BY <1>1, <1>2, <1>3, <1>4, <1>5, Zenon DEF WaitInv

LEMMA WaiterLeavesSenders == ASSUME Waiter PROVE UNCHANGED <<cond_lock, wake_lock, spc>>
BY Zenon DEF Waiter, Call, Test, SetFlag, Consume, Look, Unflag, Publish, Sleep, Wake, Disarm, Delete, Out,
       Return, Leave, ReceiveSignals, Handler, locks, others

(* Where the waiter goes. *)
LEMMA WaiterGoes ==
    ASSUME Types, LocksHeld, Seen, Waiter
    PROVE  /\ pc' \in Places /\ kind' \in Kinds \cup {kind}
           /\ \/ UNCHANGED <<pc, lock>>
              \/ pc = "idle" /\ lock = None /\ lock' = "waiter" /\ pc' = "test"
              \/ pc = "sleep" /\ lock' = None /\ pc' = "asleep"
              \/ pc = "asleep" /\ lock = None /\ lock' = "waiter" /\ pc' \in {"out", "disarm"}
              \/ pc = "leave" /\ lock' = None /\ pc' = "idle"
              \/ lock' = lock /\ {pc, pc'} \cap {"idle", "asleep"} = {}
<1> USE DEF Types, Places, Before, Published, Goto, locks
<1>1. CASE Call
  BY <1>1, Zenon DEF Call
<1>2. CASE Test
  BY <1>2, Zenon DEF Test
<1>3. CASE SetFlag
  BY <1>3, Zenon DEF SetFlag
<1>4. CASE Consume
  BY <1>4, Zenon DEF Consume, Looks, Yes, Second
<1>5. CASE Look
  BY <1>5 DEF Look, Looks, Yes, Second, No
<1>6. CASE Unflag
  BY <1>6, Zenon DEF Unflag
<1>7. CASE Publish
  BY <1>7, Zenon DEF Publish
<1>8. CASE Sleep
  BY <1>8, Zenon DEF Sleep
<1>9. CASE Wake
  BY <1>9, Zenon DEF Wake
<1>10. CASE Disarm
  BY <1>10, Zenon DEF Disarm
<1>11. CASE Delete
  BY <1>11, Zenon DEF Delete
<1>12. CASE Out
  BY <1>12, Zenon DEF Out
<1>13. CASE Return
  BY <1>13, Zenon DEF Return
<1>14. CASE Leave
  BY <1>14, Zenon DEF Leave
<1>15. CASE ReceiveSignals \/ Handler
  BY <1>15, Zenon DEF ReceiveSignals, Handler
<1> QED BY <1>1, <1>2, <1>3, <1>4, <1>5, <1>6, <1>7, <1>8, <1>9, <1>10, <1>11, <1>12, <1>13,
           <1>14, <1>15, Zenon DEF Waiter

LEMMA WaiterLocks ==
    ASSUME WaitForConstants, Types, LocksHeld, Seen, Waiter PROVE Types' /\ LocksHeld'
<1>1. UNCHANGED <<cond_lock, wake_lock, spc>>
  BY WaiterLeavesSenders, Zenon
<1>2. /\ lock' \in {lock, "waiter", None} 
      /\ lock' # lock => lock \in {None, "waiter"}
      /\ WaiterHolds'
  BY WaiterGoes, Zenon DEF LocksHeld, WaiterHolds, WaitForConstants
<1>3. Types'
  BY <1>1, <1>2, WaiterGoes, Zenon DEF Types, WaitForConstants
<1>4. ASSUME NEW s \in Sender PROVE SenderHolds(s)'
  <2>1. lock' = s <=> lock = s
    BY <1>2, Zenon DEF WaitForConstants
  <2> QED BY <1>1, <2>1, Zenon DEF LocksHeld, SenderHolds
<1> QED BY <1>2, <1>3, <1>4, Zenon DEF LocksHeld

(* A sender's step takes or lets go of nothing but its own locks. *)
Sends(s) ==
    \/ TakeFirst(s) \/ Send(s) \/ Serialise(s) \/ RecordInterruption(s)
    \/ Try(s) \/ Block(s) \/ Again(s)
Turns(x, y, s) == y = x \/ (x \in {None, s} /\ y \in {None, s})
SenderMoves(s) ==
    /\ UNCHANGED <<pc, kind>>
    /\ Turns(lock, lock', s) /\ Turns(cond_lock, cond_lock', s) /\ Turns(wake_lock, wake_lock', s)
    /\ \E l \in {"idle", "held", "queued"} \cup Through : spc' = [spc EXCEPT ![s] = l]
    /\ SenderHolds(s)'

LEMMA SenderSteps ==
    ASSUME WaitForConstants, Types, LocksHeld, NEW s \in Sender, Sends(s) PROVE SenderMoves(s)
<1> USE DEF Types, SenderHolds, Through, WaitForConstants, senderRest, Step, locks, SenderMoves, Turns
<1>0. SenderHolds(s)
  BY Zenon DEF LocksHeld
<1>1. CASE TakeFirst(s)
  BY <1>0, <1>1, Zenon DEF TakeFirst
<1>2. CASE Send(s)
  BY <1>0, <1>2, Zenon DEF Send
<1>3. CASE Serialise(s)
  BY <1>0, <1>3, Zenon DEF Serialise
<1>4. CASE RecordInterruption(s)
  BY <1>0, <1>4, Zenon DEF RecordInterruption, Done
<1>5. CASE Try(s)
  BY <1>0, <1>5, Zenon DEF Try, TryFailed, Done
<1>6. CASE Block(s)
  BY <1>0, <1>6, Zenon DEF Block
<1>7. CASE Again(s)
  BY <1>0, <1>7, Zenon DEF Again, Done
<1> QED BY <1>1, <1>2, <1>3, <1>4, <1>5, <1>6, <1>7, Zenon DEF Sends

LEMMA SenderLocks ==
    ASSUME WaitForConstants, Types, LocksHeld, NEW s \in Sender, Sends(s) PROVE Types' /\ LocksHeld'
<1>1. SenderMoves(s)
  BY SenderSteps, Zenon
<1>2. ASSUME NEW t \in Sender, t # s PROVE SenderHolds(t)'
  <2>1. spc'[t] = spc[t]
    BY <1>1, <1>2, Zenon DEF SenderMoves, Types
  <2>2. /\ (lock' = t <=> lock = t) /\ (cond_lock' = t <=> cond_lock = t)
        /\ (wake_lock' = t <=> wake_lock = t)
    BY <1>1, <1>2, Zenon DEF SenderMoves, Turns, WaitForConstants
  <2> QED BY <2>1, <2>2, Zenon DEF LocksHeld, SenderHolds
<1>3. WaiterHolds'
  BY <1>1, Zenon DEF SenderMoves, Turns, WaitForConstants, LocksHeld, WaiterHolds
<1>4. Types'
  BY <1>1, Zenon DEF SenderMoves, Turns, Types
<1> QED BY <1>1, <1>2, <1>3, <1>4, Zenon DEF LocksHeld, SenderMoves

----------------------------------------------------------------------------
(* The waiter publishes its wait and its flag, and takes them back, in     *)
(* that order, and does not sleep on what has come about.                  *)
LEMMA WaiterSees ==
    ASSUME WaitForConstants, Types, LocksHeld, Seen, Waiter PROVE Seen'
<1> USE DEF Types, Seen, Before, Published, Places, Flagged, Goto, others
<1>1. CASE Call
  BY <1>1, Zenon DEF Call
<1>2. CASE Test
  BY <1>2, Zenon DEF Test
<1>3. CASE SetFlag
  BY <1>3, Zenon DEF SetFlag
<1>4. CASE Consume
  BY <1>4, Zenon DEF Consume, Looks, Yes, Second
<1>5. CASE Look
  BY <1>5 DEF Look, Looks, Yes, Second, No
<1>6. CASE Unflag
  BY <1>6, Zenon DEF Unflag
<1>7. CASE Publish
  BY <1>7, Zenon DEF Publish
<1>8. CASE Sleep
  BY <1>8, Zenon DEF Sleep
<1>9. CASE Wake
  BY <1>9, Zenon DEF Wake
<1>10. CASE Disarm
  BY <1>10, Zenon DEF Disarm
<1>11. CASE Delete
  BY <1>11, Zenon DEF Delete
<1>12. CASE Out
  BY <1>12, Zenon DEF Out
<1>13. CASE Return
  BY <1>13, Zenon DEF Return
<1>14. CASE Leave
  BY <1>14, Zenon DEF Leave
<1>15. CASE ReceiveSignals \/ Handler
  BY <1>15 DEF ReceiveSignals, Handler
<1> QED BY <1>1, <1>2, <1>3, <1>4, <1>5, <1>6, <1>7, <1>8, <1>9, <1>10, <1>11, <1>12, <1>13,
           <1>14, <1>15, Zenon DEF Waiter

(* A signal that arrives after the last look, on the way into the sleep,   *)
(* has a sender that is under way (sync.c:479).                            *)
LEMMA WaiterReached ==
    ASSUME WaitForConstants, Types, LocksHeld, Seen, Reached, Waiter PROVE Reached'
<1> USE DEF Types, Seen, Reached, Goto, others
<1>0. UnderWay' <=> UnderWay
  BY WaiterLeavesSenders, Zenon DEF UnderWay
<1>1. CASE Call
  BY <1>1, Zenon DEF Call
<1>2. CASE Test
  BY <1>2, Zenon DEF Test
<1>3. CASE SetFlag
  BY <1>3, Zenon DEF SetFlag
<1>4. CASE Consume
  BY <1>4, Zenon DEF Consume, Looks, Yes, Second
<1>5. CASE Look
  BY <1>5 DEF Look, Looks, Yes, Second, No
<1>6. CASE Unflag
  BY <1>6, Zenon DEF Unflag
<1>7. CASE Publish
  BY <1>7, Zenon DEF Publish, Interruptible
<1>8. CASE Sleep
  BY <1>0, <1>8, Zenon DEF Sleep, Interruptible
<1>9. CASE Wake
  BY <1>9, Zenon DEF Wake
<1>10. CASE Disarm
  BY <1>10, Zenon DEF Disarm
<1>11. CASE Delete
  BY <1>11, Zenon DEF Delete
<1>12. CASE Out
  BY <1>12, Zenon DEF Out
<1>13. CASE Return
  BY <1>13, Zenon DEF Return
<1>14. CASE Leave
  BY <1>14, Zenon DEF Leave
<1>15. CASE ReceiveSignals
  BY <1>15, Zenon DEF ReceiveSignals
<1>16. CASE Handler
  BY <1>0, <1>16, Zenon DEF Handler, Interruptible
<1> QED BY <1>1, <1>2, <1>3, <1>4, <1>5, <1>6, <1>7, <1>8, <1>9, <1>10, <1>11, <1>12, <1>13,
           <1>14, <1>15, <1>16, Zenon DEF Waiter

LEMMA SenderSees == ASSUME Seen, NEW s \in Sender, Sends(s) PROVE Seen' /\ UNCHANGED Interruptible
<1>1. UNCHANGED <<pc, kind, flag, cond, ready>>
  BY Zenon DEF Sends, TakeFirst, Send, Serialise, RecordInterruption, Try, Block, Again, senderRest
<1>2. asleep' => asleep
  BY Zenon DEF Sends, TakeFirst, Send, Serialise, RecordInterruption, Try, TryFailed, Block, Again
<1> QED BY <1>1, <1>2, Zenon DEF Seen, Interruptible

(* A sender that leaves has woken the waiter, or the waiter has yet to     *)
(* publish its wait, and to look (signal.c:529).                           *)
LEMMA SenderReaches ==
    ASSUME WaitForConstants, Types, LocksHeld, Seen, Reached, NEW s \in Sender, Sends(s)
    PROVE  Reached'
<1> USE DEF senderRest, Step
<1>1. SUFFICES ASSUME pc' = "sleep" \/ asleep', pending', Interruptible' PROVE UnderWay'
  BY Zenon DEF Reached
<1>2. pc' = pc /\ (asleep' => asleep) /\ Interruptible
  BY <1>1, Zenon DEF Sends, TakeFirst, Send, Serialise, RecordInterruption, Try, TryFailed, Block, Again, Done,
              Interruptible
<1>3. (pc = "sleep" \/ asleep) /\ cond
  BY <1>1, <1>2, Zenon DEF Seen, Published
<1>4. (pc = "sleep" => lock = "waiter") /\ (spc[s] = "again" => lock = s) /\ s \notin {None, "waiter"}
  BY Zenon DEF LocksHeld, WaiterHolds, SenderHolds, WaitForConstants
<1>5. CASE TakeFirst(s)
  <2>1. pending
    BY <1>1, <1>5, Zenon DEF TakeFirst
  <2>2. PICK t \in Sender : spc[t] \notin {"idle", "held"}
    BY <1>2, <1>3, <2>1, Zenon DEF Reached, UnderWay
  <2>3. spc'[t] = spc[t]
    BY <1>5, <2>2, Zenon DEF TakeFirst, Types
  <2> QED BY <2>2, <2>3, Zenon DEF UnderWay
<1>6. CASE \E l \in {"queued"} \cup Through : spc' = [spc EXCEPT ![s] = l]
  BY <1>6, Zenon DEF UnderWay, Types, Through
<1>7. CASE Send(s)
  BY <1>6, <1>7, Zenon DEF Send
<1>8. CASE Serialise(s)
  BY <1>6, <1>8, Zenon DEF Serialise, Through
<1>9. CASE RecordInterruption(s)
  BY <1>3, <1>6, <1>9, Zenon DEF RecordInterruption, Through
<1>10. CASE Try(s)
  BY <1>1, <1>2, <1>4, <1>6, <1>10, WaitForConstants, Zenon DEF Try, TryFailed, Through, WaitForConstants
<1>11. CASE Block(s)
  BY <1>6, <1>11, Zenon DEF Block, Through
<1>12. CASE Again(s)
  BY <1>1, <1>2, <1>3, <1>4, <1>12, Zenon DEF Again
<1> QED BY <1>5, <1>7, <1>8, <1>9, <1>10, <1>11, <1>12, Zenon DEF Sends

----------------------------------------------------------------------------
(* A record gains its two references together, and loses each once: the    *)
(* waiter's as it deletes the timer, and the timer's then, if it has not   *)
(* fired, or else from the service thread (sync.c:179).                    *)
RecordFields == [cond : BOOLEAN, refs : Nat, timer : Timers]
Accounted(r) ==
    /\ rec[r].refs = (IF wake = r THEN 1 ELSE 0) + (IF rec[r].timer # "none" THEN 1 ELSE 0)
    /\ rec[r].cond => wake = r /\ pc \in {"asleep", "disarm"}

LEMMA OneRecord ==
    ASSUME RecordTypes, RecordsHeld, NEW r \in Record, NEW e \in RecordFields,
           rec' = [rec EXCEPT ![r] = e], wake' \in Record \cup {None},
           \A q \in Record \ {r} : (wake' = q <=> wake = q) /\ (rec[q].cond => UNCHANGED pc),
           Accounted(r)', wake' # None => pc' \in {"asleep", "disarm", "delete"},
           pc' \in {"disarm", "delete"} => wake' # None
    PROVE  RecordTypes' /\ RecordsHeld'
<1>1. RecordTypes'
  BY Zenon DEF RecordTypes, RecordFields
<1>2. ASSUME NEW q \in Record PROVE Accounted(q)'
  <2>1. CASE q # r
    <3>1. rec'[q] = rec[q] /\ (wake' = q <=> wake = q)
      BY <2>1, Zenon DEF RecordTypes
    <3>2. Accounted(q) /\ (rec[q].cond => UNCHANGED pc)
      BY <2>1, Zenon DEF RecordsHeld, RecordsAccounted, Accounted
    <3> QED BY <3>1, <3>2, Zenon DEF Accounted
  <2> QED BY <2>1, Zenon
<1> QED BY <1>1, <1>2, Zenon DEF RecordsHeld, RecordsAccounted, Accounted

LEMMA ServiceRecords ==
    ASSUME WaitForConstants, RecordTypes, RecordsHeld, NEW r \in Record, Fire(r) \/ Broadcast(r) \/ PutLast(r)
    PROVE  RecordTypes' /\ RecordsHeld'
<1> USE DEF serviceRest
<1>1. UNCHANGED <<pc, wake>>
  BY Zenon DEF Fire, Broadcast, PutLast
<1>2. rec[r] \in RecordFields /\ Accounted(r)
  BY Zenon DEF RecordTypes, RecordFields, RecordsHeld, RecordsAccounted, Accounted
<1>3. CASE Fire(r)
  <2> DEFINE e == [rec[r] EXCEPT !.timer = "fired"]
  <2>1. rec' = [rec EXCEPT ![r] = e] /\ rec[r].timer = "armed"
    BY <1>3, Zenon DEF Fire
  <2>2. e \in RecordFields /\ e.refs = rec[r].refs /\ e.cond = rec[r].cond /\ e.timer = "fired"
    BY <1>2, Zenon DEF RecordFields, Timers
  <2>3. rec'[r] = e
    BY <2>1, Zenon DEF RecordTypes
  <2>4. Accounted(r)'
    BY <1>1, <1>2, <2>1, <2>2, <2>3, Zenon DEF Accounted
  <2> HIDE DEF e
  <2> QED BY <1>1, <2>1, <2>2, <2>4, OneRecord, Zenon DEF RecordTypes, RecordsHeld
<1>4. CASE Broadcast(r)
  <2> DEFINE e == [rec[r] EXCEPT !.timer = "told"]
  <2>1. rec' = [rec EXCEPT ![r] = e] /\ rec[r].timer = "fired"
    BY <1>4, Zenon DEF Broadcast
  <2>2. e \in RecordFields /\ e.refs = rec[r].refs /\ e.cond = rec[r].cond /\ e.timer = "told"
    BY <1>2, Zenon DEF RecordFields, Timers
  <2>3. rec'[r] = e
    BY <2>1, Zenon DEF RecordTypes
  <2>4. Accounted(r)'
    BY <1>1, <1>2, <2>1, <2>2, <2>3, Zenon DEF Accounted
  <2> HIDE DEF e
  <2> QED BY <1>1, <2>1, <2>2, <2>4, OneRecord, Zenon DEF RecordTypes, RecordsHeld
<1>5. CASE PutLast(r)
  <2> DEFINE d == [rec[r] EXCEPT !.timer = "none"]
             e == Put(d, 1)
  <2>1. rec' = [rec EXCEPT ![r] = e] /\ rec[r].timer = "told"
    BY <1>5, Zenon DEF PutLast
  <2>2. d \in RecordFields /\ d.refs = rec[r].refs /\ d.cond = rec[r].cond /\ d.timer = "none"
    BY <1>2, Zenon DEF RecordFields, Timers
  <2>3. d.refs = (IF wake = r THEN 1 ELSE 0) + 1
    BY <1>2, <2>1, <2>2, Zenon DEF Accounted
  <2> HIDE DEF d
  <2>4. e \in RecordFields /\ e.refs = d.refs - 1 /\ (e.cond => d.cond) /\ e.timer = "none"
    BY <2>2, <2>3 DEF RecordFields, Timers, Put, Free
  <2>5. rec'[r] = e
    BY <2>1, Zenon DEF RecordTypes
  <2> HIDE DEF e
  <2>6. Accounted(r)'
    BY <1>1, <1>2, <2>2, <2>3, <2>4, <2>5 DEF Accounted
  <2> QED BY <1>1, <2>1, <2>4, <2>6, OneRecord, Zenon DEF RecordTypes, RecordsHeld
<1> QED BY <1>3, <1>4, <1>5, Zenon

LEMMA WaiterRecords ==
    ASSUME WaitForConstants, Types, RecordTypes, RecordsHeld, Waiter PROVE RecordTypes' /\ RecordsHeld'
<1> USE DEF Goto
<1>1. CASE UNCHANGED <<wake, rec>> /\ {pc, pc'} \cap {"asleep", "disarm", "delete"} = {}
  <2>1. wake = None /\ \A r \in Record : ~ rec[r].cond
    BY <1>1, Zenon DEF RecordsHeld, RecordsAccounted
  <2> QED BY <1>1, <2>1, Zenon DEF RecordTypes, RecordsHeld, RecordsAccounted
<1>2. CASE Call \/ Test \/ SetFlag \/ Consume \/ Unflag \/ Publish \/ Out \/ Return \/ Leave
  <2>1. UNCHANGED <<wake, rec>> /\ pc \notin {"asleep", "disarm", "delete"}
    BY <1>2, Zenon DEF Call, Test, SetFlag, Consume, Looks, Unflag, Publish, Out, Return, Leave
  <2>2. pc' \notin {"asleep", "disarm", "delete"}
    BY <1>2, Zenon DEF Types, Call, Test, SetFlag, Consume, Looks, Yes, Second, Unflag, Publish, Out, Return, Leave
  <2> QED BY <1>1, <2>1, <2>2, Zenon
<1>3. CASE Look
  BY <1>1, <1>3, Zenon DEF Look, Looks, Yes, Second, No
<1>4. CASE UNCHANGED <<wake, rec, pc>>
  BY <1>4, Zenon DEF RecordTypes, RecordsHeld, RecordsAccounted
<1>5. CASE ReceiveSignals \/ Handler
  BY <1>4, <1>5, Zenon DEF ReceiveSignals, Handler
<1>6. CASE Sleep
  <2>1. pc = "sleep" /\ pc' = "asleep" /\ wake = None /\ \A r \in Record : ~ rec[r].cond
    BY <1>6, Zenon DEF Sleep, RecordsHeld, RecordsAccounted
  <2>2. CASE UNCHANGED <<wake, rec>>
    BY <2>1, <2>2, Zenon DEF RecordTypes, RecordsHeld, RecordsAccounted
  <2>3. CASE \E r \in Record : rec[r] = Free /\ wake' = r
                /\ rec' = [rec EXCEPT ![r] = [cond |-> TRUE, refs |-> 2, timer |-> "armed"]]
    <3>1. PICK r \in Record : rec[r] = Free /\ wake' = r
                /\ rec' = [rec EXCEPT ![r] = [cond |-> TRUE, refs |-> 2, timer |-> "armed"]]
      BY <2>3, Zenon
    <3> DEFINE e == [cond |-> TRUE, refs |-> 2, timer |-> "armed"]
    <3>2. e \in RecordFields /\ e.refs = 2 /\ e.timer = "armed"
      BY Zenon DEF RecordFields, Timers
    <3>3. rec'[r] = e
      BY <3>1, Zenon DEF RecordTypes
    <3>4. Accounted(r)'
      BY <2>1, <3>1, <3>2, <3>3 DEF Accounted
    <3>5. r # None
      BY Zenon DEF WaitForConstants
    <3>6. rec' = [rec EXCEPT ![r] = e] /\ \A q \in Record \ {r} : wake' # q /\ wake # q
      BY <2>1, <3>1, Zenon DEF WaitForConstants
    <3> HIDE DEF e
    <3> QED BY <2>1, <3>1, <3>2, <3>4, <3>5, <3>6, OneRecord, Zenon
  <2> QED BY <1>6, <2>2, <2>3, Zenon DEF Sleep
<1>7. CASE Wake
  BY <1>7, Zenon DEF Wake, RecordTypes, RecordsHeld, RecordsAccounted, WaitForConstants
<1>8. ASSUME pc \in {"disarm", "delete"} PROVE wake \in Record /\ rec[wake] \in RecordFields /\ Accounted(wake)
  BY <1>8, Zenon DEF RecordTypes, RecordFields, RecordsHeld, RecordsAccounted, Accounted
<1>9. CASE Disarm
  <2> DEFINE e == [rec[wake] EXCEPT !.cond = FALSE]
  <2>1. pc = "disarm" /\ pc' = "delete" /\ wake' = wake /\ rec' = [rec EXCEPT ![wake] = e]
    BY <1>9, Zenon DEF Disarm
  <2>2. wake \in Record /\ rec[wake] \in RecordFields /\ Accounted(wake)
    BY <1>8, <2>1, Zenon
  <2>3. e \in RecordFields /\ e.refs = rec[wake].refs /\ e.timer = rec[wake].timer /\ ~ e.cond
    BY <2>2, Zenon DEF RecordFields
  <2>4. rec'[wake] = e
    BY <2>1, <2>2, Zenon DEF RecordTypes
  <2> HIDE DEF e
  <2>5. Accounted(wake)'
    BY <2>1, <2>2, <2>3, <2>4, Zenon DEF Accounted
  <2>6. \A q \in Record \ {wake} : ~ rec[q].cond
    BY Zenon DEF RecordsHeld, RecordsAccounted
  <2>7. wake # None
    BY <2>2, Zenon DEF WaitForConstants
  <2> QED BY <2>1, <2>2, <2>3, <2>5, <2>6, <2>7, OneRecord, Zenon DEF Accounted
<1>10. CASE Delete
  <2> DEFINE d == Deleted(rec[wake])
             n == Dropped(rec[wake])
             e == Put(d, n)
  <2>1. pc = "delete" /\ pc' = "out" /\ wake' = None /\ rec' = [rec EXCEPT ![wake] = e]
    BY <1>10, Zenon DEF Delete
  <2>2. wake \in Record /\ rec[wake] \in RecordFields /\ Accounted(wake)
    BY <1>8, <2>1, Zenon
  <2>3. d \in RecordFields /\ d.refs = rec[wake].refs /\ d.cond = rec[wake].cond
        /\ d.timer = IF rec[wake].timer = "armed" THEN "none" ELSE rec[wake].timer
    BY <2>2, Zenon DEF RecordFields, Timers, Deleted
  <2>4. n \in {1, 2} /\ (n = 2 <=> rec[wake].timer = "armed")
    BY DEF Dropped
  <2> HIDE DEF d, n
  <2>5. ~ d.cond /\ d.refs = n + (IF d.timer # "none" THEN 1 ELSE 0)
    BY <2>1, <2>2, <2>3, <2>4 DEF Accounted
  <2>6. d.refs \in Nat /\ (d.refs = n => d.timer = "none") /\ (d.refs # n => d.refs - n = 1 /\ d.timer # "none")
    BY <2>3, <2>4, <2>5 DEF RecordFields
  <2>7. /\ e \in RecordFields /\ ~ e.cond
        /\ e.refs = IF e.timer # "none" THEN 1 ELSE 0
    <3>1. CASE d.refs = n
      <4>1. e = Free
        BY <3>1, Zenon DEF Put
      <4> QED BY <4>1 DEF Free, RecordFields, Timers
    <3>2. CASE d.refs # n
      <4>1. e = [d EXCEPT !.refs = 1]
        BY <2>6, <3>2, Zenon DEF Put
      <4> QED BY <2>3, <2>5, <2>6, <3>2, <4>1 DEF RecordFields
    <3> QED BY <3>1, <3>2, Zenon
  <2>8. rec'[wake] = e
    BY <2>1, <2>2, Zenon DEF RecordTypes
  <2> HIDE DEF e
  <2>9. wake # None
    BY <2>2 DEF WaitForConstants
  <2> DEFINE w == wake
  <2>10. rec'[w].refs = (IF wake' = w THEN 1 ELSE 0) + (IF rec'[w].timer # "none" THEN 1 ELSE 0)
         /\ ~ rec'[w].cond
    BY <2>1, <2>7, <2>8, <2>9
  <2> QED
    <3>1. PICK r \in Record : r = wake
      BY <2>2, Zenon
    <3>2. Accounted(r)'
      BY <2>10, <3>1, Zenon DEF Accounted
    <3>3. \A q \in Record \ {r} : (wake' = q <=> wake = q) /\ ~ rec[q].cond
      BY <2>1, <3>1, Zenon DEF RecordsHeld, RecordsAccounted, WaitForConstants
    <3> QED BY <2>1, <2>7, <3>1, <3>2, <3>3, OneRecord, Zenon
<1> QED BY <1>2, <1>3, <1>5, <1>6, <1>7, <1>9, <1>10, Zenon DEF Waiter

----------------------------------------------------------------------------
LEMMA WaitKeeps == ASSUME WaitForConstants, WaitInv, [Next]_vars PROVE WaitInv'
<1> USE DEF WaitInv
<1>1. CASE Waiter
  BY <1>1, WaiterLocks, WaiterSees, WaiterReached, WaiterRecords, Zenon
<1>2. ASSUME NEW s \in Sender, Sends(s) PROVE WaitInv'
  <2>1. UNCHANGED <<pc, wake, rec>>
    BY <1>2, Zenon DEF Sends, TakeFirst, Send, Serialise, RecordInterruption, Try, Block, Again, senderRest
  <2>2. RecordTypes' /\ RecordsHeld'
    BY <2>1, Zenon DEF RecordTypes, RecordsHeld, RecordsAccounted
  <2> QED BY <1>2, <2>2, SenderLocks, SenderSees, SenderReaches, Zenon
<1>3. ASSUME NEW r \in Record, Fire(r) \/ Broadcast(r) \/ PutLast(r) PROVE WaitInv'
  <2>1. UNCHANGED <<pc, kind, lock, cond_lock, wake_lock, spc, cond, flag, ready, pending>>
    BY <1>3, Zenon DEF Fire, Broadcast, PutLast, serviceRest, locks, others
  <2>2. asleep' => asleep
    BY <1>3, Zenon DEF Fire, Broadcast, PutLast
  <2>3. Types' /\ LocksHeld'
    BY <2>1, Zenon DEF Types, LocksHeld, WaiterHolds, SenderHolds
  <2>4. Seen' /\ Reached'
    BY <2>1, <2>2, Zenon DEF Seen, Reached, UnderWay, Interruptible
  <2> QED BY <1>3, <2>3, <2>4, ServiceRecords, Zenon
<1>4. CASE Notify
  <2>1. pc = "asleep" /\ pc' = pc
    BY <1>4, Zenon DEF Notify, LocksHeld, WaiterHolds, WaitForConstants
  <2>2. Types' /\ LocksHeld'
    BY <1>4, Zenon DEF Notify, Types, LocksHeld, WaiterHolds, SenderHolds, locks
  <2>3. Seen' /\ Reached'
    BY <1>4, <2>1, Zenon DEF Notify, Seen, Reached, Before
  <2>4. RecordTypes' /\ RecordsHeld'
    BY <1>4, Zenon DEF Notify, RecordTypes, RecordsHeld, RecordsAccounted
  <2> QED BY <2>2, <2>3, <2>4, Zenon
<1>5. CASE Poke \/ UNCHANGED vars
  <2>1. UNCHANGED <<pc, kind, lock, cond_lock, wake_lock, cond, flag, asleep, ready, pending, spc, wake, rec>>
    BY <1>5, Zenon DEF Poke, vars, locks
  <2>2. Types' /\ LocksHeld'
    BY <2>1, Zenon DEF Types, LocksHeld, WaiterHolds, SenderHolds
  <2>3. Seen' /\ Reached'
    BY <2>1, Zenon DEF Seen, Reached, UnderWay, Interruptible
  <2>4. RecordTypes' /\ RecordsHeld'
    BY <2>1, Zenon DEF RecordTypes, RecordsHeld, RecordsAccounted
  <2> QED BY <2>2, <2>3, <2>4
<1> QED BY <1>1, <1>2, <1>3, <1>4, <1>5, Zenon DEF Next, Sends

LEMMA WaitHolds == ASSUME WaitForConstants PROVE Spec => []WaitInv
<1>1. Init => WaitInv
  BY WaitStarts, Zenon
<1>2. WaitInv /\ [Next]_vars => WaitInv'
  BY WaitKeeps, Zenon
<1> QED BY <1>1, <1>2, PTL DEF Spec

(* A wait that is asleep has not missed what it waits for, and a signal it *)
(* could be ended by has a sender that will get to it, whatever senders    *)
(* there are and whichever of them hold its lock (signal.c:529,            *)
(* sync.c:479).                                                            *)
THEOREM NoSleeperIsMissed == ASSUME WaitForConstants PROVE Spec => []SleeperIsReached
<1>1. WaitInv => SleeperIsReached
  BY Zenon DEF WaitInv, Seen, Reached, UnderWay, SleeperIsReached
<1> QED BY <1>1, WaitHolds, PTL

(* waiting_interrupt_flag never points into a frame that has returned, and *)
(* only into that of a futex wait (sync.c:334, signal.c:497).              *)
THEOREM FlagPointsIntoTheFrame == ASSUME WaitForConstants PROVE Spec => []FlagIsLive
<1>1. WaitInv => FlagIsLive
  BY Zenon DEF WaitInv, Seen, FlagIsLive, Flagged, Published
<1> QED BY <1>1, WaitHolds, PTL

(* A struct deadline_wake has exactly the references of its wait and of    *)
(* its timer, so whichever is the last to let go frees it, once, and no    *)
(* broadcast is for a wait that is over (sync.c:179).                      *)
THEOREM DeadlineRecordsFreedOnce == ASSUME WaitForConstants PROVE Spec => []RecordsAccounted
<1>1. WaitInv => RecordsAccounted
  BY Zenon DEF WaitInv, RecordsHeld
<1> QED BY <1>1, WaitHolds, PTL

----------------------------------------------------------------------------
(* Without a flag, a sender marks a wait that is published and will look,  *)
(* and the handler one that is asleep or on its way out.                   *)
LEMMA MarksKept ==
    ASSUME Kinds \subseteq {"plain", "ignore"}, WaitInv, PlainMarks, [Next]_vars PROVE PlainMarks'
<1> USE DEF PlainMarks, Published, Goto, Interruptible
<1>0. Types /\ Seen
  BY Zenon DEF WaitInv
<1>1. CASE Call
  BY <1>1, Zenon DEF Call
<1>2. CASE Test
  BY <1>2, Zenon DEF Test
<1>3. CASE SetFlag
  BY <1>0, <1>3, Zenon DEF SetFlag, Seen
<1>4. CASE Consume
  BY <1>4, Zenon DEF Consume, Looks, Yes, Second
<1>5. CASE Look
  BY <1>5 DEF Look, Looks, Yes, Second, No
<1>6. CASE Unflag
  BY <1>6, Zenon DEF Unflag
<1>7. CASE Publish
  BY <1>7, Zenon DEF Publish
<1>8. CASE Sleep
  BY <1>8, Zenon DEF Sleep
<1>9. CASE Wake
  BY <1>9, Zenon DEF Wake
<1>10. CASE Disarm
  BY <1>10, Zenon DEF Disarm
<1>11. CASE Delete
  BY <1>11, Zenon DEF Delete
<1>12. CASE Out
  BY <1>12, Zenon DEF Out
<1>13. CASE Return
  BY <1>13, Zenon DEF Return
<1>14. CASE Leave
  BY <1>14, Zenon DEF Leave
<1>15. CASE Handler
  BY <1>15, Zenon DEF Handler
<1>16. ASSUME NEW s \in Sender, Sends(s) PROVE PlainMarks'
  <2>1. UNCHANGED <<pc, kind, flag, should_mark>>
    BY <1>16, Zenon DEF Sends, TakeFirst, Send, Serialise, RecordInterruption, Try, Block, Again, senderRest
  <2>2. mark' => mark \/ Records
    BY <1>16, Zenon DEF Sends, TakeFirst, Send, Serialise, RecordInterruption, Try, Block, Again
  <2>3. Records => Interruptible /\ pc \in Published
    BY <1>0, Zenon DEF Records, Seen
  <2> QED BY <2>1, <2>2, <2>3, Zenon
<1>17. CASE UNCHANGED <<pc, kind, flag, should_mark, mark>>
  BY <1>17, Zenon
<1>18. CASE ReceiveSignals \/ Notify \/ Poke \/ UNCHANGED vars
  BY <1>17, <1>18, Zenon DEF ReceiveSignals, Notify, Poke, vars
<1>19. ASSUME NEW r \in Record, Fire(r) \/ Broadcast(r) \/ PutLast(r) PROVE PlainMarks'
  BY <1>17, <1>19, Zenon DEF Fire, Broadcast, PutLast, serviceRest
<1> QED BY <1>1, <1>2, <1>3, <1>4, <1>5, <1>6, <1>7, <1>8, <1>9, <1>10, <1>11, <1>12, <1>13,
           <1>14, <1>15, <1>16, <1>18, <1>19, Zenon DEF Next, Waiter, Sends

(* No mark outlives the wait it was set for, however the senders and the   *)
(* handler interleave with the wait, as long as no wait publishes a flag   *)
(* (signal.c:466): a futex wait that its flag interrupts leaves its mark.  *)
THEOREM PlainMarksAreSpent ==
    ASSUME WaitForConstants, Kinds \subseteq {"plain", "ignore"} PROVE Spec => []MarkIsSpent
<1>1. Init => WaitInv /\ PlainMarks
  BY WaitStarts, Zenon
<1>2. WaitInv /\ PlainMarks /\ [Next]_vars => (WaitInv /\ PlainMarks)'
  BY WaitKeeps, MarksKept, Zenon
<1>3. PlainMarks => MarkIsSpent
  BY Zenon DEF PlainMarks, MarkIsSpent, Published
<1> QED BY <1>1, <1>2, <1>3, PTL DEF Spec

----------------------------------------------------------------------------
(* The locks are taken in an order: wake_lock, the waiter's, and           *)
(* waiting_cond_lock, whose holder waits for nothing.                      *)
LEMMA NobodyInACircle ==
    ASSUME WaitForConstants, Holding = {}, WaitInv, NEW C \in SUBSET (Sender \cup {"waiter"}),
           \A a \in C : Awaits(a) \in C
    PROVE  C = {}
<1> USE DEF WaitForConstants
<1>0. Types /\ WaiterHolds /\ (\A s \in Sender : SenderHolds(s)) /\ None \notin C
  BY Zenon DEF WaitInv, LocksHeld
<1>1. ASSUME NEW s \in Sender, spc[s] = "try" PROVE s \notin C
  BY <1>0, <1>1, Zenon DEF Awaits
<1>2. cond_lock \notin C
  BY <1>0, <1>1, Zenon DEF Types, SenderHolds
<1>3. ASSUME NEW s \in Sender, spc[s] \in {"record", "again"} PROVE s \notin C
  BY <1>2, <1>3, Zenon DEF Awaits
<1>4. ASSUME NEW s \in Sender, lock = s PROVE s \notin C
  BY <1>0, <1>3, <1>4, Zenon DEF SenderHolds
<1>5. "waiter" \notin C
  BY <1>0, <1>2, <1>4, Zenon DEF Awaits, WaiterHolds, Types
<1>6. lock \notin C
  BY <1>0, <1>4, <1>5, Zenon DEF Types
<1>7. ASSUME NEW s \in Sender, spc[s] = "block" PROVE s \notin C
  BY <1>6, <1>7, Zenon DEF Awaits
<1>8. wake_lock \notin C
  BY <1>0, <1>1, <1>3, <1>7, Zenon DEF Types, SenderHolds, Through
<1>9. ASSUME NEW s \in Sender, spc[s] = "queued" PROVE s \notin C
  BY <1>8, <1>9, Zenon DEF Awaits
<1>10. ASSUME NEW s \in Sender, spc[s] \in {"idle", "held"} PROVE s \notin C
  BY <1>0, <1>10, Zenon DEF Awaits
<1> QED BY <1>0, <1>1, <1>3, <1>5, <1>7, <1>9, <1>10 DEF Types, Through

(* However many senders there are, the waiter and they are never blocked   *)
(* on each other in a circle, as long as no sender comes with the waiter's *)
(* lock in hand (signal.c:529, 918).                                       *)
THEOREM NoCircleWithoutTheLock ==
    ASSUME WaitForConstants, Holding = {} PROVE Spec => []NoCircularWait
<1>1. ASSUME WaitInv, NEW C \in SUBSET (Sender \cup {"waiter"}), C # {}
      PROVE  \E a \in C : Awaits(a) \notin C
  BY <1>1, NobodyInACircle, Zenon
<1>2. WaitInv => NoCircularWait
  BY <1>1, Zenon DEF NoCircularWait
<1> QED BY <1>2, WaitHolds, PTL

----------------------------------------------------------------------------
(* A call that runs is not among those a notify still has to reach. *)
EventfdInv == E!TypeOK /\ E!WakeNotLost

LEMMA EventfdStarts == ASSUME E!EventfdConstants, E!Init PROVE EventfdInv
BY DEF E!EventfdConstants, E!Init, EventfdInv, E!TypeOK, E!WakeNotLost, E!Asleep

(* eventfd_read's taking the value keeps the counter below UINT64_MAX and  *)
(* leaves every other sleeper woken (eventfd.c:44).                        *)
LEMMA EventfdTakeKeeps ==
    ASSUME E!EventfdConstants, NEW t \in Thread, EventfdInv, E!Take(t)
    PROVE  EventfdInv'
<1> USE DEF E!EventfdConstants
<1>1. val' \in 0 .. MaxVal - 1
  <2>1. val \in 0 .. MaxVal - 1 /\ val > 0
    BY DEF EventfdInv, E!TypeOK, E!Take, E!CanRead
  <2>2. val - 1 \in 0 .. MaxVal - 1 /\ (val - 1) % E!Modulus = val - 1
    BY <2>1 DEF E!Modulus
  <2> QED BY <2>1, <2>2 DEF E!Take
<1>2. asleep' \in [Thread -> {"no", "read", "write"}] /\ inc' \in [Thread -> Increment \cup {0}]
  BY DEF EventfdInv, E!TypeOK, E!Take, E!Awake
<1>3. E!Asleep' = E!Asleep \ {t} /\ woken' = E!Asleep \ {t}
  BY DEF EventfdInv, E!TypeOK, E!Take, E!Awake, E!Notify, E!Asleep
<1> QED BY <1>1, <1>2, <1>3 DEF EventfdInv, E!TypeOK, E!WakeNotLost

(* eventfd_write adds only what fits, so the sum does not wrap             *)
(* (eventfd.c:66, 78).                                                     *)
LEMMA EventfdAddKeeps ==
    ASSUME E!EventfdConstants, NEW t \in Thread, NEW i \in Increment \cup {0}, EventfdInv,
           E!Add(t, i)
    PROVE  EventfdInv'
<1> USE DEF E!EventfdConstants
<1>1. val' \in 0 .. MaxVal - 1
  <2>1. val \in 0 .. MaxVal - 1 /\ i \in 0 .. MaxVal /\ val < MaxVal - i
    BY DEF EventfdInv, E!TypeOK, E!Add, E!CanWrite
  <2>2. val + i \in 0 .. MaxVal - 1 /\ (val + i) % E!Modulus = val + i
    BY <2>1 DEF E!Modulus
  <2> QED BY <2>2 DEF E!Add
<1>2. asleep' \in [Thread -> {"no", "read", "write"}] /\ inc' \in [Thread -> Increment \cup {0}]
  BY DEF EventfdInv, E!TypeOK, E!Add, E!Awake
<1>3. E!Asleep' = E!Asleep \ {t} /\ woken' = E!Asleep \ {t}
  BY DEF EventfdInv, E!TypeOK, E!Add, E!Awake, E!Notify, E!Asleep
<1> QED BY <1>1, <1>2, <1>3 DEF EventfdInv, E!TypeOK, E!WakeNotLost

(* A thread goes to sleep only on a condition that is false. *)
LEMMA EventfdSleepKeeps ==
    ASSUME NEW t \in Thread, NEW why \in {"read", "write"}, NEW i \in Increment \cup {0},
           EventfdInv, E!Sleep(t, why, i), IF why = "read" THEN ~ E!CanRead ELSE ~ E!CanWrite(i)
    PROVE  EventfdInv'
<1>1. E!TypeOK'
  BY DEF EventfdInv, E!TypeOK, E!Sleep, E!Asleep
<1>2. ASSUME NEW u \in (E!Asleep \ woken)' PROVE ~ E!Ready(u)'
  <2>1. CASE u = t
    BY <2>1 DEF EventfdInv, E!TypeOK, E!Sleep, E!Ready, E!CanRead, E!CanWrite
  <2>2. CASE u # t
    <3>1. u \in E!Asleep \ woken /\ asleep'[u] = asleep[u] /\ inc'[u] = inc[u]
      BY <1>2, <2>2 DEF EventfdInv, E!TypeOK, E!Sleep, E!Asleep
    <3> QED BY <3>1 DEF EventfdInv, E!WakeNotLost, E!Sleep, E!Ready, E!CanRead, E!CanWrite
  <2> QED BY <2>1, <2>2
<1> QED BY <1>1, <1>2 DEF EventfdInv, E!WakeNotLost

LEMMA EventfdInterruptKeeps == ASSUME NEW t \in Thread, EventfdInv, E!Interrupt(t) PROVE EventfdInv'
<1>1. E!TypeOK'
  BY DEF EventfdInv, E!TypeOK, E!Interrupt, E!Awake, E!Asleep
<1>2. ASSUME NEW u \in (E!Asleep \ woken)' PROVE ~ E!Ready(u)'
  <2>1. u \in E!Asleep \ woken /\ asleep'[u] = asleep[u] /\ inc'[u] = inc[u]
    BY <1>2 DEF EventfdInv, E!TypeOK, E!Interrupt, E!Awake, E!Asleep
  <2> QED BY <2>1 DEF EventfdInv, E!WakeNotLost, E!Interrupt, E!Ready, E!CanRead, E!CanWrite
<1> QED BY <1>1, <1>2 DEF EventfdInv, E!WakeNotLost

LEMMA EventfdNextKeeps ==
    ASSUME E!EventfdConstants, EventfdInv, [E!Next]_eventfdVars PROVE EventfdInv'
<1>1. CASE UNCHANGED eventfdVars
  BY <1>1 DEF eventfdVars, EventfdInv, E!TypeOK, E!WakeNotLost, E!Asleep, E!Ready, E!CanRead, E!CanWrite
<1>2. ASSUME NEW t \in Thread, E!Read(t) PROVE EventfdInv'
  BY <1>2, EventfdTakeKeeps, EventfdSleepKeeps DEF E!Read
<1>3. ASSUME NEW t \in Thread, E!Write(t) PROVE EventfdInv'
  BY <1>3, EventfdAddKeeps, EventfdSleepKeeps DEF E!Write
<1>4. ASSUME NEW t \in Thread, E!Resume(t) PROVE EventfdInv'
  <2>1. inc[t] \in Increment \cup {0} /\ asleep[t] \in {"no", "read", "write"}
    BY DEF EventfdInv, E!TypeOK
  <2>2. CASE asleep[t] = "read" /\ E!Take(t)
    BY <2>2, EventfdTakeKeeps
  <2>3. CASE asleep[t] = "write" /\ E!Add(t, inc[t])
    BY <2>1, <2>3, EventfdAddKeeps
  <2>4. CASE t \in E!Asleep /\ ~ E!Ready(t) /\ E!Sleep(t, asleep[t], inc[t])
    BY <2>1, <2>4, EventfdSleepKeeps DEF E!Asleep, E!Ready
  <2> QED BY <1>4, <2>2, <2>3, <2>4 DEF E!Resume
<1>5. ASSUME NEW t \in Thread, E!Interrupt(t) PROVE EventfdInv'
  BY <1>5, EventfdInterruptKeeps
<1> QED BY <1>1, <1>2, <1>3, <1>4, <1>5 DEF E!Next

(* The counter of an eventfd stays below UINT64_MAX: no write overflows it *)
(* and no read takes it below zero, in either mode.                        *)
THEOREM CounterInRange == ASSUME E!EventfdConstants PROVE E!Spec => []E!TypeOK
<1>1. E!Init => EventfdInv
  BY EventfdStarts
<1>2. EventfdInv /\ [E!Next]_eventfdVars => EventfdInv'
  BY EventfdNextKeeps
<1>3. EventfdInv => E!TypeOK
  BY DEF EventfdInv
<1> QED BY <1>1, <1>2, <1>3, PTL DEF E!Spec, E!vars, eventfdVars

(* No reader and no writer of an eventfd sleeps through the change it      *)
(* waits for.                                                              *)
THEOREM NoEventfdWakeIsLost == ASSUME E!EventfdConstants PROVE E!Spec => []E!WakeNotLost
<1>1. E!Init => EventfdInv
  BY EventfdStarts
<1>2. EventfdInv /\ [E!Next]_eventfdVars => EventfdInv'
  BY EventfdNextKeeps
<1>3. EventfdInv => E!WakeNotLost
  BY DEF EventfdInv
<1> QED BY <1>1, <1>2, <1>3, PTL DEF E!Spec, E!vars, eventfdVars

----------------------------------------------------------------------------
Calls == {Returned} \cup [on : {TRUE}, fd : Fd, type : FlockType, asleep : BOOLEAN]

(* The parts of the invariant, of any list of locks and any calls. *)
Excludes(L) == \A k, l \in L : k.owner # l.owner => k.type = "shared"
Live(L, o, c) == \A l \in L : l.owner \in o \/ \E t \in Caller : c[t].on /\ c[t].fd = l.owner
Told(L, c) ==
    \A t \in Caller : c[t].on /\ c[t].asleep =>
        Conflicts(L, [owner |-> c[t].fd, type |-> c[t].type])

FlockGood(L, o, c) ==
    /\ L \subseteq FlockLocks /\ o \subseteq Fd /\ c \in [Caller -> Calls]
    /\ Excludes(L) /\ Live(L, o, c) /\ Told(L, c)

FlockInv == FlockGood(flock_locks, open, flock_call)

LEMMA FlockInvMeans == FlockInv <=> FlockTypeOK /\ FlockExclusive /\ OwnersLive /\ FlockWakeNotLost
BY Zenon
   DEF FlockInv, FlockGood, Excludes, Live, Told, FlockTypeOK, FlockExclusive, OwnersLive,
       FlockWakeNotLost, InCall, Calls

(* A thread that is in a call has its arguments there. *)
LEMMA InCallType ==
    ASSUME NEW r \in Calls, r.on PROVE r.fd \in Fd /\ r.type \in FlockType
<1>1. r # Returned
  BY DEF Returned
<1> QED BY <1>1, Zenon DEF Calls

(* Notify changes only who is asleep. *)
LEMMA NotifyFacts ==
    ASSUME NEW c \in [Caller -> Calls]
    PROVE  /\ NotifyAll(c) \in [Caller -> Calls]
           /\ \A t \in Caller : /\ NotifyAll(c)[t].on = c[t].on
                                /\ c[t].on => NotifyAll(c)[t].fd = c[t].fd
                                /\ ~ (NotifyAll(c)[t].on /\ NotifyAll(c)[t].asleep)
<1>1. ASSUME NEW t \in Caller
      PROVE  /\ NotifyAll(c)[t] \in Calls /\ NotifyAll(c)[t].on = c[t].on
             /\ c[t].on => NotifyAll(c)[t].fd = c[t].fd
             /\ ~ (NotifyAll(c)[t].on /\ NotifyAll(c)[t].asleep)
  <2>1. CASE c[t] = Returned
    <3>1. NotifyAll(c)[t] = Returned /\ ~ Returned.on
      BY <2>1, Zenon DEF NotifyAll, Returned
    <3> QED BY <2>1, <3>1, Zenon DEF Calls
  <2>2. CASE c[t] \in [on : {TRUE}, fd : Fd, type : FlockType, asleep : BOOLEAN]
    <3>1. NotifyAll(c)[t] = [c[t] EXCEPT !.asleep = FALSE] /\ c[t].on = TRUE
      BY <2>2, Zenon DEF NotifyAll
    <3> QED BY <2>2, <3>1, Zenon DEF Calls
  <2> QED BY <2>1, <2>2, Zenon DEF Calls
<1>2. NotifyAll(c) = [t \in Caller |-> NotifyAll(c)[t]]
  BY Zenon DEF NotifyAll
<1> QED BY <1>1, <1>2, Zenon

(* Removing the locks of f, whatever they are, breaks nothing (lock.c:409, *)
(* lock.c:496).                                                            *)
LEMMA RemovedGood ==
    ASSUME NEW L, NEW o, NEW c, NEW f \in Fd, FlockGood(L, o, c)
    PROVE  FlockGood(L \ Owned(f, L), o, Removed(f, L, c))
<1>1. CASE Owned(f, L) = {}
  <2>1. L \ Owned(f, L) = L /\ Removed(f, L, c) = c
    BY <1>1, Zenon DEF Removed
  <2> QED BY <2>1, Zenon
<1>2. CASE Owned(f, L) # {}
  <2>1. Removed(f, L, c) = NotifyAll(c) /\ c \in [Caller -> Calls]
    BY <1>2, Zenon DEF Removed, FlockGood
  <2>2. Live(L \ Owned(f, L), o, NotifyAll(c)) /\ Told(L \ Owned(f, L), NotifyAll(c))
    BY <2>1, NotifyFacts DEF FlockGood, Live, Told
  <2> QED BY <2>1, <2>2, NotifyFacts, Zenon DEF FlockGood, Excludes
<1> QED BY <1>1, <1>2, Zenon
(* A lock that does not conflict with the others may be added, if its      *)
(* owner is there (lock.c:466).                                            *)
LEMMA AddedGood ==
    ASSUME NEW L, NEW o, NEW c, NEW f \in Fd, NEW ty \in FlockType, FlockGood(L, o, c),
           ~ Conflicts(L, [owner |-> f, type |-> ty]),
           f \in o \/ \E t \in Caller : c[t].on /\ c[t].fd = f
    PROVE  FlockGood(L \cup {[owner |-> f, type |-> ty]}, o, c)
<1> DEFINE l == [owner |-> f, type |-> ty]
           M == L \cup {l}
<1>1. l \in FlockLocks /\ l.owner = f /\ l.type = ty
  BY Zenon DEF FlockLocks
<1>2. Excludes(M)
  <2>1. \A k \in L : k.owner # l.owner => k.type # "exclusive" /\ l.type # "exclusive"
    BY Zenon DEF Conflicts, flock_locks_conflict
  <2>2. \A k \in M : k.type \in FlockType
    BY <1>1, Zenon DEF FlockGood, FlockLocks
  <2> QED BY <1>1, <2>1, <2>2 DEF FlockGood, Excludes, FlockType
<1>3. Live(M, o, c)
  BY <1>1, Zenon DEF FlockGood, Live
<1>4. Told(M, c)
  BY Zenon DEF FlockGood, Told, Conflicts
<1> QED BY <1>1, <1>2, <1>3, <1>4, Zenon DEF FlockGood

(* t's call of f ends, where f's own locks need not have an owner but for  *)
(* the flock_call: whatever the last reference leaves behind goes with it        *)
(* (sys_flock, fs.c:2769).                                                 *)
LEMMA ReturnGood ==
    ASSUME NEW L, NEW c, NEW t \in Caller, NEW f \in Fd, FlockGood(L, open, c),
           c[t].on => c[t].fd = f, FlockReturn(t, f, L, c), UNCHANGED open
    PROVE  FlockInv'
<1> DEFINE d == [c EXCEPT ![t] = Returned]
           Mine == {l \in L : l.owner = f}
<1>1. d \in [Caller -> Calls] /\ d[t] = Returned /\ ~ d[t].on
  BY Zenon DEF FlockGood, Calls, Returned
<1>2. \A u \in Caller \ {t} : d[u] = c[u]
  BY Zenon DEF FlockGood
<1>3. Told(L, d)
  BY <1>1, <1>2, Zenon DEF FlockGood, Told
<1>4. Live(L \ Mine, open, d)
  BY <1>1, <1>2, Zenon DEF FlockGood, Live
<1>5. CASE Referenced(f, d)
  <2>1. Live(L, open, d)
    BY <1>4, <1>5, Zenon DEF Live, Referenced
  <2>2. flock_locks' = L /\ flock_call' = d
    BY <1>5, Zenon DEF FlockReturn
  <2> QED BY <1>1, <1>3, <2>1, <2>2, Zenon DEF FlockInv, FlockGood
<1>6. CASE ~ Referenced(f, d)
  <2>1. flock_locks' = L \ Owned(f, L) /\ flock_call' = Removed(f, L, d)
    BY <1>6, Zenon DEF FlockReturn
  <2>2. Owned(f, L) = Mine
    BY Zenon DEF Owned
  <2>3. CASE Mine = {}
    <3>1. flock_locks' = L /\ flock_call' = d /\ L \ Mine = L
      BY <2>1, <2>2, <2>3, Zenon DEF Removed
    <3> QED BY <1>1, <1>3, <1>4, <3>1, Zenon DEF FlockInv, FlockGood
  <2>4. CASE Mine # {}
    <3>1. flock_locks' = L \ Mine /\ flock_call' = NotifyAll(d)
      BY <2>1, <2>2, <2>4, Zenon DEF Removed
    <3>2. \A u \in Caller : /\ NotifyAll(d)[u].on = d[u].on
                            /\ d[u].on => NotifyAll(d)[u].fd = d[u].fd
                            /\ ~ (NotifyAll(d)[u].on /\ NotifyAll(d)[u].asleep)
      BY <1>1, NotifyFacts, Zenon
    <3> HIDE DEF d, Mine
    <3>3. Live(L \ Mine, open, NotifyAll(d)) /\ Told(L \ Mine, NotifyAll(d))
      BY <1>4, <3>2 DEF Live, Told
    <3> QED BY <1>1, <3>1, <3>3, NotifyFacts, Zenon DEF FlockInv, FlockGood, Excludes
  <2> QED BY <2>3, <2>4, Zenon
<1> QED BY <1>5, <1>6, Zenon

(* One turn of the loop of flock_lock, with L the locks and c the calls. *)
LEMMA AttemptGood ==
    ASSUME NEW L, NEW c, NEW t \in Caller, NEW f \in Fd, NEW ty \in FlockType, NEW nb \in BOOLEAN,
           FlockGood(L, open, c), c[t].on => c[t].fd = f, f \in open \/ c[t].on,
           Attempt(t, f, ty, nb, L, c), UNCHANGED open
    PROVE  FlockInv'
<1> DEFINE l == [owner |-> f, type |-> ty]
<1>1. CASE ~ Conflicts(L, l)
  <2>1. FlockReturn(t, f, L \cup {l}, c)
    BY <1>1, Zenon DEF Attempt
  <2>2. FlockGood(L \cup {l}, open, c)
    BY <1>1, AddedGood, Zenon
  <2> QED BY <2>1, <2>2, ReturnGood, Zenon
<1>2. CASE Conflicts(L, l) /\ nb
  <2>1. FlockReturn(t, f, L, c)
    BY <1>2, Zenon DEF Attempt
  <2> QED BY <2>1, ReturnGood, Zenon
<1>3. CASE Conflicts(L, l) /\ ~ nb
  <2> DEFINE r == [on |-> TRUE, fd |-> f, type |-> ty, asleep |-> TRUE]
  <2>1. flock_locks' = L /\ flock_call' = [c EXCEPT ![t] = r]
    BY <1>3, Zenon DEF Attempt
  <2>2. r \in Calls /\ flock_call' \in [Caller -> Calls] /\ flock_call'[t] = r
    BY <2>1, Zenon DEF FlockGood, Calls
  <2>3. \A u \in Caller \ {t} : flock_call'[u] = c[u]
    BY <2>1, Zenon DEF FlockGood
  <2>4. Live(L, open, flock_call')
    BY <2>2, <2>3 DEF FlockGood, Live
  <2>5. Told(L, flock_call')
    <3>1. r.fd = f /\ r.type = ty
      BY Zenon
    <3> QED BY <1>3, <2>2, <2>3, <3>1 DEF FlockGood, Told
  <2> QED BY <2>1, <2>2, <2>4, <2>5, Zenon DEF FlockInv, FlockGood
<1> QED BY <1>1, <1>2, <1>3, Zenon

LEMMA FlockStarts == FlockInit => FlockInv
BY DEF FlockInit, FlockInv, FlockGood, Calls, Returned, Excludes, Live, Told

LEMMA FlockNextKeeps == FlockInv /\ [FlockNext]_flockVars => FlockInv'
<1> SUFFICES ASSUME FlockInv, [FlockNext]_flockVars PROVE FlockInv'
  BY Zenon
<1>0. flock_call \in [Caller -> Calls] /\ FlockGood(flock_locks, open, flock_call)
  BY Zenon DEF FlockInv, FlockGood
<1>1. CASE UNCHANGED flockVars
  BY <1>1, Zenon DEF flockVars, FlockInv, FlockGood, Excludes, Live, Told, Conflicts
<1>2. ASSUME NEW f \in Fd, Open(f) PROVE FlockInv'
  BY <1>2, Zenon DEF Open, FlockInv, FlockGood, Live
<1>3. ASSUME NEW f \in Fd, Close(f) PROVE FlockInv'
  <2>1. open' = open \ {f}
    BY <1>3, Zenon DEF Close
  <2>2. CASE InCall(f) = {}
    <3> DEFINE L == flock_locks \ Owned(f, flock_locks)
               c == Removed(f, flock_locks, flock_call)
    <3>1. flock_locks' = L /\ flock_call' = c
      BY <1>3, <2>2, Zenon DEF Close, Release
    <3>2. FlockGood(L, open, c)
      BY <1>0, RemovedGood, Zenon
    <3>3. Live(L, open \ {f}, c)
      BY <3>2, Zenon DEF FlockGood, Live, Owned
    <3> QED BY <2>1, <3>1, <3>2, <3>3, Zenon DEF FlockInv, FlockGood
  <2>3. CASE InCall(f) # {}
    <3>1. flock_locks' = flock_locks /\ flock_call' = flock_call
      BY <1>3, <2>3, Zenon DEF Close
    <3>2. Live(flock_locks, open \ {f}, flock_call)
      BY <1>0, <2>3, Zenon DEF FlockGood, Live, InCall
    <3> QED BY <1>0, <2>1, <3>1, <3>2, Zenon DEF FlockInv, FlockGood
  <2> QED BY <2>2, <2>3, Zenon
<1>4. ASSUME NEW t \in Caller, WaitReturns(t) PROVE FlockInv'
  <2>1. flock_call[t].on /\ flock_call[t].fd \in Fd /\ flock_call[t].type \in FlockType
    BY <1>0, <1>4, InCallType, Zenon DEF WaitReturns
  <2> QED BY <1>0, <1>4, <2>1, AttemptGood, Zenon DEF WaitReturns
<1>5. ASSUME NEW t \in Caller, Interrupt(t) PROVE FlockInv'
  <2>1. flock_call[t].fd \in Fd
    BY <1>0, <1>5, InCallType, Zenon DEF Interrupt
  <2> QED BY <1>0, <1>5, <2>1, ReturnGood, Zenon DEF Interrupt
<1>6. ASSUME NEW t \in Caller, NEW f \in Fd, LockUn(t, f) PROVE FlockInv'
  <2>1. FlockGood(flock_locks', open, flock_call')
    BY <1>0, <1>6, RemovedGood, Zenon DEF LockUn, Release
  <2> QED BY <1>6, <2>1, Zenon DEF LockUn, FlockInv
<1>7. ASSUME NEW t \in Caller, NEW f \in Fd, NEW ty \in FlockType, NEW nb \in BOOLEAN,
             flock_lock(t, f, ty, nb)
      PROVE  FlockInv'
  <2> DEFINE L == flock_locks \ Owned(f, flock_locks)
             c == Removed(f, flock_locks, flock_call)
  <2>1. FlockGood(L, open, c)
    BY <1>0, RemovedGood, Zenon
  <2>2. ~ c[t].on
    BY <1>0, <1>7, NotifyFacts, Zenon DEF flock_lock, Removed
  <2>3. f \in open /\ Attempt(t, f, ty, nb, L, c) /\ UNCHANGED open
    BY <1>7, Zenon DEF flock_lock
  <2> QED BY <2>1, <2>2, <2>3, AttemptGood, Zenon
<1> QED BY <1>1, <1>2, <1>3, <1>4, <1>5, <1>6, <1>7, Zenon DEF FlockNext

(* Whoever has a file locked exclusively is alone with it: locks of two    *)
(* descriptions are both shared (flock_lock).                              *)
THEOREM ExclusiveExcludes == FlockSpec => []FlockExclusive
<1>1. FlockInv => FlockExclusive
  BY FlockInvMeans, Zenon
<1> QED BY <1>1, FlockStarts, FlockNextKeeps, PTL DEF FlockSpec

(* No lock outlives its description, though a descriptor is closed while   *)
(* other threads wait with it (sys_flock, flock_remove_owned_by).          *)
THEOREM OwnersAreThere == FlockSpec => []OwnersLive
<1>1. FlockInv => OwnersLive
  BY FlockInvMeans, Zenon
<1> QED BY <1>1, FlockStarts, FlockNextKeeps, PTL DEF FlockSpec

(* Nobody sleeps in flock_lock with no lock in their way. *)
THEOREM NoFlockWakeIsLost == FlockSpec => []FlockWakeNotLost
<1>1. FlockInv => FlockWakeNotLost
  BY FlockInvMeans, Zenon
<1> QED BY <1>1, FlockStarts, FlockNextKeeps, PTL DEF FlockSpec
----------------------------------------------------------------------------
(* The robust lists: the types.                                            *)
RPlaces == [pc : GuestPlaces \cup ExitPlaces, lock : Lock \cup {Nobody}, slept : BOOLEAN,
            saw : Words]
Walks == [entry : Thread \cup Lock \cup {Nobody}, next : Thread \cup Lock \cup {Nobody},
          seen : Words, limit : Int, last : BOOLEAN]

RVars ==
    /\ word \in [Lock -> Words] /\ link \in [Thread \cup Lock -> Thread \cup Lock]
    /\ list_op_pending \in [Thread -> Lock \cup {Nobody}] /\ at \in [Thread -> RPlaces]
    /\ walk \in [Thread -> Walks] /\ dirty \subseteq Lock
    /\ faulted \in [Thread -> SUBSET Lock]
RTypes == RVars /\ queue \in [Lock -> Seq(Thread)]

(* What thread t is about: the lock it is at is one; the word it is to     *)
(* release or to mark is its own; and of the entry its walk ends with.     *)
AtLock(t) ==
    at[t].pc \in {"try", "wait", "queued", "link", "unlock", "wake"} => at[t].lock \in Lock
OwnsIts(t) ==
    /\ at[t].pc = "unlock" => word[at[t].lock].owner = t
    /\ at[t].pc \in {"mark", "wake one"} => walk[t].entry \in Lock
    /\ at[t].pc = "mark" => word[walk[t].entry].owner = t
Spared(t) ==
    list_op_pending[t] # Nobody =>
        word[list_op_pending[t]].owner # t \/ list_op_pending[t] \in faulted[t]
EndsWithPending(t) ==
    /\ at[t].pc = "walk" => ~ walk[t].last
    /\ at[t].pc \in {"mark", "wake one"} /\ walk[t].last => walk[t].entry = list_op_pending[t]
    /\ at[t].pc = "wake one" => word[walk[t].entry].owner # t
    /\ at[t].pc \in {"mark", "wake one"} /\ ~ walk[t].last /\ walk[t].next = Nobody => Spared(t)
    /\ at[t].pc = "dead" => Spared(t)
Onward(t) == at[t].pc = "walk" => walk[t].entry \in Thread \cup Lock
Mine(t) == AtLock(t) /\ OwnsIts(t) /\ EndsWithPending(t) /\ Onward(t)

(* Who is on a queue is asleep on that word. *)
QueueOf(l) ==
    /\ Distinct(queue[l])
    /\ \A t : OnList(queue[l], t) => t \in Thread /\ at[t].pc = "queued" /\ at[t].lock = l

(* What a word and the history say of its last owner's death. *)
DeathOf(l) ==
    /\ word[l].owner = Nobody => (word[l].died <=> l \in dirty)
    /\ \A t \in Thread : word[l].owner = t => (l \in dirty <=> at[t].pc \in ExitPlaces)

RInv ==
    /\ RTypes /\ \A t \in Thread : Mine(t)
    /\ \A l \in Lock : QueueOf(l) /\ DeathOf(l)

----------------------------------------------------------------------------
(* What a step of t may do to the other threads: nothing, but for a waiter *)
(* that is woken; and no word begins or ceases to be one of theirs.        *)
Others(t) ==
    \A u \in Thread \ {t} :
        /\ list_op_pending'[u] = list_op_pending[u] /\ walk'[u] = walk[u] /\ faulted'[u] = faulted[u]
        /\ at'[u] = at[u] \/ (at[u].pc = "queued" /\ at'[u].pc = "try" /\ at'[u].lock = at[u].lock)
        /\ \A l \in Lock : word'[l].owner = u <=> word[l].owner = u

LEMMA OthersMine ==
    ASSUME RInv, NEW t \in Thread, Others(t), NEW u \in Thread \ {t}
    PROVE  Mine(u)'
<1>0. Mine(u) /\ u \in Thread /\ list_op_pending[u] \in Lock \cup {Nobody}
  BY Zenon DEF RInv, RTypes, RVars
<1>1. list_op_pending'[u] = list_op_pending[u] /\ walk'[u] = walk[u] /\ faulted'[u] = faulted[u]
  BY Zenon DEF Others
<1>2. \A l \in Lock : word'[l].owner = u <=> word[l].owner = u
  BY Zenon DEF Others
<1>3. CASE at'[u] = at[u]
  <2>1. AtLock(u)'
    BY <1>0, <1>3, Zenon DEF Mine, AtLock
  <2>2. OwnsIts(u)'
    BY <1>0, <1>1, <1>2, <1>3, Zenon DEF Mine, AtLock, OwnsIts
  <2>3. EndsWithPending(u)'
    <3>1. Spared(u) => Spared(u)'
      <4> DEFINE p == list_op_pending[u]
      <4>1. p # Nobody => (word'[p].owner = u <=> word[p].owner = u)
        BY <1>0, <1>2, Zenon
      <4> HIDE DEF p
      <4>2. Spared(u)' <=> (p # Nobody => word'[p].owner # u \/ p \in faulted[u])
        BY <1>1, Zenon DEF Spared, p
      <4>3. Spared(u) <=> (p # Nobody => word[p].owner # u \/ p \in faulted[u])
        BY Zenon DEF Spared, p
      <4> QED BY <4>1, <4>2, <4>3, Zenon
    <3>2. at'[u].pc = "wake one" => word'[walk'[u].entry].owner # u
      BY <1>0, <1>1, <1>2, <1>3, Zenon DEF Mine, OwnsIts, EndsWithPending
    <3>3. /\ at'[u].pc = "walk" => ~ walk'[u].last
          /\ at'[u].pc \in {"mark", "wake one"} /\ walk'[u].last => walk'[u].entry = list_op_pending'[u]
      BY <1>0, <1>1, <1>3, Zenon DEF Mine, EndsWithPending
    <3>4. /\ at'[u].pc \in {"mark", "wake one"} /\ ~ walk'[u].last /\ walk'[u].next = Nobody => Spared(u)'
          /\ at'[u].pc = "dead" => Spared(u)'
      BY <1>0, <1>1, <1>3, <3>1, Zenon DEF Mine, EndsWithPending
    <3> QED BY <3>2, <3>3, <3>4, Zenon DEF EndsWithPending
  <2>4. Onward(u)'
    BY <1>0, <1>1, <1>3, Zenon DEF Mine, Onward
  <2> QED BY <2>1, <2>2, <2>3, <2>4, Zenon DEF Mine
<1>4. CASE at[u].pc = "queued" /\ at'[u].pc = "try" /\ at'[u].lock = at[u].lock
  BY <1>0, <1>4, Zenon DEF Mine, AtLock, OwnsIts, EndsWithPending, Onward
<1> QED BY <1>3, <1>4, Zenon DEF Others

(* What a step of t does to the words and to what is told of deaths.       *)
Stays(t) == at'[t].pc \in ExitPlaces <=> at[t].pc \in ExitPlaces
SameWord(l) == word'[l].owner = word[l].owner /\ word'[l].died = word[l].died
NoWord(t) == Stays(t) /\ dirty' = dirty /\ \A l \in Lock : SameWord(l)
Takes(t, l) ==
    /\ ~ (at[t].pc \in ExitPlaces) /\ Stays(t) /\ dirty' = dirty \ {l} /\ word[l].owner = Nobody
    /\ word'[l].owner = t /\ \A k \in Lock \ {l} : SameWord(k)
Gives(t, l) ==
    /\ Stays(t) /\ dirty' = dirty
    /\ word[l].owner = t /\ word'[l].owner = Nobody
    /\ word'[l].died <=> at[t].pc \in ExitPlaces
    /\ \A k \in Lock \ {l} : SameWord(k)
Ends(t) ==
    /\ ~ (at[t].pc \in ExitPlaces) /\ at'[t].pc \in ExitPlaces
    /\ dirty' = dirty \cup {l \in Lock : word[l].owner = t} /\ word' = word
Deaths(t) == NoWord(t) \/ (\E l \in Lock : Takes(t, l) \/ Gives(t, l)) \/ Ends(t)

(* Nobody else starts or stops dying. *)
LEMMA OthersStay ==
    ASSUME NEW t \in Thread, Others(t), NEW u \in Thread \ {t}
    PROVE  at'[u].pc \in ExitPlaces <=> at[u].pc \in ExitPlaces
BY Zenon DEF Others, ExitPlaces

LEMMA DeathsKept ==
    ASSUME RobustListConstants, RInv, NEW t \in Thread, Others(t), Deaths(t), NEW l \in Lock
    PROVE  DeathOf(l)'
<1>0. DeathOf(l) /\ t # Nobody
  BY Zenon DEF RInv, RobustListConstants
<1>1. \A u \in Thread \ {t} : at'[u].pc \in ExitPlaces <=> at[u].pc \in ExitPlaces
  BY OthersStay, Zenon
<1>2. CASE NoWord(t)
  BY <1>0, <1>1, <1>2, Zenon DEF NoWord, Stays, SameWord, DeathOf
<1>3. ASSUME NEW k \in Lock, Takes(t, k) PROVE DeathOf(l)'
  <2>1. CASE l = k
    BY <1>0, <1>1, <1>3, <2>1, Zenon DEF Takes, Stays, DeathOf
  <2>2. CASE l # k
    BY <1>0, <1>1, <1>3, <2>2, Zenon DEF Takes, Stays, SameWord, DeathOf
  <2> QED BY <2>1, <2>2, Zenon
<1>4. ASSUME NEW k \in Lock, Gives(t, k) PROVE DeathOf(l)'
  <2>1. CASE l = k
    <3>1. word'[l].owner = Nobody /\ (word'[l].died <=> at[t].pc \in ExitPlaces)
      BY <1>4, <2>1, Zenon DEF Gives
    <3>2. l \in dirty' <=> at[t].pc \in ExitPlaces
      BY <1>0, <1>4, <2>1, Zenon DEF Gives, DeathOf
    <3>3. Nobody \notin Thread
      BY Zenon DEF RobustListConstants
    <3> QED BY <3>1, <3>2, <3>3, Zenon DEF DeathOf
  <2>2. CASE l # k
    BY <1>0, <1>1, <1>4, <2>2, Zenon DEF Gives, Stays, SameWord, DeathOf
  <2> QED BY <2>1, <2>2, Zenon
<1>5. CASE Ends(t)
  BY <1>0, <1>1, <1>5, Zenon DEF Ends, DeathOf
<1> QED BY <1>2, <1>3, <1>4, <1>5, Zenon DEF Deaths

(* What a step of t does to the queues.                                    *)
Asleep(u) == at[u].pc = "queued" => at'[u].pc = "queued" /\ at'[u].lock = at[u].lock
QSame == queue' = queue /\ \A u \in Thread : Asleep(u)
QAdd(t, l) ==
    /\ at[t].pc # "queued" /\ at'[t].pc = "queued" /\ at'[t].lock = l
    /\ queue' = [queue EXCEPT ![l] = ListAddTail(queue[l], t)]
    /\ \A u \in Thread \ {t} : Asleep(u)
QWake(l) ==
    /\ queue[l] # <<>> /\ queue' = [queue EXCEPT ![l] = Tail(queue[l])]
    /\ \A u \in Thread \ {Head(queue[l])} : Asleep(u)
QLeave(t) ==
    /\ queue' = [l \in Lock |-> ListRemove(queue[l], t)]
    /\ \A u \in Thread \ {t} : Asleep(u)
Queues(t) == QSame \/ (\E l \in Lock : QAdd(t, l) \/ QWake(l)) \/ QLeave(t)

LEMMA QueuesKept ==
    ASSUME RInv, NEW t \in Thread, Queues(t)
    PROVE  queue' \in [Lock -> Seq(Thread)] /\ \A l \in Lock : QueueOf(l)'
<1>0. /\ queue \in [Lock -> Seq(Thread)] /\ \A l \in Lock : QueueOf(l) /\ queue[l] \in Seq(Thread)
      /\ \A l \in Lock : Distinct(queue[l])
  BY Zenon DEF RInv, RTypes, RVars, QueueOf
<1>1. CASE QSame
  BY <1>0, <1>1, Zenon DEF QSame, QueueOf, Asleep
<1>2. ASSUME NEW k \in Lock, QAdd(t, k)
      PROVE  queue' \in [Lock -> Seq(Thread)] /\ \A l \in Lock : QueueOf(l)'
  <2>1. ~ OnList(queue[k], t)
    BY <1>0, <1>2, Zenon DEF QAdd, QueueOf
  <2>2. /\ ListAddTail(queue[k], t) \in Seq(Thread) /\ Distinct(ListAddTail(queue[k], t))
        /\ \A y : OnList(ListAddTail(queue[k], t), y) <=> OnList(queue[k], y) \/ y = t
    BY <1>0, <2>1, AddTailEntries, Zenon
  <2>3. /\ queue'[k] = ListAddTail(queue[k], t) /\ queue' \in [Lock -> Seq(Thread)]
        /\ \A l \in Lock \ {k} : queue'[l] = queue[l]
    BY <1>0, <1>2, <2>2, Zenon DEF QAdd
  <2>4. \A l \in Lock : \A u : OnList(queue[l], u) => u # t
    BY <1>0, <1>2, Zenon DEF QAdd, QueueOf
  <2>a. ASSUME NEW l \in Lock, NEW u, OnList(queue[l], u)
        PROVE  u \in Thread /\ at'[u].pc = "queued" /\ at'[u].lock = l
    <3>1. u \in Thread \ {t} /\ at[u].pc = "queued" /\ at[u].lock = l
      BY <1>0, <2>4, <2>a, Zenon DEF QueueOf
    <3> QED BY <1>2, <3>1, Zenon DEF QAdd, Asleep
  <2>b. at'[t].pc = "queued" /\ at'[t].lock = k
    BY <1>2, Zenon DEF QAdd
  <2>5. QueueOf(k)'
    BY <2>2, <2>3, <2>a, <2>b, ZenonT(40) DEF QueueOf
  <2>6. ASSUME NEW l \in Lock \ {k} PROVE QueueOf(l)'
    BY <1>0, <2>3, <2>a, Zenon DEF QueueOf
  <2> QED BY <2>3, <2>5, <2>6, Zenon
<1>3. ASSUME NEW k \in Lock, QWake(k)
      PROVE  queue' \in [Lock -> Seq(Thread)] /\ \A l \in Lock : QueueOf(l)'
  <2>2. /\ Head(queue[k]) \in Thread /\ OnList(queue[k], Head(queue[k]))
        /\ Tail(queue[k]) \in Seq(Thread) /\ Distinct(Tail(queue[k]))
        /\ \A y : OnList(Tail(queue[k]), y) <=> OnList(queue[k], y) /\ y # Head(queue[k])
    BY <1>0, <1>3, TailEntries, Zenon DEF QWake
  <2>3. /\ queue'[k] = Tail(queue[k]) /\ queue' \in [Lock -> Seq(Thread)]
        /\ \A l \in Lock \ {k} : queue'[l] = queue[l]
    BY <1>0, <1>3, <2>2, Zenon DEF QWake
  <2>4. \A l \in Lock \ {k} : \A u : OnList(queue[l], u) => u # Head(queue[k])
    BY <1>0, <2>2, ZenonT(40) DEF QueueOf
  <2>5. QueueOf(k)'
    BY <1>0, <1>3, <2>2, <2>3, Zenon DEF QWake, QueueOf, Asleep
  <2>6. ASSUME NEW l \in Lock \ {k} PROVE QueueOf(l)'
    BY <1>0, <1>3, <2>3, <2>4, <2>6, Zenon DEF QWake, QueueOf, Asleep
  <2> QED BY <2>3, <2>5, <2>6, Zenon
<1>4. CASE QLeave(t)
  <2>1. ASSUME NEW l \in Lock
        PROVE  /\ ListRemove(queue[l], t) \in Seq(Thread) /\ Distinct(ListRemove(queue[l], t))
               /\ \A y : OnList(ListRemove(queue[l], t), y) <=> OnList(queue[l], y) /\ y # t
    BY <1>0, RemoveEntries, Zenon
  <2>2. queue' \in [Lock -> Seq(Thread)] /\ \A l \in Lock : queue'[l] = ListRemove(queue[l], t)
    BY <1>4, <2>1, Zenon DEF QLeave
  <2>3. ASSUME NEW l \in Lock PROVE QueueOf(l)'
    BY <1>0, <1>4, <2>1, <2>2, Zenon DEF QLeave, QueueOf, Asleep
  <2> QED BY <2>2, <2>3, Zenon
<1> QED BY <1>1, <1>2, <1>3, <1>4, Zenon DEF Queues

----------------------------------------------------------------------------
(* A step of t as the invariant sees it.                                   *)
RStep(t) == RVars' /\ Others(t) /\ Mine(t)' /\ Deaths(t) /\ Queues(t)

LEMMA RStepKeeps ==
    ASSUME RobustListConstants, RInv, NEW t \in Thread, RStep(t)
    PROVE  RInv'
<1>1. \A u \in Thread : Mine(u)'
  BY OthersMine, Zenon DEF RStep
<1>2. \A l \in Lock : DeathOf(l)'
  BY DeathsKept, Zenon DEF RStep
<1>3. queue' \in [Lock -> Seq(Thread)] /\ \A l \in Lock : QueueOf(l)'
  BY QueuesKept, Zenon DEF RStep
<1> QED BY <1>1, <1>2, <1>3, Zenon DEF RStep, RInv, RTypes

(* The records a thread's place is made of.                                *)
LEMMA PlaceTypes ==
    /\ FreeWord \in Words /\ NoWalk \in Walks /\ Idle \in RPlaces
    /\ FreeWord.owner = Nobody /\ FreeWord.died = FALSE
    /\ ~ NoWalk.last /\ Idle.pc = "idle"
BY SMT DEF FreeWord, NoWalk, Idle, Words, Walks, RPlaces, GuestPlaces

LEMMA PlaceEdit ==
    ASSUME NEW r \in RPlaces, NEW p \in GuestPlaces \cup ExitPlaces
    PROVE  /\ [r EXCEPT !.pc = p] \in RPlaces
           /\ [r EXCEPT !.pc = p].pc = p /\ [r EXCEPT !.pc = p].lock = r.lock
BY Zenon DEF RPlaces

LEMMA PlaceOf ==
    ASSUME NEW p \in GuestPlaces \cup ExitPlaces, NEW l \in Lock
    PROVE  /\ [Idle EXCEPT !.pc = p, !.lock = l] \in RPlaces
           /\ [Idle EXCEPT !.pc = p, !.lock = l].pc = p
           /\ [Idle EXCEPT !.pc = p, !.lock = l].lock = l
BY PlaceTypes, Zenon DEF RPlaces

(* A step that touches no place, walk or pending entry but t's own.        *)
Own(t) ==
    /\ \A u \in Thread \ {t} : at'[u] = at[u] /\ walk'[u] = walk[u]
    /\ \A u \in Thread \ {t} : list_op_pending'[u] = list_op_pending[u] /\ faulted'[u] = faulted[u]

LEMMA OwnOthers ==
    ASSUME RobustListConstants, NEW t \in Thread, Own(t), Deaths(t)
    PROVE  Others(t)
<1>0. Nobody \notin Thread
  BY Zenon DEF RobustListConstants
<1>1. \A u \in Thread \ {t}, l \in Lock : word'[l].owner = u <=> word[l].owner = u
  <2>1. CASE NoWord(t)
    BY <2>1, Zenon DEF NoWord, SameWord
  <2>2. ASSUME NEW k \in Lock, Takes(t, k), word[k].owner = Nobody, NEW u \in Thread \ {t}, NEW l \in Lock
        PROVE  word'[l].owner = u <=> word[l].owner = u
    BY <1>0, <2>2, Zenon DEF Takes, SameWord
  <2>3. ASSUME NEW k \in Lock, Gives(t, k), NEW u \in Thread \ {t}, NEW l \in Lock
        PROVE  word'[l].owner = u <=> word[l].owner = u
    BY <1>0, <2>3, Zenon DEF Gives, SameWord
  <2>4. CASE Ends(t)
    BY <2>4, Zenon DEF Ends
  <2> QED BY <2>1, <2>2, <2>3, <2>4, Zenon DEF Deaths, Takes
<1> QED BY <1>1, Zenon DEF Own, Others

(* Nobody but t wakes or falls asleep. *)
LEMMA OwnAsleep ==
    ASSUME NEW t \in Thread, Own(t)
    PROVE  \A u \in Thread \ {t} : Asleep(u)
BY Zenon DEF Own, Asleep

LEMMA OwnSame ==
    ASSUME NEW t \in Thread, Own(t), at[t].pc # "queued", queue' = queue
    PROVE  Queues(t)
BY OwnAsleep, Zenon DEF Asleep, QSame, Queues

----------------------------------------------------------------------------
(* The guest's steps.                                                      *)
LEMMA GuestLockStep ==
    ASSUME RobustListConstants, RInv, NEW t \in Thread, NEW l \in Lock, GuestLock(t, l)
    PROVE  RStep(t)
<1>0. RVars
  BY Zenon DEF RInv, RTypes
<1> DEFINE r == [Idle EXCEPT !.pc = "try", !.lock = l]
<1>1. r \in RPlaces /\ r.pc = "try" /\ r.lock = l
  BY PlaceOf, Zenon DEF GuestPlaces
<1> HIDE DEF r
<1>2. at[t].pc = "idle" /\ at' = [at EXCEPT ![t] = r] /\ list_op_pending' = [list_op_pending EXCEPT ![t] = l]
      /\ word' = word /\ link' = link /\ queue' = queue /\ walk' = walk /\ faulted' = faulted /\ dirty' = dirty
  BY Zenon DEF GuestLock, history, r
<1>3. at' \in [Thread -> RPlaces] /\ list_op_pending' \in [Thread -> Lock \cup {Nobody}] /\ at'[t] = r
  BY <1>0, <1>1, <1>2, Zenon DEF RVars
<1>4. Own(t)
  BY <1>0, <1>2, Zenon DEF RVars, Own
<1>5. RVars'
  BY <1>0, <1>2, <1>3, Zenon DEF RVars
<1>6. Mine(t)'
  BY <1>1, <1>3, Zenon DEF Mine, AtLock, OwnsIts, EndsWithPending, Onward
<1>7. Deaths(t)
  BY <1>1, <1>2, <1>3, Zenon DEF Deaths, NoWord, Stays, SameWord, ExitPlaces
<1>8. Queues(t)
  BY <1>2, <1>4, OwnSame, Zenon
<1> QED BY <1>4, <1>5, <1>6, <1>7, <1>8, OwnOthers, Zenon DEF RStep

LEMMA GuestUnlinkStep ==
    ASSUME RobustListConstants, RInv, NEW t \in Thread, NEW l \in Lock, GuestUnlink(t, l)
    PROVE  RStep(t)
<1>0. RVars
  BY Zenon DEF RInv, RTypes
<1> DEFINE r == [Idle EXCEPT !.pc = "unlock", !.lock = l]
<1>1. r \in RPlaces /\ r.pc = "unlock" /\ r.lock = l
  BY PlaceOf, Zenon DEF GuestPlaces
<1> HIDE DEF r
<1>2. at[t].pc = "idle" /\ at' = [at EXCEPT ![t] = r] /\ list_op_pending' = [list_op_pending EXCEPT ![t] = l]
      /\ word' = word /\ queue' = queue /\ walk' = walk /\ faulted' = faulted /\ dirty' = dirty /\ word[l].owner = t
  BY Zenon DEF GuestUnlink, history, r
<1>3. at' \in [Thread -> RPlaces] /\ list_op_pending' \in [Thread -> Lock \cup {Nobody}] /\ at'[t] = r
  BY <1>0, <1>1, <1>2, Zenon DEF RVars
<1>a. link' \in [Thread \cup Lock -> Thread \cup Lock]
  BY <1>0, SMT DEF RVars, GuestUnlink
<1>4. Own(t)
  BY <1>0, <1>2, Zenon DEF RVars, Own
<1>5. RVars'
  BY <1>0, <1>2, <1>3, <1>a, Zenon DEF RVars
<1>6. Mine(t)'
  BY <1>1, <1>2, <1>3, Zenon DEF Mine, AtLock, OwnsIts, EndsWithPending, Onward
<1>7. Deaths(t)
  BY <1>1, <1>2, <1>3, Zenon DEF Deaths, NoWord, Stays, SameWord, ExitPlaces
<1>8. Queues(t)
  BY <1>2, <1>4, OwnSame, Zenon
<1> QED BY <1>4, <1>5, <1>6, <1>7, <1>8, OwnOthers, Zenon DEF RStep

LEMMA GuestTryStep ==
    ASSUME RobustListConstants, RInv, NEW t \in Thread, GuestTry(t)
    PROVE  RStep(t)
<1>0. RVars /\ Mine(t) /\ Nobody \notin Thread
  BY Zenon DEF RInv, RTypes, RobustListConstants
<1> DEFINE l == at[t].lock
<1>1. l \in Lock /\ at[t].pc = "try" /\ at[t] \in RPlaces /\ word[l] \in Words
  BY <1>0, Zenon DEF GuestTry, Mine, AtLock, RVars
<1>2. list_op_pending' = list_op_pending /\ link' = link /\ queue' = queue /\ walk' = walk /\ faulted' = faulted
  BY Zenon DEF GuestTry, history
<1>3. CASE /\ word[l].owner = Nobody
           /\ word' = [word EXCEPT ![l] = [owner |-> t, died |-> FALSE,
                                          waiters |-> word[l].waiters \/ at[t].slept]]
           /\ dirty' = dirty \ {l}
           /\ Go(t, "link")
  <2> DEFINE w == [owner |-> t, died |-> FALSE, waiters |-> word[l].waiters \/ at[t].slept]
  <2>1. w \in Words /\ w.owner = t
    BY <1>1, Zenon DEF Words, RPlaces
  <2> HIDE DEF w
  <2> DEFINE r == [at[t] EXCEPT !.pc = "link"]
  <2>2. r \in RPlaces /\ r.pc = "link" /\ r.lock = l
    BY <1>1, PlaceEdit, Zenon DEF GuestPlaces
  <2>3. at' = [at EXCEPT ![t] = r]
    BY <1>0, <1>3, Zenon DEF Go, RVars
  <2> HIDE DEF r
  <2> HIDE DEF l
  <2>4. word' = [word EXCEPT ![l] = w] /\ word[l].owner = Nobody /\ dirty' = dirty \ {l}
    BY <1>3, Zenon DEF w, l
  <2>5. at' \in [Thread -> RPlaces] /\ at'[t] = r /\ word' \in [Lock -> Words] /\ word'[l] = w
        /\ \A k \in Lock \ {l} : word'[k] = word[k]
    BY <1>0, <1>1, <2>1, <2>2, <2>3, <2>4, Zenon DEF RVars
  <2>6. Own(t)
    BY <1>0, <1>2, <2>3, Zenon DEF RVars, Own
  <2>7. RVars'
    BY <1>0, <1>2, <2>4, <2>5, Zenon DEF RVars
  <2>8. Mine(t)'
    BY <1>1, <2>2, <2>5, Zenon DEF Mine, AtLock, OwnsIts, EndsWithPending, Onward
  <2>9. Takes(t, l)
    BY <1>1, <2>1, <2>2, <2>4, <2>5, Zenon DEF Takes, Stays, SameWord, ExitPlaces
  <2>10. Deaths(t) /\ Queues(t)
    BY <1>1, <1>2, <2>6, <2>9, OwnSame, Zenon DEF Deaths
  <2> QED BY <2>6, <2>7, <2>8, <2>10, OwnOthers, Zenon DEF RStep
<1>4. CASE /\ word' = [word EXCEPT ![l].waiters = TRUE]
           /\ at' = [at EXCEPT ![t] = [at[t] EXCEPT !.pc = "wait", !.slept = TRUE,
                                                   !.saw = word'[l]]]
           /\ dirty' = dirty
  <2> DEFINE w == [word[l] EXCEPT !.waiters = TRUE]
  <2>1. w \in Words /\ w.owner = word[l].owner /\ w.died = word[l].died
    BY <1>1, Zenon DEF Words
  <2>2. word' = [word EXCEPT ![l] = w]
    BY <1>0, <1>4, Zenon DEF RVars
  <2> HIDE DEF w
  <2>3. word' \in [Lock -> Words] /\ word'[l] = w /\ \A k \in Lock \ {l} : word'[k] = word[k]
    BY <1>0, <1>1, <2>1, <2>2, Zenon DEF RVars
  <2> DEFINE r == [at[t] EXCEPT !.pc = "wait", !.slept = TRUE, !.saw = word'[l]]
  <2>4. r \in RPlaces /\ r.pc = "wait" /\ r.lock = l
    BY <1>1, <2>1, <2>3, Zenon DEF RPlaces, GuestPlaces
  <2>5. at' = [at EXCEPT ![t] = r]
    BY <1>4, Zenon
  <2> HIDE DEF r
  <2> HIDE DEF l
  <2>6. at' \in [Thread -> RPlaces] /\ at'[t] = r
    BY <1>0, <2>4, <2>5, Zenon DEF RVars
  <2>7. Own(t)
    BY <1>0, <1>2, <2>5, Zenon DEF RVars, Own
  <2>8. RVars'
    BY <1>0, <1>2, <1>4, <2>3, <2>6, Zenon DEF RVars
  <2>9. Mine(t)'
    BY <1>1, <2>4, <2>6, Zenon DEF Mine, AtLock, OwnsIts, EndsWithPending, Onward
  <2>10. NoWord(t)
    BY <1>1, <1>4, <2>1, <2>3, <2>4, <2>6, Zenon DEF NoWord, Stays, SameWord, ExitPlaces
  <2>11. Deaths(t) /\ Queues(t)
    BY <1>1, <1>2, <2>7, <2>10, OwnSame, Zenon DEF Deaths
  <2> QED BY <2>7, <2>8, <2>9, <2>11, OwnOthers, Zenon DEF RStep
<1> QED BY <1>3, <1>4, Zenon DEF GuestTry

LEMMA GuestWaitStep ==
    ASSUME RobustListConstants, RInv, NEW t \in Thread, GuestWait(t)
    PROVE  RStep(t)
<1>0. RVars /\ Mine(t)
  BY Zenon DEF RInv, RTypes
<1> DEFINE l == at[t].lock
<1>1. l \in Lock /\ at[t].pc = "wait" /\ at[t] \in RPlaces
  BY <1>0, Zenon DEF GuestWait, Mine, AtLock, RVars
<1>2. list_op_pending' = list_op_pending /\ link' = link /\ word' = word /\ walk' = walk /\ faulted' = faulted /\ dirty' = dirty
  BY Zenon DEF GuestWait, history
<1>3. ASSUME NEW p \in {"queued", "try"}, Go(t, p)
      PROVE  RVars' /\ Own(t) /\ Mine(t)' /\ Deaths(t) /\ at'[t].pc = p /\ at'[t].lock = l
  <2> DEFINE r == [at[t] EXCEPT !.pc = p]
  <2>1. r \in RPlaces /\ r.pc = p /\ r.lock = l
    BY <1>1, <1>3, PlaceEdit, Zenon DEF GuestPlaces
  <2>2. at' = [at EXCEPT ![t] = r]
    BY <1>0, <1>3, Zenon DEF Go, RVars
  <2> HIDE DEF r
  <2>3. at' \in [Thread -> RPlaces] /\ at'[t] = r
    BY <1>0, <2>1, <2>2, Zenon DEF RVars
  <2>4. RVars'
    BY <1>0, <1>2, <2>3, Zenon DEF RVars
  <2>5. Own(t)
    BY <1>0, <1>2, <2>2, Zenon DEF RVars, Own
  <2>6. Mine(t)'
    BY <1>1, <1>3, <2>1, <2>3, Zenon DEF Mine, AtLock, OwnsIts, EndsWithPending, Onward
  <2>7. Deaths(t)
    BY <1>1, <1>2, <1>3, <2>1, <2>3, Zenon DEF Deaths, NoWord, Stays, SameWord, ExitPlaces
  <2> QED BY <2>1, <2>3, <2>4, <2>5, <2>6, <2>7, Zenon
<1>4. CASE queue' = [queue EXCEPT ![l] = ListAddTail(queue[l], t)] /\ Go(t, "queued")
  <2>1. QAdd(t, l)
    BY <1>1, <1>3, <1>4, OwnAsleep, Zenon DEF QAdd
  <2> QED BY <1>1, <1>3, <1>4, <2>1, OwnOthers, Zenon DEF RStep, Queues
<1>5. CASE queue' = queue /\ Go(t, "try")
  BY <1>1, <1>3, <1>5, OwnSame, OwnOthers, Zenon DEF RStep
<1> QED BY <1>4, <1>5, Zenon DEF GuestWait

LEMMA GuestLinkStep ==
    ASSUME RobustListConstants, RInv, NEW t \in Thread, GuestLink(t)
    PROVE  RStep(t)
<1>0. RVars /\ Mine(t)
  BY Zenon DEF RInv, RTypes
<1>1. at[t].lock \in Lock /\ at[t].pc = "link"
  BY <1>0, Zenon DEF GuestLink, Mine, AtLock
<1>2. /\ list_op_pending' = [list_op_pending EXCEPT ![t] = Nobody] /\ at' = [at EXCEPT ![t] = Idle]
      /\ word' = word /\ queue' = queue /\ walk' = walk /\ faulted' = faulted /\ dirty' = dirty
      /\ link' = [link EXCEPT ![at[t].lock] = link[t], ![t] = at[t].lock]
  BY Zenon DEF GuestLink, history
<1>3. link' \in [Thread \cup Lock -> Thread \cup Lock]
  BY <1>0, <1>1, <1>2, Zenon DEF RVars
<1>4. at' \in [Thread -> RPlaces] /\ at'[t] = Idle /\ list_op_pending' \in [Thread -> Lock \cup {Nobody}]
  BY <1>0, <1>2, PlaceTypes, Zenon DEF RVars
<1>5. RVars'
  BY <1>0, <1>2, <1>3, <1>4, Zenon DEF RVars
<1>6. Own(t)
  BY <1>0, <1>2, Zenon DEF RVars, Own
<1>7. Mine(t)'
  BY <1>4, PlaceTypes, Zenon DEF Mine, AtLock, OwnsIts, EndsWithPending, Onward
<1>8. Deaths(t)
  BY <1>1, <1>2, <1>4, PlaceTypes, Zenon DEF Deaths, NoWord, Stays, SameWord, ExitPlaces
<1> QED BY <1>1, <1>2, <1>5, <1>6, <1>7, <1>8, OwnSame, OwnOthers, Zenon DEF RStep

LEMMA GuestUnlockStep ==
    ASSUME RobustListConstants, RInv, NEW t \in Thread, GuestUnlock(t)
    PROVE  RStep(t)
<1>0. RVars /\ Mine(t)
  BY Zenon DEF RInv, RTypes
<1> DEFINE l == at[t].lock
<1>1. l \in Lock /\ at[t].pc = "unlock" /\ at[t] \in RPlaces /\ word[l].owner = t
  BY <1>0, Zenon DEF GuestUnlock, Mine, AtLock, OwnsIts, RVars
<1>2. link' = link /\ queue' = queue /\ walk' = walk /\ faulted' = faulted /\ dirty' = dirty /\ word' = [word EXCEPT ![l] = FreeWord]
  BY Zenon DEF GuestUnlock, history
<1>3. word' \in [Lock -> Words] /\ word'[l] = FreeWord /\ \A k \in Lock \ {l} : word'[k] = word[k]
  BY <1>0, <1>1, <1>2, PlaceTypes, Zenon DEF RVars
<1>4. ASSUME NEW r \in RPlaces, r = Idle \/ (r.pc = "wake" /\ r.lock = l), at' = [at EXCEPT ![t] = r],
             NEW p \in Lock \cup {Nobody}, list_op_pending' = [list_op_pending EXCEPT ![t] = p]
      PROVE  RStep(t)
  <2>0. r.pc \in {"idle", "wake"} /\ (r.pc = "wake" => r.lock = l)
    BY <1>4, PlaceTypes, Zenon
  <2>1. at' \in [Thread -> RPlaces] /\ at'[t] = r /\ list_op_pending' \in [Thread -> Lock \cup {Nobody}]
    BY <1>0, <1>4, Zenon DEF RVars
  <2>2. RVars'
    BY <1>0, <1>2, <1>3, <2>1, Zenon DEF RVars
  <2>3. Own(t)
    BY <1>0, <1>2, <1>4, Zenon DEF RVars, Own
  <2>4. Mine(t)'
    BY <1>1, <2>0, <2>1, Zenon DEF Mine, AtLock, OwnsIts, EndsWithPending, Onward
  <2>5. Gives(t, l)
    BY <1>1, <1>2, <1>3, <2>0, <2>1, PlaceTypes, Zenon DEF Gives, Stays, SameWord, ExitPlaces
  <2>6. Deaths(t)
    BY <1>1, <2>5, Zenon DEF Deaths
  <2> QED BY <1>1, <1>2, <2>2, <2>3, <2>4, <2>6, OwnSame, OwnOthers, Zenon DEF RStep
<1>5. CASE Go(t, "wake") /\ list_op_pending' = list_op_pending
  <2>1. [at[t] EXCEPT !.pc = "wake"] \in RPlaces /\ [at[t] EXCEPT !.pc = "wake"].pc = "wake"
        /\ [at[t] EXCEPT !.pc = "wake"].lock = l
    BY <1>1, PlaceEdit, Zenon DEF GuestPlaces
  <2>2. at' = [at EXCEPT ![t] = [at[t] EXCEPT !.pc = "wake"]]
    BY <1>0, <1>5, Zenon DEF Go, RVars
  <2>3. /\ list_op_pending[t] \in Lock \cup {Nobody}
        /\ list_op_pending' = [list_op_pending EXCEPT ![t] = list_op_pending[t]]
    BY <1>0, <1>5, Zenon DEF RVars
  <2> QED BY <1>4, <2>1, <2>2, <2>3, Zenon
<1>6. CASE at' = [at EXCEPT ![t] = Idle] /\ list_op_pending' = [list_op_pending EXCEPT ![t] = Nobody]
  BY <1>4, <1>6, PlaceTypes, Zenon
<1> QED BY <1>5, <1>6, Zenon DEF GuestUnlock

(* A wake: one sleeper, the head of the queue, is off it and tries again.  *)
SameBut(t, a) == \A u \in Thread \ {t} : a[u] = at[u]
OneWoken(t, l, a) ==
    \A u \in Thread \ {t} :
        \/ a[u] = at[u]
        \/ /\ queue[l] # <<>> /\ u = Head(queue[l]) /\ at[u].pc = "queued"
           /\ a[u].pc = "try" /\ a[u].lock = at[u].lock

LEMMA WokenFacts ==
    ASSUME RInv, NEW l \in Lock, NEW t \in Thread, at[t].pc # "queued",
           NEW a \in [Thread -> RPlaces], SameBut(t, a)
    PROVE  Woken(l, a) \in [Thread -> RPlaces] /\ Woken(l, a)[t] = a[t] /\ OneWoken(t, l, Woken(l, a))
<1>1. CASE queue[l] = <<>>
  BY <1>1, Zenon DEF Woken, SameBut, OneWoken
<1>2. CASE queue[l] # <<>>
  <2> DEFINE h == Head(queue[l])
  <2>1. queue[l] \in Seq(Thread) /\ Distinct(queue[l])
    BY Zenon DEF RInv, RTypes, QueueOf
  <2>2. h \in Thread /\ OnList(queue[l], h)
    BY <1>2, <2>1, TailEntries, Zenon
  <2>3. at[h].pc = "queued" /\ h # t /\ a[h] = at[h] /\ a[h] \in RPlaces
    BY <2>2, Zenon DEF RInv, QueueOf, SameBut
  <2> DEFINE r == [a[h] EXCEPT !.pc = "try"]
  <2>4. r \in RPlaces /\ r.pc = "try" /\ r.lock = at[h].lock
    <3>1. "try" \in GuestPlaces \cup ExitPlaces
      BY Zenon DEF GuestPlaces, history
    <3>2. a[h] \in RPlaces
      BY <2>3, Zenon
    <3>3. r \in RPlaces /\ r.pc = "try" /\ r.lock = a[h].lock
      BY <3>1, <3>2, PlaceEdit, Zenon
    <3> QED BY <2>3, <3>3, Zenon
  <2>5. Woken(l, a) = [a EXCEPT ![h] = r]
    BY <1>2, <2>2, Zenon DEF Woken
  <2> HIDE DEF r
  <2>6. Woken(l, a) \in [Thread -> RPlaces] /\ Woken(l, a)[h] = r /\ \A u \in Thread \ {h} : Woken(l, a)[u] = a[u]
    BY <2>2, <2>4, <2>5, Zenon
  <2> QED BY <1>2, <2>2, <2>3, <2>4, <2>6, Zenon DEF SameBut, OneWoken
<1> QED BY <1>1, <1>2, Zenon

LEMMA WakeKeeps ==
    ASSUME RInv, NEW l \in Lock, NEW t \in Thread, at[t].pc # "queued", queue' = AfterWake(l),
           OneWoken(t, l, at'), word' = word,
           \A u \in Thread \ {t} : list_op_pending'[u] = list_op_pending[u] /\ walk'[u] = walk[u] /\ faulted'[u] = faulted[u]
    PROVE  Others(t) /\ Queues(t)
<1>1. \A u \in Thread \ {t} :
          \/ at'[u] = at[u]
          \/ /\ queue[l] # <<>> /\ u = Head(queue[l]) /\ at[u].pc = "queued"
             /\ at'[u].pc = "try" /\ at'[u].lock = at[u].lock
  BY Zenon DEF OneWoken
<1>2. Others(t)
  BY <1>1, Zenon DEF Others
<1>3. CASE queue[l] = <<>>
  <2>1. ASSUME NEW u \in Thread PROVE Asleep(u)
    BY <1>1, <1>3, Zenon DEF Asleep
  <2> QED BY <1>2, <1>3, <2>1, Zenon DEF AfterWake, Queues, QSame
<1>4. CASE queue[l] # <<>>
  <2>1. queue' = [queue EXCEPT ![l] = Tail(queue[l])]
    BY <1>4, Zenon DEF AfterWake
  <2>2. ASSUME NEW u \in Thread \ {Head(queue[l])} PROVE Asleep(u)
    BY <1>1, Zenon DEF Asleep
  <2> QED BY <1>2, <1>4, <2>1, <2>2, Zenon DEF Queues, QWake
<1> QED BY <1>3, <1>4, Zenon

LEMMA GuestWakeStep ==
    ASSUME RobustListConstants, RInv, NEW t \in Thread, GuestWake(t)
    PROVE  RStep(t)
<1>0. RVars /\ Mine(t)
  BY Zenon DEF RInv, RTypes
<1> DEFINE l == at[t].lock
           a == [at EXCEPT ![t] = Idle]
<1>1. l \in Lock /\ at[t].pc = "wake"
  BY <1>0, Zenon DEF GuestWake, Mine, AtLock
<1>2. /\ list_op_pending' = [list_op_pending EXCEPT ![t] = Nobody] /\ at' = Woken(l, a) /\ queue' = AfterWake(l)
      /\ word' = word /\ link' = link /\ walk' = walk /\ faulted' = faulted /\ dirty' = dirty
  BY Zenon DEF GuestWake, history
<1>3. a \in [Thread -> RPlaces] /\ a[t] = Idle /\ SameBut(t, a)
  BY <1>0, PlaceTypes, Zenon DEF RVars, SameBut
<1> HIDE DEF a, l
<1>4. at' \in [Thread -> RPlaces] /\ at'[t] = Idle /\ OneWoken(t, l, at')
  BY <1>1, <1>2, <1>3, WokenFacts, Zenon
<1>5. /\ list_op_pending' \in [Thread -> Lock \cup {Nobody}]
      /\ \A u \in Thread \ {t} : list_op_pending'[u] = list_op_pending[u] /\ walk'[u] = walk[u] /\ faulted'[u] = faulted[u]
  BY <1>0, <1>2, Zenon DEF RVars
<1>6. Others(t) /\ Queues(t)
  BY <1>1, <1>2, <1>4, <1>5, WakeKeeps, Zenon
<1>7. RVars'
  BY <1>0, <1>2, <1>4, <1>5, Zenon DEF RVars
<1>8. Mine(t)'
  BY <1>4, PlaceTypes, Zenon DEF Mine, AtLock, OwnsIts, EndsWithPending, Onward
<1>9. Deaths(t)
  BY <1>1, <1>2, <1>4, PlaceTypes, Zenon DEF Deaths, NoWord, Stays, SameWord, ExitPlaces
<1> QED BY <1>6, <1>7, <1>8, <1>9, Zenon DEF RStep

----------------------------------------------------------------------------
(* The kernel's steps.                                                     *)
(* What a fault adds to the locks the walk is kept from.                   *)
FaultsGrow(t) ==
    /\ faulted' \in [Thread -> SUBSET Lock] /\ \A u \in Thread \ {t} : faulted'[u] = faulted[u]
    /\ \A l \in Lock : l \in faulted[t] => l \in faulted'[t]

LEMMA KeptFromFacts ==
    ASSUME RVars, NEW t \in Thread, NEW S, KeptFrom(t, S)
    PROVE  FaultsGrow(t) /\ \A l \in Lock : l \in S /\ word[l].owner = t => l \in faulted'[t]
<1> DEFINE new == faulted[t] \cup (S \cap HeldBy(t))
<1>1. faulted \in [Thread -> SUBSET Lock] /\ faulted[t] \in SUBSET Lock
  BY Zenon DEF RVars
<1>2. new \in SUBSET Lock
  BY <1>1, Zenon DEF HeldBy
<1>3. faulted' = [faulted EXCEPT ![t] = new]
  BY Zenon DEF KeptFrom
<1> HIDE DEF new
<1>4. /\ faulted' \in [Thread -> SUBSET Lock] /\ faulted'[t] = new
      /\ \A u \in Thread \ {t} : faulted'[u] = faulted[u]
  BY <1>1, <1>2, <1>3, Zenon
<1>5. \A l \in Lock : l \in faulted[t] \/ (l \in S /\ word[l].owner = t) => l \in new
  BY Zenon DEF new, HeldBy
<1> QED BY <1>4, <1>5, Zenon DEF FaultsGrow

LEMMA SameFaults == ASSUME RVars, NEW t \in Thread, faulted' = faulted PROVE FaultsGrow(t)
BY Zenon DEF RVars, FaultsGrow

LEMMA ExitStep ==
    ASSUME RobustListConstants, RInv, NEW t \in Thread, Exit(t)
    PROVE  RStep(t)
<1>0. RVars /\ Nobody \notin Lock
  BY Zenon DEF RInv, RTypes, RobustListConstants
<1> DEFINE w == [NoWalk EXCEPT !.entry = link[t], !.limit = Limit]
<1>2. w \in Walks /\ ~ w.last /\ w.entry \in Thread \cup Lock
  <2>1. link[t] \in Thread \cup Lock /\ Limit \in Int
    BY <1>0, SMT DEF RVars, RobustListConstants
  <2> QED BY <2>1, PlaceTypes, Zenon DEF Walks
<1>3. /\ word' = word /\ link' = link /\ list_op_pending' = list_op_pending
      /\ dirty' = dirty \cup HeldBy(t)
      /\ queue' = [l \in Lock |-> ListRemove(queue[l], t)] /\ at[t].pc \in KillAt
  BY Zenon DEF Exit
<1>4. dirty' \subseteq Lock /\ dirty' = dirty \cup {l \in Lock : word[l].owner = t}
  BY <1>0, <1>3, Zenon DEF RVars, HeldBy
<1> HIDE DEF w
<1>5. ASSUME NEW p \in {"walk", "dead"}, at' = [at EXCEPT ![t] = [Idle EXCEPT !.pc = p]], FaultsGrow(t),
             walk' \in [Thread -> Walks], \A u \in Thread \ {t} : walk'[u] = walk[u],
             p = "walk" => ~ walk'[t].last /\ walk'[t].entry \in Thread \cup Lock,
             p = "dead" => Spared(t)'
      PROVE  RStep(t)
  <2> DEFINE r == [Idle EXCEPT !.pc = p]
  <2>1. r \in RPlaces /\ r.pc = p
    <3>1. p \in GuestPlaces \cup ExitPlaces
      BY Zenon DEF ExitPlaces
    <3> QED BY <3>1, PlaceEdit, PlaceTypes, Zenon
  <2>2. at' = [at EXCEPT ![t] = r]
    BY <1>5, Zenon
  <2> HIDE DEF r
  <2>3. at' \in [Thread -> RPlaces] /\ at'[t] = r
    BY <1>0, <2>1, <2>2, Zenon DEF RVars
  <2>4. RVars'
    BY <1>0, <1>3, <1>4, <1>5, <2>3, Zenon DEF RVars, FaultsGrow
  <2>5. Own(t)
    BY <1>0, <1>3, <1>5, <2>2, Zenon DEF RVars, Own, FaultsGrow
  <2>6. Mine(t)'
    BY <1>5, <2>1, <2>3, Zenon DEF Mine, AtLock, OwnsIts, EndsWithPending, Onward
  <2>7. Ends(t)
    <3>1. ~ (at[t].pc \in ExitPlaces)
      BY <1>3, Zenon DEF RobustListConstants, GuestPlaces, ExitPlaces
    <3> QED BY <1>3, <1>4, <2>1, <2>3, <3>1, Zenon DEF Ends, ExitPlaces
  <2>8. Queues(t)
    BY <1>3, <2>5, OwnAsleep, Zenon DEF Queues, QLeave
  <2> QED BY <2>4, <2>5, <2>6, <2>7, <2>8, OwnOthers, Zenon DEF RStep, Deaths
<1>6. CASE at' = [at EXCEPT ![t] = [Idle EXCEPT !.pc = "walk"]] /\ walk' = [walk EXCEPT ![t] = w]
           /\ faulted' = faulted
  <2>1. walk' \in [Thread -> Walks] /\ walk'[t] = w /\ \A u \in Thread \ {t} : walk'[u] = walk[u]
    BY <1>0, <1>2, <1>6, Zenon DEF RVars
  <2> QED BY <1>0, <1>2, <1>5, <1>6, <2>1, SameFaults, Zenon
<1>7. CASE at' = [at EXCEPT ![t] = [Idle EXCEPT !.pc = "dead"]] /\ walk' = walk /\ KeptFrom(t, Lock)
  <2>1. FaultsGrow(t) /\ \A l \in Lock : l \in Lock /\ word[l].owner = t => l \in faulted'[t]
    BY <1>0, <1>7, KeptFromFacts, Zenon
  <2>2. list_op_pending'[t] \in Lock \cup {Nobody}
    BY <1>0, <1>3, Zenon DEF RVars
  <2>3. Spared(t)'
    BY <1>3, <2>1, <2>2, Zenon DEF Spared
  <2>4. walk' \in [Thread -> Walks] /\ \A u \in Thread \ {t} : walk'[u] = walk[u]
    BY <1>0, <1>7, Zenon DEF RVars
  <2> QED BY <1>5, <1>7, <2>1, <2>3, <2>4, Zenon
<1> QED BY <1>6, <1>7, Zenon DEF Exit, w

(* A step along the walk, as the others see it.                            *)
Along(t) ==
    /\ at[t].pc \in ExitPlaces /\ at' \in [Thread -> RPlaces] /\ at'[t].pc \in ExitPlaces
    /\ walk' \in [Thread -> Walks] /\ \A u \in Thread \ {t} : walk'[u] = walk[u]
    /\ link' = link /\ list_op_pending' = list_op_pending /\ dirty' = dirty /\ FaultsGrow(t)

LEMMA HandledFacts ==
    ASSUME RInv, NEW t \in Thread, NEW next \in Thread \cup Lock \cup {Nobody},
           NEW a \in [Thread -> RPlaces], Handled(t, next, a)
    PROVE  /\ at' \in [Thread -> RPlaces] /\ \A u \in Thread \ {t} : at'[u] = a[u]
           /\ at'[t].pc = IF walk[t].last \/ next = Nobody THEN "dead" ELSE "walk"
           /\ walk' \in [Thread -> Walks] /\ \A u \in Thread \ {t} : walk'[u] = walk[u]
           /\ at'[t].pc = "walk" => ~ walk'[t].last /\ walk'[t].entry \in Thread \cup Lock
<1>0. walk \in [Thread -> Walks] /\ walk[t] \in Walks
  BY Zenon DEF RInv, RTypes, RVars
<1> DEFINE done == walk[t].last \/ next = Nobody
           p == IF done THEN "dead" ELSE "walk"
           r == [a[t] EXCEPT !.pc = p]
           w == IF done THEN NoWalk
                ELSE [NoWalk EXCEPT !.entry = next, !.limit = walk[t].limit - 1]
<1>1. p \in GuestPlaces \cup ExitPlaces
  BY Zenon DEF ExitPlaces
<1>2. at' = [a EXCEPT ![t] = r]
  BY Zenon DEF Handled
<1>3. walk' = [walk EXCEPT ![t] = w]
  BY <1>0, Zenon DEF Handled
<1>4. w \in Walks /\ (~ done => ~ w.last /\ w.entry \in Thread \cup Lock)
  <2>1. walk[t].limit - 1 \in Int
    BY <1>0, SMTT(30) DEF Walks
  <2>2. CASE done
    BY <2>2, PlaceTypes, Zenon
  <2>3. CASE ~ done
    <3>1. next \in Thread \cup Lock
      BY <2>3, Zenon
    <3> QED BY <2>1, <2>3, <3>1, PlaceTypes, Zenon DEF Walks
  <2> QED BY <2>2, <2>3, ZenonT(40)
<1>8. p = "walk" => ~ done
  BY Zenon
<1> HIDE DEF p, w
<1>5. r \in RPlaces /\ r.pc = p
  BY <1>1, PlaceEdit, Zenon
<1> HIDE DEF r
<1>6. at' \in [Thread -> RPlaces] /\ (\A u \in Thread \ {t} : at'[u] = a[u]) /\ at'[t] = r
  BY <1>2, <1>5, Zenon
<1>7. walk' \in [Thread -> Walks] /\ (\A u \in Thread \ {t} : walk'[u] = walk[u]) /\ walk'[t] = w
  BY <1>0, <1>3, <1>4, Zenon
<1>9. at'[t].pc = IF walk[t].last \/ next = Nobody THEN "dead" ELSE "walk"
  BY <1>5, <1>6, Zenon DEF p
<1>10. at'[t].pc = "walk" => ~ walk'[t].last /\ walk'[t].entry \in Thread \cup Lock
  BY <1>4, <1>5, <1>6, <1>7, <1>8, Zenon
<1> QED BY <1>6, <1>7, <1>9, <1>10, Zenon

LEMMA AlongStep ==
    ASSUME RobustListConstants, RInv, NEW t \in Thread, Along(t), SameBut(t, at'), queue' = queue,
           \/ word' = word
           \/ \E l \in Lock : Gives(t, l) /\ word' \in [Lock -> Words],
           Mine(t)'
    PROVE  RStep(t)
<1>0. RVars
  BY Zenon DEF RInv, RTypes
<1>1. RVars'
  BY <1>0, Zenon DEF RVars, Along, FaultsGrow
<1>2. Own(t)
  BY Zenon DEF Along, SameBut, Own, FaultsGrow
<1>3. Deaths(t)
  BY Zenon DEF Along, Stays, NoWord, SameWord, Deaths
<1>4. Queues(t)
  BY <1>2, OwnSame, Zenon DEF Along, ExitPlaces
<1> QED BY <1>1, <1>2, <1>3, <1>4, OwnOthers, Zenon DEF RStep

(* The word is read, and is t's own. *)
LEMMA ReadWordFacts ==
    ASSUME RobustListConstants, RInv, NEW t \in Thread, NEW e, NEW w \in Walks, ReadWord(t, e, w)
    PROVE  /\ e \in Lock /\ word[e].owner = t
           /\ at' \in [Thread -> RPlaces] /\ SameBut(t, at') /\ at'[t].pc = "mark"
           /\ walk' \in [Thread -> Walks] /\ \A u \in Thread \ {t} : walk'[u] = walk[u]
           /\ walk'[t].entry = w.entry /\ walk'[t].next = w.next /\ walk'[t].last = w.last
<1>0. RVars /\ Nobody \notin Thread
  BY Zenon DEF RInv, RTypes, RobustListConstants
<1>1. e \in Lock /\ word[e].owner = t
  BY <1>0, Zenon DEF ReadWord, Owns, OwnerOf
<1> DEFINE v == [w EXCEPT !.seen = word[e]]
           r == [at[t] EXCEPT !.pc = "mark"]
<1>2. word[e] \in Words
  BY <1>0, <1>1, Zenon DEF RVars
<1>3. v \in Walks /\ v.entry = w.entry /\ v.next = w.next /\ v.last = w.last
  BY <1>2, Zenon DEF Walks
<1>4. r \in RPlaces /\ r.pc = "mark"
  <2>1. "mark" \in GuestPlaces \cup ExitPlaces /\ at[t] \in RPlaces
    BY <1>0, Zenon DEF ExitPlaces, RVars
  <2> QED BY <2>1, PlaceEdit, Zenon
<1>5. at' = [at EXCEPT ![t] = r] /\ walk' = [walk EXCEPT ![t] = v]
  BY <1>0, Zenon DEF ReadWord, Go, RVars
<1> HIDE DEF v, r
<1>6. at' \in [Thread -> RPlaces] /\ SameBut(t, at') /\ at'[t] = r
  BY <1>0, <1>4, <1>5, Zenon DEF RVars, SameBut
<1>7. walk' \in [Thread -> Walks] /\ walk'[t] = v /\ \A u \in Thread \ {t} : walk'[u] = walk[u]
  BY <1>0, <1>3, <1>5, Zenon DEF RVars
<1> QED BY <1>1, <1>3, <1>4, <1>6, <1>7, Zenon

(* A link that cannot be read keeps the walk from the pending lock.        *)
LEMMA CutSpares ==
    ASSUME RobustListConstants, RVars, NEW t \in Thread, NEW e, NEW S, KeptFrom(t, S),
           Behind(t, e) \subseteq S, word' = word, list_op_pending' = list_op_pending
    PROVE  Spared(t)'
<1>1. list_op_pending[t] \in Lock \cup {Nobody} /\ list_op_pending[t] \in S
  BY Zenon DEF RVars, Behind
<1>2. \A l \in Lock : l \in S /\ word[l].owner = t => l \in faulted'[t]
  BY KeptFromFacts, Zenon
<1> QED BY <1>1, <1>2, Zenon DEF Spared

LEMMA WalkEntryStep ==
    ASSUME RobustListConstants, RInv, NEW t \in Thread, WalkEntry(t)
    PROVE  RStep(t)
<1>0. RVars /\ Mine(t) /\ at[t].pc = "walk" /\ walk[t] \in Walks /\ Nobody \notin Thread \cup Lock
  BY Zenon DEF RInv, RTypes, RVars, WalkEntry, RobustListConstants
<1> DEFINE e == walk[t].entry
           links == {link[e]} \cup (IF "link" \in Fault THEN {Nobody} ELSE {})
           behind(next) == IF next = Nobody THEN Behind(t, e) ELSE {}
<1>1. e \in Thread \cup Lock /\ ~ walk[t].last /\ link[e] \in Thread \cup Lock
  BY <1>0, Zenon DEF Mine, Onward, EndsWithPending, RVars
<1>2. word' = word /\ link' = link /\ list_op_pending' = list_op_pending /\ queue' = queue /\ dirty' = dirty
  BY Zenon DEF WalkEntry
<1>3. PICK next \in links :
          \/ /\ ReadWord(t, e, [walk[t] EXCEPT !.next = next])
             /\ KeptFrom(t, behind(next))
          \/ Handled(t, next, at) /\ KeptFrom(t, behind(next))
          \/ Handled(t, next, at) /\ KeptFrom(t, behind(next) \cup {e})
  BY Zenon DEF WalkEntry
<1>4. next \in Thread \cup Lock \cup {Nobody}
  BY <1>1, Zenon
<1>5. FaultsGrow(t) /\ (next = Nobody => Spared(t)')
  <2>1. ASSUME NEW S, KeptFrom(t, S), behind(next) \subseteq S PROVE FaultsGrow(t) /\ (next = Nobody => Spared(t)')
    <3>1. FaultsGrow(t)
      BY <1>0, <2>1, KeptFromFacts, Zenon
    <3>2. ASSUME next = Nobody PROVE Spared(t)'
      <4>1. Behind(t, e) \subseteq S
        BY <2>1, <3>2, Zenon
      <4> HIDE DEF e
      <4> QED BY <1>0, <1>2, <2>1, <4>1, CutSpares, Zenon
    <3> QED BY <3>1, <3>2, Zenon
  <2>2. CASE KeptFrom(t, behind(next))
    BY <2>1, <2>2, Zenon
  <2>3. CASE KeptFrom(t, behind(next) \cup {e})
    BY <2>1, <2>3, Zenon
  <2> QED BY <1>3, <2>2, <2>3, Zenon
<1>6. CASE ReadWord(t, e, [walk[t] EXCEPT !.next = next])
  <2> DEFINE w == [walk[t] EXCEPT !.next = next]
  <2>1. w \in Walks /\ w.entry = e /\ w.next = next /\ w.last = walk[t].last
    BY <1>0, <1>4, Zenon DEF Walks
  <2> HIDE DEF w
  <2>2. /\ e \in Lock /\ word[e].owner = t
        /\ at' \in [Thread -> RPlaces] /\ SameBut(t, at') /\ at'[t].pc = "mark"
        /\ walk' \in [Thread -> Walks] /\ \A u \in Thread \ {t} : walk'[u] = walk[u]
        /\ walk'[t].entry = e /\ walk'[t].next = next /\ walk'[t].last = walk[t].last
    <3>1. ReadWord(t, e, w)
      BY <1>6, Zenon DEF w
    <3> HIDE DEF e
    <3> QED BY <2>1, <3>1, ReadWordFacts, ZenonT(40)
  <2>3. Along(t)
    BY <1>0, <1>2, <1>5, <2>2, Zenon DEF Along, ExitPlaces
  <2>4. Mine(t)'
    <3> HIDE DEF e, links, behind
    <3> QED BY <1>1, <1>2, <1>5, <2>2, Zenon DEF Mine, AtLock, OwnsIts, EndsWithPending, Onward
  <2> QED BY <1>2, <2>2, <2>3, <2>4, AlongStep, Zenon
<1>7. CASE Handled(t, next, at)
  <2>1. /\ at' \in [Thread -> RPlaces] /\ (\A u \in Thread \ {t} : at'[u] = at[u])
        /\ at'[t].pc = IF walk[t].last \/ next = Nobody THEN "dead" ELSE "walk"
        /\ walk' \in [Thread -> Walks] /\ (\A u \in Thread \ {t} : walk'[u] = walk[u])
        /\ at'[t].pc = "walk" => ~ walk'[t].last /\ walk'[t].entry \in Thread \cup Lock
    <3>1. at \in [Thread -> RPlaces]
      BY <1>0, Zenon DEF RVars
    <3> HIDE DEF e, links, behind
    <3> QED BY <1>4, <1>7, <3>1, HandledFacts, Zenon
  <2>2. Along(t) /\ SameBut(t, at')
    BY <1>0, <1>2, <1>5, <2>1, Zenon DEF Along, SameBut, ExitPlaces
  <2>3. at'[t].pc = "dead" => Spared(t)'
    BY <1>1, <1>5, <2>1, Zenon
  <2>4. Mine(t)'
    BY <2>1, <2>3, Zenon DEF Mine, AtLock, OwnsIts, EndsWithPending, Onward
  <2> QED BY <1>2, <2>2, <2>4, AlongStep, Zenon
<1> QED BY <1>3, <1>6, <1>7, Zenon

LEMMA WalkEndsStep ==
    ASSUME RobustListConstants, RInv, NEW t \in Thread, WalkEnds(t)
    PROVE  RStep(t)
<1>0. RVars /\ Mine(t) /\ at[t].pc = "walk" /\ walk[t] \in Walks /\ at[t] \in RPlaces
  BY Zenon DEF RInv, RTypes, RVars, WalkEnds
<1> DEFINE e == list_op_pending[t]
<1>1. e \in Lock \cup {Nobody} /\ Nobody \notin Lock
  BY <1>0, Zenon DEF RVars, RobustListConstants
<1>2. word' = word /\ link' = link /\ list_op_pending' = list_op_pending /\ queue' = queue /\ dirty' = dirty
  BY Zenon DEF WalkEnds
<1>3. CASE ReadWord(t, e, [walk[t] EXCEPT !.entry = e, !.last = TRUE]) /\ faulted' = faulted
  <2> DEFINE w == [walk[t] EXCEPT !.entry = e, !.last = TRUE]
  <2>1. w \in Walks /\ w.entry = e
    BY <1>0, <1>1, Zenon DEF Walks
  <2>a. w.last
    BY <1>0, Zenon DEF Walks
  <2> HIDE DEF w
  <2>2. /\ e \in Lock /\ word[e].owner = t
        /\ at' \in [Thread -> RPlaces] /\ SameBut(t, at') /\ at'[t].pc = "mark"
        /\ walk' \in [Thread -> Walks] /\ \A u \in Thread \ {t} : walk'[u] = walk[u]
        /\ walk'[t].entry = e /\ walk'[t].last = w.last
    <3>1. ReadWord(t, e, w)
      BY <1>3, Zenon DEF w
    <3> HIDE DEF e
    <3> QED BY <2>1, <3>1, ReadWordFacts, Zenon
  <2>3. Along(t)
    BY <1>0, <1>2, <1>3, <2>2, SameFaults, Zenon DEF Along, ExitPlaces
  <2>4. list_op_pending'[t] = e
    BY <1>2, Zenon
  <2>5. Mine(t)'
    <3> HIDE DEF e
    <3> QED BY <1>2, <2>a, <2>2, <2>4, Zenon DEF Mine, AtLock, OwnsIts, EndsWithPending, Onward
  <2> QED BY <1>2, <2>2, <2>3, <2>5, AlongStep, Zenon
<1>4. ASSUME Go(t, "dead"), walk' = [walk EXCEPT ![t] = NoWalk], FaultsGrow(t), Spared(t)' PROVE RStep(t)
  <2> DEFINE r == [at[t] EXCEPT !.pc = "dead"]
  <2>1. r \in RPlaces /\ r.pc = "dead"
    <3>1. "dead" \in GuestPlaces \cup ExitPlaces
      BY Zenon DEF ExitPlaces
    <3> QED BY <1>0, <3>1, PlaceEdit, Zenon
  <2>2. at' = [at EXCEPT ![t] = r]
    BY <1>0, <1>4, Zenon DEF Go, RVars
  <2> HIDE DEF r
  <2>3. at' \in [Thread -> RPlaces] /\ at'[t] = r /\ SameBut(t, at')
    BY <1>0, <2>1, <2>2, Zenon DEF RVars, SameBut
  <2>4. walk' \in [Thread -> Walks] /\ \A u \in Thread \ {t} : walk'[u] = walk[u]
    BY <1>0, <1>4, PlaceTypes, Zenon DEF RVars
  <2>5. Along(t)
    BY <1>0, <1>2, <1>4, <2>1, <2>3, <2>4, Zenon DEF Along, ExitPlaces
  <2>7. Mine(t)'
    BY <1>4, <2>1, <2>3, Zenon DEF Mine, AtLock, OwnsIts, EndsWithPending, Onward
  <2> QED BY <1>2, <2>3, <2>5, <2>7, AlongStep, Zenon
<1>5. CASE ~ (PendingLeft(t) /\ Owns(t, e)) /\ Go(t, "dead") /\ walk' = [walk EXCEPT ![t] = NoWalk]
           /\ faulted' = faulted
  <2>1. e # Nobody => word[e].owner # t
    BY <1>1, <1>5, Zenon DEF PendingLeft, Owns, OwnerOf
  <2>2. Spared(t)'
    BY <1>2, <2>1, Zenon DEF Spared
  <2> QED BY <1>0, <1>4, <1>5, <2>2, SameFaults, Zenon
<1>6. CASE Go(t, "dead") /\ walk' = [walk EXCEPT ![t] = NoWalk] /\ KeptFrom(t, {e})
  <2>1. FaultsGrow(t) /\ \A l \in Lock : l \in {e} /\ word[l].owner = t => l \in faulted'[t]
    BY <1>0, <1>6, KeptFromFacts, Zenon
  <2>2. Spared(t)'
    BY <1>1, <1>2, <2>1, Zenon DEF Spared
  <2> QED BY <1>4, <1>6, <2>1, <2>2, Zenon
<1> QED BY <1>3, <1>5, <1>6, Zenon DEF WalkEnds

LEMMA MarkWordStep ==
    ASSUME RobustListConstants, RInv, NEW t \in Thread, MarkWord(t)
    PROVE  RStep(t) /\ word[walk[t].entry].owner = t
<1>0. RVars /\ Mine(t) /\ at[t].pc = "mark" /\ walk[t] \in Walks /\ at[t] \in RPlaces /\ Nobody \notin Thread
  BY Zenon DEF RInv, RTypes, RVars, MarkWord, RobustListConstants
<1> DEFINE e == walk[t].entry
           d == DeadWord(walk[t].seen)
<1>1. /\ e \in Lock /\ word[e].owner = t /\ (walk[t].last => e = list_op_pending[t])
      /\ NextEntry(t) = walk[t].next /\ NextEntry(t) \in Thread \cup Lock \cup {Nobody}
      /\ ~ walk[t].last /\ NextEntry(t) = Nobody => Spared(t)
  BY <1>0, Zenon DEF Mine, OwnsIts, EndsWithPending, NextEntry, Walks
<1>2. d \in Words /\ d.owner = Nobody /\ d.died
  BY <1>0, Zenon DEF Walks, Words, DeadWord
<1>3. link' = link /\ list_op_pending' = list_op_pending /\ queue' = queue /\ dirty' = dirty
  BY Zenon DEF MarkWord
<1> HIDE DEF d
<1>4. ASSUME word' = [word EXCEPT ![e] = d]
      PROVE  word' \in [Lock -> Words] /\ word'[e] = d /\ \A k \in Lock \ {e} : word'[k] = word[k]
  BY <1>0, <1>1, <1>2, <1>4, Zenon DEF RVars
<1>a. ASSUME Handled(t, NextEntry(t), at), FaultsGrow(t),
             walk[t].last => Spared(t)', Spared(t) => Spared(t)'
      PROVE  Along(t) /\ SameBut(t, at') /\ Mine(t)'
  <2>1. /\ at' \in [Thread -> RPlaces] /\ (\A u \in Thread \ {t} : at'[u] = at[u])
        /\ at'[t].pc = IF walk[t].last \/ NextEntry(t) = Nobody THEN "dead" ELSE "walk"
        /\ walk' \in [Thread -> Walks] /\ (\A u \in Thread \ {t} : walk'[u] = walk[u])
        /\ at'[t].pc = "walk" => ~ walk'[t].last /\ walk'[t].entry \in Thread \cup Lock
    <3>1. at \in [Thread -> RPlaces]
      BY <1>0, Zenon DEF RVars
    <3> QED BY <1>1, <1>a, <3>1, HandledFacts, Zenon
  <2>2. Along(t) /\ SameBut(t, at')
    BY <1>0, <1>3, <1>a, <2>1, Zenon DEF Along, SameBut, ExitPlaces
  <2>3. at'[t].pc = "dead" => Spared(t)'
    BY <1>1, <1>a, <2>1, Zenon
  <2>4. Mine(t)'
    BY <2>1, <2>3, Zenon DEF Mine, AtLock, OwnsIts, EndsWithPending, Onward
  <2> QED BY <2>2, <2>4, Zenon
<1>b. ASSUME word' = [word EXCEPT ![e] = d], faulted' = faulted
      PROVE  (walk[t].last => Spared(t)') /\ (Spared(t) => Spared(t)')
  <2>1. list_op_pending[t] \in Lock \cup {Nobody}
    BY <1>0, Zenon DEF RVars
  <2>2. word'[e].owner # t /\ \A k \in Lock \ {e} : word'[k] = word[k]
    BY <1>0, <1>2, <1>4, <1>b, Zenon
  <2>3. walk[t].last => word'[list_op_pending[t]].owner # t
    BY <1>1, <2>2, Zenon
  <2>4. CASE list_op_pending[t] = e
    BY <1>3, <1>b, <2>2, <2>4, Zenon DEF Spared
  <2>5. CASE list_op_pending[t] # e
    <3>1. ~ walk[t].last
      BY <1>1, <2>5, Zenon
    <3>2. list_op_pending[t] # Nobody => word'[list_op_pending[t]] = word[list_op_pending[t]]
      BY <2>1, <2>2, <2>5, Zenon
    <3> QED BY <1>3, <1>b, <3>1, <3>2, Zenon DEF Spared
  <2> QED BY <2>4, <2>5, Zenon
<1>5. ASSUME Along(t), SameBut(t, at'), Mine(t)', word' = [word EXCEPT ![e] = d] PROVE RStep(t)
  <2>1. Stays(t) /\ at[t].pc \in ExitPlaces
    BY <1>5, Zenon DEF Along, Stays
  <2>2. \A k \in Lock \ {e} : SameWord(k)
    BY <1>4, <1>5, Zenon DEF SameWord
  <2>3. Gives(t, e)
    BY <1>1, <1>2, <1>3, <1>4, <1>5, <2>1, <2>2, Zenon DEF Gives
  <2>4. \E l \in Lock : Gives(t, l) /\ word' \in [Lock -> Words]
    BY <1>1, <1>4, <1>5, <2>3, Zenon
  <2> QED BY <1>3, <1>5, <2>4, AlongStep, Zenon
<1>6. CASE Go(t, "wake one") /\ walk' = walk /\ word' = [word EXCEPT ![e] = d] /\ faulted' = faulted
  <2> DEFINE r == [at[t] EXCEPT !.pc = "wake one"]
  <2>1. r \in RPlaces /\ r.pc = "wake one"
    <3>1. "wake one" \in GuestPlaces \cup ExitPlaces
      BY Zenon DEF ExitPlaces
    <3> QED BY <1>0, <3>1, PlaceEdit, Zenon
  <2>2. at' = [at EXCEPT ![t] = r]
    BY <1>0, <1>6, Zenon DEF Go, RVars
  <2> HIDE DEF r
  <2>3. at' \in [Thread -> RPlaces] /\ at'[t] = r /\ SameBut(t, at')
    BY <1>0, <2>1, <2>2, Zenon DEF RVars, SameBut
  <2>4. Along(t)
    BY <1>0, <1>3, <1>6, <2>1, <2>3, SameFaults, Zenon DEF Along, ExitPlaces, RVars
  <2>5. word'[e].owner # t /\ e = walk'[t].entry
    BY <1>0, <1>2, <1>4, <1>6, Zenon
  <2>6. Mine(t)'
    <3>1. walk'[t].last => walk'[t].entry = list_op_pending'[t]
      BY <1>1, <1>3, <1>6, Zenon
    <3>2. ~ walk'[t].last /\ walk'[t].next = Nobody => Spared(t)'
      BY <1>1, <1>6, <1>b, Zenon
    <3>3. walk'[t].entry \in Lock
      BY <1>1, <1>6, Zenon
    <3> HIDE DEF e
    <3> QED BY <2>1, <2>3, <2>5, <3>1, <3>2, <3>3, Zenon DEF Mine, AtLock, OwnsIts, EndsWithPending, Onward
  <2> QED BY <1>1, <1>5, <1>6, <2>3, <2>4, <2>6, Zenon
<1>7. CASE Handled(t, NextEntry(t), at) /\ word' = [word EXCEPT ![e] = d] /\ faulted' = faulted
  <2>1. FaultsGrow(t)
    BY <1>0, <1>7, SameFaults, Zenon
  <2>2. Along(t) /\ SameBut(t, at') /\ Mine(t)'
    BY <1>7, <1>a, <1>b, <2>1, Zenon
  <2> QED BY <1>1, <1>5, <1>7, <2>2, Zenon
<1>8. CASE Handled(t, NextEntry(t), at) /\ word' = word /\ KeptFrom(t, {e})
  <2>1. FaultsGrow(t) /\ \A l \in Lock : l \in {e} /\ word[l].owner = t => l \in faulted'[t]
    BY <1>0, <1>8, KeptFromFacts, Zenon
  <2>2. list_op_pending[t] \in Lock \cup {Nobody}
    BY <1>0, Zenon DEF RVars
  <2>3. walk[t].last => Spared(t)'
    BY <1>1, <1>3, <2>1, Zenon DEF Spared
  <2>4. Spared(t) => Spared(t)'
    BY <1>3, <1>8, <2>1, <2>2, Zenon DEF Spared, FaultsGrow
  <2>5. Along(t) /\ SameBut(t, at') /\ Mine(t)'
    BY <1>8, <1>a, <2>1, <2>3, <2>4, Zenon
  <2> QED BY <1>1, <1>3, <1>8, <2>5, AlongStep, Zenon
<1>9. \/ Go(t, "wake one") /\ walk' = walk /\ word' = [word EXCEPT ![e] = d] /\ faulted' = faulted
      \/ Handled(t, NextEntry(t), at) /\ word' = [word EXCEPT ![e] = d] /\ faulted' = faulted
      \/ Handled(t, NextEntry(t), at) /\ word' = word /\ KeptFrom(t, {e})
  BY Zenon DEF MarkWord, d
<1> QED BY <1>1, <1>6, <1>7, <1>8, <1>9, Zenon

LEMMA WakeWaiterStep ==
    ASSUME RobustListConstants, RInv, NEW t \in Thread, WakeWaiter(t)
    PROVE  RStep(t)
<1>0. RVars /\ Mine(t) /\ at[t].pc = "wake one" /\ walk[t] \in Walks
  BY Zenon DEF RInv, RTypes, RVars, WakeWaiter
<1> DEFINE e == walk[t].entry
           a == Woken(e, at)
<1>1. /\ e \in Lock /\ word[e].owner # t /\ (walk[t].last => e = list_op_pending[t])
      /\ NextEntry(t) \in Thread \cup Lock \cup {Nobody}
      /\ ~ walk[t].last /\ NextEntry(t) = Nobody => Spared(t)
  BY <1>0, Zenon DEF Mine, OwnsIts, EndsWithPending, NextEntry, Walks
<1>2. /\ word' = word /\ link' = link /\ list_op_pending' = list_op_pending /\ dirty' = dirty
      /\ queue' = AfterWake(e) /\ Handled(t, NextEntry(t), a) /\ faulted' = faulted
  BY Zenon DEF WakeWaiter, history
<1>3. a \in [Thread -> RPlaces] /\ a[t] = at[t] /\ OneWoken(t, e, a)
  <2>1. at \in [Thread -> RPlaces] /\ SameBut(t, at)
    BY <1>0, Zenon DEF RVars, SameBut
  <2> HIDE DEF e
  <2> QED BY <1>0, <1>1, <2>1, WokenFacts, Zenon
<1> HIDE DEF a
<1>4. /\ at' \in [Thread -> RPlaces] /\ (\A u \in Thread \ {t} : at'[u] = a[u])
      /\ at'[t].pc = IF walk[t].last \/ NextEntry(t) = Nobody THEN "dead" ELSE "walk"
      /\ walk' \in [Thread -> Walks] /\ (\A u \in Thread \ {t} : walk'[u] = walk[u])
      /\ at'[t].pc = "walk" => ~ walk'[t].last /\ walk'[t].entry \in Thread \cup Lock
  BY <1>1, <1>2, <1>3, HandledFacts, Zenon
<1>5. OneWoken(t, e, at')
  BY <1>3, <1>4, Zenon DEF OneWoken
<1>6. \A u \in Thread \ {t} : /\ list_op_pending'[u] = list_op_pending[u] /\ walk'[u] = walk[u]
                            /\ faulted'[u] = faulted[u]
  BY <1>2, <1>4, Zenon
<1>7. Others(t) /\ Queues(t)
  <2> HIDE DEF e
  <2> QED BY <1>0, <1>1, <1>2, <1>5, <1>6, WakeKeeps, Zenon
<1>8. RVars'
  BY <1>0, <1>2, <1>4, Zenon DEF RVars
<1>9. at'[t].pc = "dead" => Spared(t)'
  BY <1>1, <1>2, <1>4, Zenon DEF Spared
<1>10. Mine(t)'
  BY <1>4, <1>9, Zenon DEF Mine, AtLock, OwnsIts, EndsWithPending, Onward
<1>11. Deaths(t)
  BY <1>0, <1>2, <1>4, Zenon DEF Deaths, NoWord, Stays, SameWord, ExitPlaces
<1> QED BY <1>7, <1>8, <1>10, <1>11, Zenon DEF RStep

----------------------------------------------------------------------------
LEMMA RobustStarts == ASSUME RobustListConstants PROVE RobustInit => RInv
<1> SUFFICES ASSUME RobustInit PROVE RInv
  OBVIOUS
<1>1. word \in [Lock -> Words] /\ link \in [Thread \cup Lock -> Thread \cup Lock] /\ dirty \subseteq Lock
  BY PlaceTypes, Zenon DEF RobustInit
<1>2. /\ list_op_pending \in [Thread -> Lock \cup {Nobody}] /\ at \in [Thread -> RPlaces]
      /\ walk \in [Thread -> Walks] /\ faulted \in [Thread -> SUBSET Lock]
  BY PlaceTypes, Zenon DEF RobustInit
<1>3. queue \in [Lock -> Seq(Thread)]
  BY SMT DEF RobustInit
<1>4. \A t \in Thread : Mine(t)
  BY PlaceTypes, Zenon DEF RobustInit, Mine, AtLock, OwnsIts, EndsWithPending, Spared, Onward
<1>5. \A l \in Lock : QueueOf(l)
  BY SMT DEF RobustInit, QueueOf, Distinct, OnList
<1>6. \A l \in Lock : DeathOf(l)
  BY PlaceTypes, Zenon DEF RobustInit, DeathOf, RobustListConstants
<1> QED BY <1>1, <1>2, <1>3, <1>4, <1>5, <1>6, Zenon DEF RInv, RTypes, RVars

LEMMA RobustNextKeeps ==
    ASSUME RobustListConstants, RInv, [RobustNext]_robustVars
    PROVE  RInv'
<1>1. ASSUME NEW t \in Thread, GuestStep(t) PROVE RInv'
  BY <1>1, GuestTryStep, GuestWaitStep, GuestLinkStep, GuestUnlockStep, GuestWakeStep, RStepKeeps,
     Zenon DEF GuestStep
<1>2. ASSUME NEW t \in Thread, WalkStep(t) PROVE RInv'
  BY <1>2, WalkEntryStep, WalkEndsStep, MarkWordStep, WakeWaiterStep, RStepKeeps, Zenon DEF WalkStep
<1>3. ASSUME NEW t \in Thread, Exit(t) PROVE RInv'
  BY <1>3, ExitStep, RStepKeeps, Zenon
<1>4. ASSUME NEW t \in Thread, NEW l \in Lock, GuestLock(t, l) \/ GuestUnlink(t, l) PROVE RInv'
  BY <1>4, GuestLockStep, GuestUnlinkStep, RStepKeeps, Zenon
<1>5. CASE UNCHANGED robustVars
  <2>1. /\ word' = word /\ link' = link /\ list_op_pending' = list_op_pending /\ at' = at
        /\ queue' = queue /\ walk' = walk /\ dirty' = dirty /\ faulted' = faulted
    BY <1>5, Zenon DEF robustVars, history
  <2>2. RTypes'
    BY <2>1, Zenon DEF RInv, RTypes, RVars
  <2>3. ASSUME NEW t \in Thread PROVE Mine(t)'
    BY <2>1, Zenon DEF RInv, Mine, AtLock, OwnsIts, EndsWithPending, Spared, Onward
  <2>4. ASSUME NEW l \in Lock PROVE QueueOf(l)' /\ DeathOf(l)'
    BY <2>1, Zenon DEF RInv, QueueOf, DeathOf
  <2> QED BY <2>2, <2>3, <2>4, Zenon DEF RInv
<1> QED BY <1>1, <1>2, <1>3, <1>4, <1>5, Zenon DEF RobustNext, AllDead

(* Whoever takes a robust lock finds FUTEX_OWNER_DIED set if and only if   *)
(* its last owner died with it, wherever in locking or unlocking and       *)
(* whatever was done with the lists meanwhile (robust_handle_death).       *)
THEOREM TheNextOwnerIsTold == ASSUME RobustListConstants PROVE RobustSpec => DeathIsTold
<1>1. RInv /\ [RobustNext]_robustVars => [DeathIsToldStep]_robustVars
  BY Zenon DEF RInv, DeathOf, DeathIsToldStep
<1>2. RobustInit => RInv
  BY RobustStarts
<1>3. RInv /\ [RobustNext]_robustVars => RInv'
  BY RobustNextKeeps, SMTT(30)
<1> QED BY <1>1, <1>2, <1>3, PTL DEF RobustSpec, DeathIsTold

(* The word a walk writes is one that names its thread at that moment,     *)
(* though it was read earlier and no lock is held (robust_handle_death).   *)
THEOREM NoForeignWordIsWritten == ASSUME RobustListConstants PROVE RobustSpec => WalkWritesOwnWords
<1>1. RInv /\ [RobustNext]_robustVars => [OwnWordsStep]_robustVars
  BY MarkWordStep, Zenon DEF RInv, OwnWordsStep
<1>2. RobustInit => RInv
  BY RobustStarts
<1>3. RInv /\ [RobustNext]_robustVars => RInv'
  BY RobustNextKeeps
<1> QED BY <1>1, <1>2, <1>3, PTL DEF RobustSpec, WalkWritesOwnWords

(* However short the limit is against the list, a thread that is gone does *)
(* not own the lock an operation was in progress on (list_op_pending),     *)
(* unless an access to its memory failed on the way there.                 *)
THEOREM TheInterruptedLockIsLeft == ASSUME RobustListConstants PROVE RobustSpec => []PendingIsReleased
<1>1. RInv => PendingIsReleased
  BY Zenon DEF RInv, Mine, EndsWithPending, Spared, PendingIsReleased
<1>2. RobustInit => RInv
  BY RobustStarts
<1>3. RInv /\ [RobustNext]_robustVars => RInv'
  BY RobustNextKeeps
<1> QED BY <1>1, <1>2, <1>3, PTL DEF RobustSpec
=============================================================================
