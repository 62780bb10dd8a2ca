---------------------------- MODULE TimerProofs ----------------------------
(***************************************************************************)
(* For every set of times and periods and every bound on the clock and the *)
(* armings: what is due is delivered once, no wake is lost, what           *)
(* timer_read and timer_settle report is exact, and the last one to use a  *)
(* timer frees it.                                                         *)
(***************************************************************************)
EXTENDS Timer, TLAPS

----------------------------------------------------------------------------
(* The types, by where the thread is.                                      *)
TimerStruct ==
    [end : Int, interval : Nat, active : BOOLEAN, thread_running : BOOLEAN, firing : BOOLEAN,
     fired : Nat, generation : Nat, wake_fd : BOOLEAN, dead : BOOLEAN, freed : BOOLEAN]
NapThread ==
    [pc : {"nap", "woken"}, generation : Nat, end : Int, interval : Nat, until : Int]
CallThread ==
    [pc : {"callback"}, generation : Nat, end : Int, interval : Nat, count : Nat \ {0}]
Armings == [on : BOOLEAN, first : Int, interval : Nat, count : Nat]
Settles == {[on |-> FALSE]} \cup [on : {TRUE}, fired : Nat, ran : BOOLEAN]

LEMMA ThreadKinds ==
    ASSUME NEW h \in Threads
    PROVE  /\ h.pc \in {"none", "start", "nap", "woken", "callback"}
           /\ h.pc \in {"nap", "woken"} => h \in NapThread
           /\ h.pc = "callback" => h \in CallThread
<1>1. CASE h = NotStarted
  BY <1>1, Zenon DEF NotStarted
<1>2. CASE h = [pc |-> "start"]
  BY <1>2, Zenon
<1>3. CASE h \in NapThread
  BY <1>3, Zenon DEF NapThread
<1>4. CASE h \in CallThread
  BY <1>4, Zenon DEF CallThread
<1> QED BY <1>1, <1>2, <1>3, <1>4, Zenon DEF Threads, NapThread, CallThread

TimerTypes ==
    /\ now \in Nat /\ timer \in TimerStruct /\ thread \in Threads /\ armed \in Armings
    /\ raised \in BOOLEAN /\ owner \in BOOLEAN /\ source \in BOOLEAN /\ gone \in BOOLEAN
    /\ settle \in Settles

LEMMA TimerTypesAre == TimerTypes <=> TimerTypeOK
BY Zenon DEF TimerTypes, TimerTypeOK, TimerStruct, Armings, Settles

----------------------------------------------------------------------------
(* The invariant, of a timer and the thread that sleeps for it.            *)

(* thread_running and firing say where the thread is. *)
Running(tm, h) == (tm.thread_running <=> h.pc # "none") /\ (tm.firing <=> h.pc = "callback")

(* Who is to free the timer. *)
Lifetime(o, tm, h) ==
    /\ o => ~ tm.dead /\ ~ tm.freed
    /\ ~ o => ~ tm.active /\ (tm.freed \/ (tm.dead /\ h.pc # "none"))
    /\ tm.freed => h.pc = "none"

(* A nap that is no longer wanted is cut short. *)
Heeds(tm, h, r, n) ==
    h.pc = "nap" =>
        /\ tm.wake_fd /\ (h.generation # tm.generation \/ ~ tm.active) => r
        /\ ~ tm.wake_fd => h.until <= n + Slice

(* What a caller of timer_settle compares is behind if a callback ran. *)
Settling(s, tm) == s.on => s.fired <= tm.fired /\ (s.ran => s.fired < tm.fired)

(* The history tells of the arming in force. *)
Arming(a, tm) == (a.on <=> tm.active) /\ a.interval = tm.interval

(* The arming in force is one the thread has yet to see to. *)
Awaits(tm, h) ==
    h.pc \in {"start", "nap", "woken"} \/ (h.pc = "callback" /\ h.generation # tm.generation)

(* What is still owed for it: of a one-shot nothing once it was delivered. *)
Owing(tm, h, a) ==
    tm.active =>
        /\ Awaits(tm, h) => (a.count # 0 => tm.interval # 0)
        /\ h.pc = "none" => tm.interval = 0 /\ a.count # 0
        /\ h.pc = "callback" /\ h.generation = tm.generation =>
               a.count # 0 /\ h.interval = tm.interval

(* No thread has seen an arming that is still to come. *)
Generations(tm, h) == h.pc \in {"nap", "woken", "callback"} => h.generation <= tm.generation

TimerInv ==
    /\ TimerTypes /\ Running(timer, thread) /\ Lifetime(owner, timer, thread)
    /\ Heeds(timer, thread, raised, now) /\ Settling(settle, timer) /\ Arming(armed, timer)
    /\ Owing(timer, thread, armed) /\ Generations(timer, thread)

(* The struct as the thread finds it at the top of its loop, and what the  *)
(* caller of timer_settle has.                                             *)
Ready(tm, s) ==
    /\ tm \in TimerStruct /\ tm.thread_running /\ ~ tm.firing
    /\ owner => ~ tm.dead /\ ~ tm.freed
    /\ ~ owner => ~ tm.active /\ tm.dead /\ ~ tm.freed
    /\ s \in Settles /\ Settling(s, tm) /\ Arming(armed, tm)
    /\ tm.active => (armed.count # 0 => tm.interval # 0)

----------------------------------------------------------------------------
(* The thread's last step, and what it leaves.                             *)
LEMMA FinishFacts ==
    ASSUME NEW tm \in TimerStruct, Finish(tm)
    PROVE  /\ timer' \in TimerStruct /\ ~ timer'.thread_running /\ ~ timer'.wake_fd
           /\ timer'.freed <=> tm.freed \/ tm.dead
           /\ timer'.end = tm.end /\ timer'.interval = tm.interval
           /\ timer'.active = tm.active /\ timer'.firing = tm.firing
           /\ timer'.fired = tm.fired /\ timer'.generation = tm.generation
           /\ timer'.dead = tm.dead
           /\ thread' = NotStarted /\ thread' \in Threads /\ thread'.pc = "none" /\ armed' = armed
<1>1. timer' = [tm EXCEPT !.thread_running = FALSE, !.wake_fd = FALSE, !.freed = tm.freed \/ tm.dead]
  BY Zenon DEF Finish
<1>2. thread' = NotStarted /\ armed' = armed
  BY Zenon DEF Finish
<1>3. thread' \in Threads /\ thread'.pc = "none"
  BY <1>2, Zenon DEF Threads, NotStarted
<1> QED BY <1>1, <1>2, <1>3, Zenon DEF TimerStruct

LEMMA FinishKeeps ==
    ASSUME TimerInv, NEW tm \in TimerStruct, NEW s, Finish(tm),
           tm.thread_running, ~ tm.firing, Lifetime(owner, tm, thread), thread.pc # "none",
           s \in Settles, Settling(s, tm), Arming(armed, tm),
           tm.active => tm.interval = 0 /\ armed.count # 0,
           now' = now, raised' = raised, owner' = owner, source' = source, settle' = s,
           gone' \in BOOLEAN
    PROVE  TimerInv'
<1> USE FinishFacts
<1>1. TimerTypes'
  BY Zenon DEF TimerInv, TimerTypes
<1>2. Running(timer', thread')
  BY Zenon DEF Running
<1>3. Lifetime(owner', timer', thread')
  BY Zenon DEF Lifetime
<1>4. Settling(settle', timer') /\ Arming(armed', timer')
  BY Zenon DEF Settling, Arming
<1>5. Heeds(timer', thread', raised', now') /\ Owing(timer', thread', armed') /\ Generations(timer', thread')
  BY Zenon DEF Heeds, Owing, Generations, Awaits
<1> QED BY <1>1, <1>2, <1>3, <1>4, <1>5, Zenon DEF TimerInv

----------------------------------------------------------------------------
(* Sums and differences of times, and the periods that have passed.        *)
LEMMA WrappedInt == ASSUME TimerConstants, NEW x \in Int PROVE Wrapped(x) \in Int
BY SMT DEF Wrapped, TimerConstants

LEMMA SumTypes ==
    ASSUME TimerConstants, NEW x \in Int, NEW y \in Int
    PROVE  timespec_add(x, y) \in Int /\ timespec_subtract(x, y) \in Int
<1>1. x + y \in Int /\ x - y \in Int
  BY SMT
<1> QED BY <1>1, WrappedInt, Zenon DEF timespec_add, timespec_subtract

LEMMA DivFacts ==
    ASSUME NEW i \in Nat \ {0}, NEW d \in Nat
    PROVE  d \div i \in Nat /\ (d \div i) * i <= d /\ d < (d \div i) * i + i
BY SMT

LEMMA PeriodsType ==
    ASSUME TimerConstants, NEW e \in Int, NEW a \in Int, NEW i \in Nat
    PROVE  timer_periods_past(e, a, i) \in Nat
<1> DEFINE b == timespec_subtract(a, e)
<1>1. b \in Int
  BY SumTypes, Zenon
<1> HIDE DEF b
<1>2. CASE i = 0 \/ b <= 0
  BY <1>2, SMT DEF timer_periods_past, b
<1>3. CASE ~ (i = 0 \/ b <= 0)
  <2>1. i \in Nat \ {0} /\ b \in Nat
    BY <1>1, <1>3, SMT
  <2>2. b \div i \in Nat
    BY <2>1, DivFacts, Zenon
  <2> QED BY <1>3, <2>2, Zenon DEF timer_periods_past, b
<1> QED BY <1>2, <1>3, Zenon

LEMMA NapFacts ==
    ASSUME TimerConstants, now \in Nat, NEW tm \in TimerStruct, Nap(tm, tm.generation)
    PROVE  /\ timer' = tm /\ armed' = armed /\ thread' \in Threads /\ thread'.pc = "nap"
           /\ thread'.generation = tm.generation
           /\ ~ tm.wake_fd => thread'.until <= now + Slice
<1> DEFINE most == IF tm.wake_fd THEN NapMax ELSE SmallerOf(NapMax, Slice)
           u == now + SmallerOf(Remaining(tm), most)
<1>1. Remaining(tm) \in Int
  <2>1. tm.end \in Int /\ now \in Int
    BY SMT DEF TimerStruct
  <2> QED BY <2>1, SumTypes, Zenon DEF Remaining
<1>2. u \in Int /\ (~ tm.wake_fd => u <= now + Slice)
  <2>1. CASE tm.wake_fd
    BY <1>1, <2>1, SMT DEF SmallerOf, TimerConstants
  <2>2. CASE ~ tm.wake_fd
    BY <1>1, <2>2, SMT DEF SmallerOf, TimerConstants
  <2> QED BY <2>1, <2>2, Zenon
<1>3. /\ timer' = tm /\ armed' = armed
      /\ thread' = [pc |-> "nap", generation |-> tm.generation, end |-> tm.end,
                    interval |-> tm.interval, until |-> u]
  BY Zenon DEF Nap
<1> HIDE DEF u
<1>4. thread' \in NapThread /\ thread'.pc = "nap" /\ thread'.generation = tm.generation /\ thread'.until = u
  BY <1>2, <1>3, Zenon DEF NapThread, TimerStruct
<1> QED BY <1>2, <1>3, <1>4, Zenon DEF Threads, NapThread

LEMMA FireFacts ==
    ASSUME TimerConstants, now \in Nat, armed \in Armings, NEW tm \in TimerStruct,
           FireNow(tm, tm.generation)
    PROVE  /\ timer' \in TimerStruct /\ timer'.firing
           /\ timer'.end = tm.end /\ timer'.interval = tm.interval
           /\ timer'.active = tm.active /\ timer'.thread_running = tm.thread_running
           /\ timer'.fired = tm.fired /\ timer'.generation = tm.generation
           /\ timer'.dead = tm.dead /\ timer'.freed = tm.freed
           /\ thread' \in CallThread /\ thread' \in Threads /\ thread'.pc = "callback"
           /\ thread'.generation = tm.generation /\ thread'.end = tm.end
           /\ thread'.interval = tm.interval
           /\ thread'.count = 1 + timer_periods_past(tm.end, now, tm.interval)
           /\ armed' \in Armings /\ armed'.on = armed.on /\ armed'.first = armed.first
           /\ armed'.interval = armed.interval
           /\ armed'.count = armed.count + thread'.count /\ armed'.count # 0
<1> DEFINE n == 1 + timer_periods_past(tm.end, now, tm.interval)
<1>0. tm.end \in Int /\ tm.interval \in Nat /\ tm.generation \in Nat /\ now \in Int
  BY SMT DEF TimerStruct
<1>1. n \in Nat \ {0}
  <2>1. timer_periods_past(tm.end, now, tm.interval) \in Nat
    BY <1>0, PeriodsType, Zenon
  <2> QED BY <2>1, SMT
<1> HIDE DEF n
<1>2. armed.count \in Nat
  BY Zenon DEF Armings
<1>3. armed.count + n \in Nat /\ armed.count + n # 0
  BY <1>1, <1>2, SMT
<1>4. /\ timer' = [tm EXCEPT !.firing = TRUE]
      /\ thread' = [pc |-> "callback", generation |-> tm.generation, end |-> tm.end,
                    interval |-> tm.interval, count |-> n]
      /\ armed' = [armed EXCEPT !.count = armed.count + n]
  BY Zenon DEF FireNow, n
<1>5. thread' \in CallThread /\ thread'.count = n /\ thread'.pc = "callback"
      /\ thread'.generation = tm.generation /\ thread'.end = tm.end /\ thread'.interval = tm.interval
  BY <1>0, <1>1, <1>4, Zenon DEF CallThread
<1>6. armed' \in Armings /\ armed'.on = armed.on /\ armed'.first = armed.first
      /\ armed'.interval = armed.interval /\ armed'.count = armed.count + n
  BY <1>3, <1>4, Zenon DEF Armings
<1>7. /\ timer' \in TimerStruct /\ timer'.firing
      /\ timer'.end = tm.end /\ timer'.interval = tm.interval
      /\ timer'.active = tm.active /\ timer'.thread_running = tm.thread_running
      /\ timer'.fired = tm.fired /\ timer'.generation = tm.generation
      /\ timer'.dead = tm.dead /\ timer'.freed = tm.freed
  BY <1>4, Zenon DEF TimerStruct
<1>8. thread' \in Threads
  BY <1>5, Zenon DEF Threads, CallThread
<1> QED BY <1>3, <1>5, <1>6, <1>7, <1>8, Zenon DEF n

LEMMA LoopKeeps ==
    ASSUME TimerConstants, TimerInv, thread.pc # "none", NEW tm, NEW s, Ready(tm, s), LoopTop(tm),
           now' = now, raised' = raised, owner' = owner, source' = source, settle' = s,
           gone' \in BOOLEAN
    PROVE  TimerInv'
<1>0. tm \in TimerStruct /\ now \in Nat /\ armed \in Armings /\ tm.generation \in Nat
  BY Zenon DEF Ready, TimerInv, TimerTypes, TimerStruct
<1>1. CASE ~ tm.active /\ Finish(tm)
  <2>1. Lifetime(owner, tm, thread)
    BY Zenon DEF Lifetime, Ready
  <2> QED BY <1>0, <1>1, <2>1, FinishKeeps, Zenon DEF Ready
<1>2. CASE tm.active /\ Nap(tm, tm.generation)
  <2> USE <1>0, <1>2, NapFacts
  <2>1. TimerTypes'
    BY Zenon DEF TimerInv, TimerTypes, Ready
  <2>2. Running(timer', thread')
    BY Zenon DEF Running, Ready
  <2>3. Lifetime(owner', timer', thread')
    BY Zenon DEF Lifetime, Ready
  <2>4. Settling(settle', timer') /\ Arming(armed', timer')
    BY Zenon DEF Settling, Arming, Ready
  <2>5. Heeds(timer', thread', raised', now')
    BY Zenon DEF Heeds
  <2>6. Owing(timer', thread', armed')
    BY Zenon DEF Owing, Awaits, Ready
  <2>7. Generations(timer', thread')
    <3>1. tm.generation <= tm.generation
      BY SMT
    <3> QED BY <3>1, Zenon DEF Generations
  <2> QED BY <2>1, <2>2, <2>3, <2>4, <2>5, <2>6, <2>7, Zenon DEF TimerInv
<1>3. CASE tm.active /\ FireNow(tm, tm.generation)
  <2>0. owner
    BY <1>3, Zenon DEF Ready
  <2> USE <1>0, <1>3, FireFacts
  <2>1. TimerTypes'
    BY Zenon DEF TimerInv, TimerTypes, Ready
  <2>2. Running(timer', thread')
    BY Zenon DEF Running, Ready
  <2>3. Lifetime(owner', timer', thread')
    BY <2>0, Zenon DEF Lifetime, Ready
  <2>4. Settling(settle', timer') /\ Arming(armed', timer')
    BY Zenon DEF Settling, Arming, Ready
  <2>5. Heeds(timer', thread', raised', now')
    BY Zenon DEF Heeds
  <2>6. Owing(timer', thread', armed')
    BY Zenon DEF Owing, Awaits
  <2>7. Generations(timer', thread')
    <3>1. tm.generation <= tm.generation
      BY SMT
    <3> QED BY <3>1, Zenon DEF Generations
  <2> QED BY <2>1, <2>2, <2>3, <2>4, <2>5, <2>6, <2>7, Zenon DEF TimerInv
<1> QED BY <1>1, <1>2, <1>3, Zenon DEF LoopTop

----------------------------------------------------------------------------
(* The thread's steps.                                                     *)
LEMMA TimerReady ==
    ASSUME TimerInv, thread.pc \in {"start", "woken"}
    PROVE  Ready(timer, settle)
<1>1. Running(timer, thread) /\ Lifetime(owner, timer, thread) /\ Settling(settle, timer)
      /\ Arming(armed, timer) /\ Owing(timer, thread, armed) /\ TimerTypes
  BY Zenon DEF TimerInv
<1>2. timer \in TimerStruct /\ settle \in Settles /\ timer.thread_running /\ ~ timer.firing
  BY <1>1, Zenon DEF TimerTypes, Running
<1>3. (owner => ~ timer.dead /\ ~ timer.freed) /\ (~ owner => ~ timer.active /\ timer.dead /\ ~ timer.freed)
  BY <1>1, Zenon DEF Lifetime
<1>4. timer.active => (armed.count # 0 => timer.interval # 0)
  BY <1>1, Zenon DEF Owing, Awaits
<1> QED BY <1>1, <1>2, <1>3, <1>4, Zenon DEF Ready

LEMMA ReadClockType == ASSUME TimerInv, ReadClock PROVE gone' \in BOOLEAN
BY Zenon DEF ReadClock

LEMMA ThreadStartsKeeps == ASSUME TimerConstants, TimerInv, ThreadStarts PROVE TimerInv'
<1>1. Ready(timer, settle) /\ thread.pc # "none"
  BY TimerReady, Zenon DEF ThreadStarts
<1> QED BY <1>1, LoopKeeps, ReadClockType, Zenon DEF ThreadStarts

LEMMA ThreadRelocksKeeps == ASSUME TimerConstants, TimerInv, ThreadRelocks PROVE TimerInv'
<1>1. Ready(timer, settle) /\ thread.pc = "woken"
  BY TimerReady, Zenon DEF ThreadRelocks
<1>2. CASE ~ timer.active /\ Finish(timer) /\ gone' = gone
  <2>1. gone' \in BOOLEAN /\ Lifetime(owner, timer, thread)
    BY <1>2, Zenon DEF TimerInv, TimerTypes
  <2> QED BY <1>1, <1>2, <2>1, FinishKeeps, Zenon DEF ThreadRelocks, Ready
<1>3. CASE ReadClock /\ LoopTop(timer)
  BY <1>1, <1>3, LoopKeeps, ReadClockType, Zenon DEF ThreadRelocks
<1> QED BY <1>2, <1>3, Zenon DEF ThreadRelocks

(* What a callback leaves: counted, and off the firing state.              *)
Returned(tm) == [tm EXCEPT !.firing = FALSE, !.fired = tm.fired + 1]

LEMMA ReturnedFacts ==
    ASSUME NEW tm \in TimerStruct
    PROVE  /\ Returned(tm) \in TimerStruct /\ ~ Returned(tm).firing /\ Returned(tm).fired = tm.fired + 1
           /\ Returned(tm).end = tm.end /\ Returned(tm).interval = tm.interval
           /\ Returned(tm).active = tm.active /\ Returned(tm).thread_running = tm.thread_running
           /\ Returned(tm).generation = tm.generation /\ Returned(tm).wake_fd = tm.wake_fd
           /\ Returned(tm).dead = tm.dead /\ Returned(tm).freed = tm.freed
<1>1. tm.fired + 1 \in Nat
  BY SMT DEF TimerStruct
<1> QED BY <1>1, Zenon DEF Returned, TimerStruct

LEMMA EndedFacts ==
    ASSUME NEW tm \in TimerStruct, NEW e \in Int
    PROVE  /\ [tm EXCEPT !.end = e] \in TimerStruct /\ [tm EXCEPT !.end = e].end = e
           /\ [tm EXCEPT !.end = e].firing = tm.firing /\ [tm EXCEPT !.end = e].fired = tm.fired
           /\ [tm EXCEPT !.end = e].interval = tm.interval /\ [tm EXCEPT !.end = e].active = tm.active
           /\ [tm EXCEPT !.end = e].thread_running = tm.thread_running
           /\ [tm EXCEPT !.end = e].generation = tm.generation
           /\ [tm EXCEPT !.end = e].wake_fd = tm.wake_fd
           /\ [tm EXCEPT !.end = e].dead = tm.dead /\ [tm EXCEPT !.end = e].freed = tm.freed
BY Zenon DEF TimerStruct

(* What the caller of timer_settle has once a callback has run. *)
Ran(s) == IF s.on THEN [s EXCEPT !.ran = TRUE] ELSE s

LEMMA RanSettles ==
    ASSUME NEW s \in Settles, NEW tm \in TimerStruct, Settling(s, tm)
    PROVE  Ran(s) \in Settles /\ Settling(Ran(s), Returned(tm)) /\ Ran(s).on = s.on
<1>1. CASE s = [on |-> FALSE]
  BY <1>1, Zenon DEF Ran, Settling
<1>2. CASE s \in [on : {TRUE}, fired : Nat, ran : BOOLEAN]
  <2>1. s.on /\ s.on = TRUE /\ s.fired \in Nat /\ tm.fired \in Nat
    BY <1>2, Zenon DEF TimerStruct
  <2>2. Ran(s) = [s EXCEPT !.ran = TRUE]
    BY <2>1, Zenon DEF Ran
  <2>3. [s EXCEPT !.ran = TRUE] \in Settles /\ [s EXCEPT !.ran = TRUE].on = s.on
        /\ [s EXCEPT !.ran = TRUE].fired = s.fired
    BY <1>2, Zenon DEF Settles
  <2>4. s.fired < tm.fired + 1 /\ s.fired <= tm.fired + 1
    BY <2>1, SMT DEF Settling
  <2> QED BY <2>1, <2>2, <2>3, <2>4, ReturnedFacts, Zenon DEF Settling
<1> QED BY <1>1, <1>2, Zenon DEF Settles

LEMMA NextEndType == ASSUME TimerConstants, thread \in CallThread PROVE NextEnd \in Int
<1>1. thread.end \in Int /\ thread.interval \in Int /\ (thread.count - 1) * thread.interval \in Int
  BY SMT DEF CallThread
<1>2. timespec_add(thread.end, (thread.count - 1) * thread.interval) \in Int
  BY <1>1, SumTypes, Zenon
<1> QED BY <1>1, <1>2, SumTypes, Zenon DEF NextEnd

LEMMA CallbackReady ==
    ASSUME TimerInv, thread.pc = "callback", NEW tm \in TimerStruct,
           ~ tm.firing, tm.thread_running = timer.thread_running,
           tm.fired = Returned(timer).fired, tm.interval = timer.interval,
           tm.active = timer.active, tm.dead = timer.dead, tm.freed = timer.freed,
           timer.active => (armed.count # 0 => timer.interval # 0)
    PROVE  Ready(tm, Ran(settle))
<1>1. Running(timer, thread) /\ Lifetime(owner, timer, thread) /\ Settling(settle, timer)
      /\ Arming(armed, timer) /\ timer \in TimerStruct /\ settle \in Settles
  BY Zenon DEF TimerInv, TimerTypes
<1>2. Ran(settle) \in Settles /\ Settling(Ran(settle), tm)
  BY <1>1, RanSettles, Zenon DEF Settling
<1>3. tm.thread_running /\ Arming(armed, tm)
  BY <1>1, Zenon DEF Running, Arming
<1>4. (owner => ~ tm.dead /\ ~ tm.freed) /\ (~ owner => ~ tm.active /\ tm.dead /\ ~ tm.freed)
  BY <1>1, Zenon DEF Lifetime
<1>5. tm.active => (armed.count # 0 => tm.interval # 0)
  BY Zenon
<1> QED BY <1>2, <1>3, <1>4, <1>5, Zenon DEF Ready

LEMMA CallbackReturnsKeeps == ASSUME TimerConstants, TimerInv, CallbackReturns PROVE TimerInv'
<1>0. /\ thread.pc = "callback" /\ thread \in CallThread /\ timer \in TimerStruct
      /\ Owing(timer, thread, armed) /\ Arming(armed, timer) /\ Lifetime(owner, timer, thread)
      /\ gone \in BOOLEAN
  BY ThreadKinds, Zenon DEF TimerInv, TimerTypes, CallbackReturns
<1> DEFINE tm == Returned(timer)
           tn == [tm EXCEPT !.end = NextEnd]
<1>1. /\ tm \in TimerStruct /\ ~ tm.firing /\ tm.fired = Returned(timer).fired
      /\ tm.interval = timer.interval /\ tm.active = timer.active
      /\ tm.thread_running = timer.thread_running /\ tm.dead = timer.dead /\ tm.freed = timer.freed
  BY <1>0, ReturnedFacts, Zenon
<1>2. settle' = Ran(settle) /\ now' = now /\ raised' = raised /\ owner' = owner /\ source' = source
  BY Zenon DEF CallbackReturns, Ran
<1>3. CASE ~ SameArming /\ ReadClock /\ LoopTop(tm)
  <2>1. timer.active => (armed.count # 0 => timer.interval # 0)
    BY <1>0, <1>3, Zenon DEF SameArming, Owing, Awaits
  <2>2. Ready(tm, Ran(settle))
    <3> HIDE DEF tm
    <3> QED BY <1>0, <1>1, <2>1, CallbackReady, Zenon
  <2> HIDE DEF tm
  <2> QED BY <1>0, <1>2, <1>3, <2>2, LoopKeeps, ReadClockType, Zenon
<1>4. CASE SameArming /\ timer.active /\ thread.interval > 0 /\ ReadClock /\ LoopTop(tn)
  <2>1. timer.interval # 0
    <3>1. thread.interval = timer.interval
      BY <1>0, <1>4, Zenon DEF SameArming, Owing
    <3> QED BY <1>4, <3>1, SMT
  <2>2. NextEnd \in Int
    BY <1>0, NextEndType, Zenon
  <2>3. /\ tn \in TimerStruct /\ ~ tn.firing /\ tn.fired = Returned(timer).fired
        /\ tn.interval = timer.interval /\ tn.active = timer.active
        /\ tn.thread_running = timer.thread_running /\ tn.dead = timer.dead /\ tn.freed = timer.freed
    <3> HIDE DEF tm
    <3> QED BY <1>1, <2>2, EndedFacts, Zenon
  <2> HIDE DEF tn
  <2>4. Ready(tn, Ran(settle))
    BY <1>0, <2>1, <2>3, CallbackReady, Zenon
  <2> QED BY <1>0, <1>2, <1>4, <2>4, LoopKeeps, ReadClockType, Zenon
<1>5. CASE SameArming /\ ~ (timer.active /\ thread.interval > 0) /\ Finish(tm) /\ gone' = gone
  <2>1. timer.active => armed.count # 0 /\ thread.interval = timer.interval
    BY <1>0, <1>5, Zenon DEF SameArming, Owing
  <2>2. timer.active => timer.interval = 0
    <3>1. thread.interval \in Nat
      BY <1>0, Zenon DEF CallThread
    <3> QED BY <1>5, <2>1, <3>1, SMT
  <2>3. Settling(Ran(settle), tm) /\ Ran(settle) \in Settles /\ Arming(armed, tm)
    BY <1>0, <1>1, RanSettles, Zenon DEF TimerInv, TimerTypes, Arming
  <2>4. Lifetime(owner, tm, thread) /\ tm.thread_running
    BY <1>0, <1>1, Zenon DEF Lifetime, TimerInv, Running
  <2> HIDE DEF tm
  <2> QED BY <1>0, <1>1, <1>2, <1>5, <2>1, <2>2, <2>3, <2>4, FinishKeeps, Zenon
<1> QED BY <1>3, <1>4, <1>5, Zenon DEF CallbackReturns, Returned

LEMMA NapOverKeeps == ASSUME TimerConstants, TimerInv, NapEnds \/ NapInterrupted PROVE TimerInv'
<1>0. thread.pc = "nap" /\ thread \in NapThread
  BY ThreadKinds, Zenon DEF TimerInv, TimerTypes, NapEnds, NapInterrupted
<1>1. thread' = [thread EXCEPT !.pc = "woken"]
  BY Zenon DEF NapEnds, NapInterrupted
<1>2. thread' \in NapThread /\ thread'.pc = "woken" /\ thread'.generation = thread.generation
  BY <1>0, <1>1, Zenon DEF NapThread
<1>3. /\ now' = now /\ timer' = timer /\ owner' = owner /\ source' = source /\ armed' = armed
      /\ gone' = gone /\ settle' = settle /\ raised' \in BOOLEAN
  BY Zenon DEF NapEnds, NapInterrupted, TimerInv, TimerTypes
<1>4. TimerTypes'
  BY <1>2, <1>3, Zenon DEF TimerInv, TimerTypes, Threads, NapThread
<1>5. Running(timer', thread') /\ Lifetime(owner', timer', thread')
  BY <1>0, <1>2, <1>3, Zenon DEF TimerInv, Running, Lifetime
<1>6. Settling(settle', timer') /\ Arming(armed', timer') /\ Heeds(timer', thread', raised', now')
  BY <1>2, <1>3, Zenon DEF TimerInv, Heeds
<1>7. Owing(timer', thread', armed')
  BY <1>0, <1>2, <1>3, Zenon DEF TimerInv, Owing, Awaits
<1>8. Generations(timer', thread')
  BY <1>0, <1>2, <1>3, Zenon DEF TimerInv, Generations
<1> QED BY <1>4, <1>5, <1>6, <1>7, <1>8, Zenon DEF TimerInv

----------------------------------------------------------------------------
(* The callers.                                                            *)
Set(v, i, a) ==
    [timer EXCEPT !.generation = timer.generation + 1, !.end = EndOf(v), !.interval = i, !.active = a]

LEMMA SetFacts ==
    ASSUME TimerConstants, now \in Nat, timer \in TimerStruct, NEW v \in Int, NEW i \in Nat,
           NEW a \in BOOLEAN
    PROVE  /\ Set(v, i, a) \in TimerStruct /\ Set(v, i, a).generation = timer.generation + 1
           /\ Set(v, i, a).end = EndOf(v) /\ EndOf(v) \in Int
           /\ Set(v, i, a).interval = i /\ Set(v, i, a).active = a
           /\ Set(v, i, a).thread_running = timer.thread_running
           /\ Set(v, i, a).firing = timer.firing /\ Set(v, i, a).fired = timer.fired
           /\ Set(v, i, a).wake_fd = timer.wake_fd
           /\ Set(v, i, a).dead = timer.dead /\ Set(v, i, a).freed = timer.freed
<1>1. timer.generation + 1 \in Nat /\ now \in Int /\ TimeMax \in Int
  BY SMT DEF TimerStruct, TimerConstants
<1>2. EndOf(v) \in Int
  BY <1>1, SumTypes, Zenon DEF EndOf
<1> QED BY <1>1, <1>2, Zenon DEF Set, TimerStruct

ArmingOf(v, i, a) == [on |-> a, first |-> now + v, interval |-> i, count |-> 0]

LEMMA ArmingFacts ==
    ASSUME now \in Nat, NEW v \in Int, NEW i \in Nat, NEW a \in BOOLEAN
    PROVE  /\ ArmingOf(v, i, a) \in Armings /\ ArmingOf(v, i, a).on = a
           /\ ArmingOf(v, i, a).first = now + v
           /\ ArmingOf(v, i, a).interval = i /\ ArmingOf(v, i, a).count = 0
<1>1. now + v \in Int
  BY SMT
<1> QED BY <1>1, Zenon DEF ArmingOf, Armings

(* A change of the struct that leaves the thread where it is. *)
LEMMA SetKeeps ==
    ASSUME TimerConstants, TimerInv, owner, NEW v \in Int, NEW i \in Nat, NEW a \in BOOLEAN,
           timer.thread_running \/ ~ a,
           timer' = Set(v, i, a), armed' = ArmingOf(v, i, a), thread' = thread,
           raised' \in BOOLEAN, timer.thread_running => raised' = timer_wake_raise(timer),
           now' = now, owner' = owner, source' = source, gone' = gone, settle' = settle
    PROVE  TimerInv'
<1>0. /\ now \in Nat /\ timer \in TimerStruct /\ thread \in Threads
      /\ Running(timer, thread) /\ Lifetime(owner, timer, thread) /\ Heeds(timer, thread, raised, now)
      /\ Settling(settle, timer) /\ Generations(timer, thread)
  BY Zenon DEF TimerInv, TimerTypes
<1>a. /\ timer' \in TimerStruct /\ timer'.generation = timer.generation + 1
      /\ timer'.interval = i /\ timer'.active = a /\ timer'.thread_running = timer.thread_running
      /\ timer'.firing = timer.firing /\ timer'.fired = timer.fired
      /\ timer'.wake_fd = timer.wake_fd /\ timer'.dead = timer.dead /\ timer'.freed = timer.freed
  <2> DEFINE tm == Set(v, i, a)
  <2>1. /\ tm \in TimerStruct /\ tm.generation = timer.generation + 1
        /\ tm.interval = i /\ tm.active = a /\ tm.thread_running = timer.thread_running
        /\ tm.firing = timer.firing /\ tm.fired = timer.fired
        /\ tm.wake_fd = timer.wake_fd /\ tm.dead = timer.dead /\ tm.freed = timer.freed
    BY <1>0, SetFacts
  <2>2. timer' = tm
    BY Zenon
  <2> HIDE DEF tm
  <2> QED BY <2>1, <2>2, Zenon
<1>b. armed' \in Armings /\ armed'.on = a /\ armed'.interval = i /\ armed'.count = 0
  BY <1>0, ArmingFacts, Zenon
<1>1. TimerTypes'
  BY <1>0, <1>a, <1>b, Zenon DEF TimerInv, TimerTypes
<1>2. Running(timer', thread') /\ Lifetime(owner', timer', thread')
  BY <1>0, <1>a, Zenon DEF Running, Lifetime
<1>3. Settling(settle', timer') /\ Arming(armed', timer')
  BY <1>0, <1>a, <1>b, Zenon DEF Settling, Arming
<1>4. Heeds(timer', thread', raised', now')
  <2>1. thread.pc = "nap" => timer.thread_running
    BY <1>0, Zenon DEF Running
  <2> QED BY <2>1, <1>0, <1>a, Zenon DEF Heeds, timer_wake_raise
<1>5. thread.pc \in {"nap", "woken", "callback"} =>
          thread.generation # timer.generation + 1 /\ thread.generation <= timer.generation + 1
  <2>1. thread.pc \in {"nap", "woken", "callback"} => thread.generation \in Nat
    BY <1>0, ThreadKinds, Zenon DEF NapThread, CallThread
  <2>2. timer.generation \in Nat
    BY <1>0, Zenon DEF TimerStruct
  <2> QED BY <1>0, <2>1, <2>2, SMT DEF Generations
<1>6. Generations(timer', thread')
  BY <1>0, <1>a, <1>5, Zenon DEF Generations
<1>7. Owing(timer', thread', armed')
  BY <1>0, <1>a, <1>b, <1>5, Zenon DEF Owing, Awaits, Running
<1> QED BY <1>1, <1>2, <1>3, <1>4, <1>6, <1>7, Zenon DEF TimerInv

LEMMA StartFacts ==
    ASSUME NEW tm \in TimerStruct, NEW fd \in BOOLEAN
    PROVE  LET t == [tm EXCEPT !.thread_running = TRUE, !.wake_fd = fd]
           IN  /\ t \in TimerStruct /\ t.thread_running /\ t.firing = tm.firing
               /\ t.end = tm.end /\ t.interval = tm.interval /\ t.active = tm.active
               /\ t.fired = tm.fired /\ t.generation = tm.generation
               /\ t.dead = tm.dead /\ t.freed = tm.freed
BY Zenon DEF TimerStruct

(* A thread is started for the arming. *)
LEMMA StartKeeps ==
    ASSUME TimerConstants, TimerInv, owner, NEW v \in Int, NEW i \in Nat, NEW fd \in BOOLEAN,
           ~ timer.thread_running,
           timer' = [Set(v, i, TRUE) EXCEPT !.thread_running = TRUE, !.wake_fd = fd],
           armed' = ArmingOf(v, i, TRUE), thread' = [pc |-> "start"], raised' = FALSE,
           now' = now, owner' = owner, source' = source, gone' = gone, settle' = settle
    PROVE  TimerInv'
<1>0. /\ now \in Nat /\ timer \in TimerStruct /\ thread \in Threads
      /\ Running(timer, thread) /\ Lifetime(owner, timer, thread) /\ Settling(settle, timer)
  BY Zenon DEF TimerInv, TimerTypes
<1> DEFINE tm == Set(v, i, TRUE)
<1>1. /\ tm \in TimerStruct /\ tm.firing = timer.firing /\ tm.interval = i /\ tm.active
      /\ tm.fired = timer.fired /\ tm.dead = timer.dead /\ tm.freed = timer.freed
  BY <1>0, SetFacts, Zenon
<1> HIDE DEF tm
<1>2. /\ timer' \in TimerStruct /\ timer'.thread_running /\ timer'.firing = tm.firing
      /\ timer'.interval = i /\ timer'.active = tm.active
      /\ timer'.fired = tm.fired /\ timer'.dead = tm.dead /\ timer'.freed = tm.freed
  BY <1>1, StartFacts, ZenonT(30) DEF tm
<1>3. armed' \in Armings /\ armed'.on /\ armed'.interval = i /\ armed'.count = 0
  BY <1>0, ArmingFacts, Zenon
<1>4. thread' \in Threads /\ thread'.pc = "start"
  BY Zenon DEF Threads
<1>5. TimerTypes'
  BY <1>2, <1>3, <1>4, Zenon DEF TimerInv, TimerTypes
<1>6. Running(timer', thread') /\ Lifetime(owner', timer', thread')
  BY <1>0, <1>1, <1>2, <1>4, Zenon DEF Running, Lifetime
<1>7. Settling(settle', timer') /\ Arming(armed', timer')
  BY <1>0, <1>1, <1>2, <1>3, Zenon DEF Settling, Arming
<1>8. Heeds(timer', thread', raised', now') /\ Owing(timer', thread', armed') /\ Generations(timer', thread')
  BY <1>3, <1>4, Zenon DEF Heeds, Owing, Awaits, Generations
<1> QED BY <1>5, <1>6, <1>7, <1>8, Zenon DEF TimerInv

LEMMA WakeRaiseType == ASSUME TimerInv PROVE raised \in BOOLEAN /\ timer_wake_raise(timer) \in BOOLEAN
BY Zenon DEF TimerInv, TimerTypes, timer_wake_raise

LEMMA TimerSetKeeps ==
    ASSUME TimerConstants, TimerInv, NEW v \in Values, NEW i \in Intervals, timer_set(v, i)
    PROVE  TimerInv'
<1> DEFINE a == v # 0
           tm == Set(v, i, a)
<1>0. v \in Int /\ i \in Nat /\ a \in BOOLEAN /\ timer \in TimerStruct /\ now \in Nat
  BY Zenon DEF TimerConstants, TimerInv, TimerTypes
<1>1. owner /\ now' = now /\ owner' = owner /\ source' = source /\ gone' = gone /\ settle' = settle
  BY Zenon DEF timer_set
<1>2. tm.active = a
  BY <1>0, SetFacts, Zenon
<1>3. CASE /\ timer.thread_running \/ ~ a
           /\ timer' = tm /\ raised' = timer_wake_raise(timer) /\ armed' = ArmingOf(v, i, a)
           /\ thread' = thread
  <2> HIDE DEF a
  <2> QED BY <1>0, <1>1, <1>3, SetKeeps, WakeRaiseType, Zenon
<1>4. CASE /\ ~ timer.thread_running /\ a
           /\ \E fd \in BOOLEAN : timer' = [tm EXCEPT !.thread_running = TRUE, !.wake_fd = fd]
           /\ raised' = FALSE /\ thread' = [pc |-> "start"] /\ armed' = ArmingOf(v, i, TRUE)
  <2>1. tm = Set(v, i, TRUE)
    BY <1>4, Zenon DEF Set
  <2> HIDE DEF tm
  <2>2. PICK fd \in BOOLEAN : timer' = [Set(v, i, TRUE) EXCEPT !.thread_running = TRUE, !.wake_fd = fd]
    BY <1>4, <2>1, Zenon
  <2> QED BY <1>0, <1>1, <1>4, <2>2, StartKeeps, Zenon
<1>5. CASE /\ timer' = [tm EXCEPT !.active = FALSE] /\ armed' = ArmingOf(v, i, FALSE)
           /\ ~ timer.thread_running /\ raised' = raised /\ thread' = thread
  <2>1. timer' = Set(v, i, FALSE)
    BY <1>0, <1>5, Zenon DEF Set, TimerStruct
  <2> QED BY <1>0, <1>1, <1>5, <2>1, SetKeeps, WakeRaiseType, Zenon
<1> QED BY <1>1, <1>2, <1>3, <1>4, <1>5, Zenon DEF timer_set, Set, ArmingOf

LEMMA PokeKeeps == ASSUME TimerInv, timer_poke PROVE TimerInv'
<1>1. /\ now' = now /\ timer' = timer /\ thread' = thread /\ owner' = owner /\ source' = source
      /\ armed' = armed /\ gone' = gone /\ settle' = settle /\ raised' = timer_wake_raise(timer)
  BY Zenon DEF timer_poke
<1>2. TimerTypes'
  BY <1>1, WakeRaiseType, Zenon DEF TimerInv, TimerTypes
<1>3. Heeds(timer', thread', raised', now')
  BY <1>1, Zenon DEF TimerInv, Heeds, timer_wake_raise
<1> QED BY <1>1, <1>2, <1>3, Zenon DEF TimerInv

LEMMA FreeFacts ==
    ASSUME timer \in TimerStruct, armed \in Armings, NEW d \in BOOLEAN, NEW f \in BOOLEAN
    PROVE  LET tm == [timer EXCEPT !.active = FALSE, !.dead = d, !.freed = f]
               a == [armed EXCEPT !.on = FALSE]
           IN  /\ tm \in TimerStruct /\ ~ tm.active /\ tm.dead = d /\ tm.freed = f
               /\ tm.thread_running = timer.thread_running /\ tm.firing = timer.firing
               /\ tm.interval = timer.interval /\ tm.fired = timer.fired
               /\ tm.generation = timer.generation /\ tm.wake_fd = timer.wake_fd
               /\ a \in Armings /\ ~ a.on /\ a.interval = armed.interval
BY Zenon DEF TimerStruct, Armings

LEMMA FreeKeeps == ASSUME TimerInv, timer_free PROVE TimerInv'
<1>0. /\ timer \in TimerStruct /\ armed \in Armings
      /\ Running(timer, thread) /\ Heeds(timer, thread, raised, now)
      /\ Settling(settle, timer) /\ Arming(armed, timer) /\ Generations(timer, thread)
  BY Zenon DEF TimerInv, TimerTypes
<1> DEFINE d == ~ FreedByCaller
           f == FreedByCaller
<1>1. d \in BOOLEAN /\ f \in BOOLEAN /\ (f <=> ~ timer.thread_running) /\ (d <=> timer.thread_running)
  BY Zenon DEF FreedByCaller
<1>2. /\ timer' = [timer EXCEPT !.active = FALSE, !.dead = d, !.freed = f]
      /\ armed' = [armed EXCEPT !.on = FALSE] /\ owner' = FALSE /\ raised' = timer_wake_raise(timer)
      /\ now' = now /\ thread' = thread /\ source' = source /\ gone' = gone /\ settle' = settle
  BY Zenon DEF timer_free
<1> HIDE DEF d, f
<1>3. /\ timer' \in TimerStruct /\ ~ timer'.active /\ timer'.dead = d /\ timer'.freed = f
      /\ timer'.thread_running = timer.thread_running /\ timer'.firing = timer.firing
      /\ timer'.interval = timer.interval /\ timer'.fired = timer.fired
      /\ timer'.generation = timer.generation /\ timer'.wake_fd = timer.wake_fd
      /\ armed' \in Armings /\ ~ armed'.on /\ armed'.interval = armed.interval
  <2> DEFINE tm == [timer EXCEPT !.active = FALSE, !.dead = d, !.freed = f]
             a == [armed EXCEPT !.on = FALSE]
  <2>1. /\ tm \in TimerStruct /\ ~ tm.active /\ tm.dead = d /\ tm.freed = f
        /\ tm.thread_running = timer.thread_running /\ tm.firing = timer.firing
        /\ tm.interval = timer.interval /\ tm.fired = timer.fired
        /\ tm.generation = timer.generation /\ tm.wake_fd = timer.wake_fd
        /\ a \in Armings /\ ~ a.on /\ a.interval = armed.interval
    BY <1>0, <1>1, FreeFacts, ZenonT(30)
  <2>2. timer' = tm /\ armed' = a
    BY <1>2, Zenon
  <2> HIDE DEF tm, a
  <2> QED BY <2>1, <2>2, Zenon
<1>4. TimerTypes'
  BY <1>2, <1>3, WakeRaiseType, Zenon DEF TimerInv, TimerTypes
<1>5. Running(timer', thread') /\ Generations(timer', thread')
  BY <1>0, <1>2, <1>3, Zenon DEF Running, Generations
<1>6. Lifetime(owner', timer', thread')
  BY <1>0, <1>1, <1>2, <1>3, Zenon DEF Lifetime, Running
<1>7. Heeds(timer', thread', raised', now')
  BY <1>0, <1>2, <1>3, Zenon DEF Heeds, Running, timer_wake_raise
<1>8. Settling(settle', timer') /\ Arming(armed', timer') /\ Owing(timer', thread', armed')
  BY <1>0, <1>2, <1>3, Zenon DEF Settling, Arming, Owing
<1> QED BY <1>4, <1>5, <1>6, <1>7, <1>8, Zenon DEF TimerInv

LEMMA SourceGoneKeeps == ASSUME TimerInv, SourceGone PROVE TimerInv'
<1>1. /\ now' = now /\ timer' = timer /\ thread' = thread /\ owner' = owner /\ source' = FALSE
      /\ armed' = armed /\ gone' = gone /\ settle' = settle /\ raised' = raised
  BY Zenon DEF SourceGone
<1>2. TimerTypes'
  BY <1>1, Zenon DEF TimerInv, TimerTypes
<1> QED BY <1>1, <1>2, Zenon DEF TimerInv

LEMMA SettleKeeps == ASSUME TimerInv, timer_settle PROVE TimerInv'
<1> DEFINE begun == [on |-> TRUE, fired |-> timer.fired, ran |-> FALSE]
<1>1. /\ now' = now /\ timer' = timer /\ thread' = thread /\ owner' = owner /\ source' = source
      /\ armed' = armed /\ gone' = gone /\ raised' = raised
      /\ settle' = [on |-> FALSE] \/ settle' = begun
  BY Zenon DEF timer_settle
<1>2. timer.fired \in Nat /\ timer.fired <= timer.fired
  <2>1. timer.fired \in Nat
    BY Zenon DEF TimerInv, TimerTypes, TimerStruct
  <2> QED BY <2>1, SMT
<1>3. begun \in Settles /\ Settling(begun, timer)
  BY <1>2, Zenon DEF Settles, Settling
<1>4. [on |-> FALSE] \in Settles /\ Settling([on |-> FALSE], timer)
  BY Zenon DEF Settles, Settling
<1> HIDE DEF begun
<1>5. settle' \in Settles /\ Settling(settle', timer)
  BY <1>1, <1>3, <1>4, Zenon
<1>6. TimerTypes'
  BY <1>1, <1>5, Zenon DEF TimerInv, TimerTypes
<1> QED BY <1>1, <1>5, <1>6, Zenon DEF TimerInv

LEMMA TickKeeps == ASSUME TimerConstants, TimerInv, Tick PROVE TimerInv'
<1>1. /\ now' = now + 1 /\ timer' = timer /\ thread' = thread /\ owner' = owner /\ source' = source
      /\ armed' = armed /\ gone' = gone /\ settle' = settle /\ raised' = raised
  BY Zenon DEF Tick
<1>2. now \in Nat /\ now' \in Nat
  BY <1>1, SMT DEF TimerInv, TimerTypes
<1>3. TimerTypes'
  BY <1>1, <1>2, Zenon DEF TimerInv, TimerTypes
<1>4. Heeds(timer', thread', raised', now')
  <2>1. thread.pc = "nap" => thread.until \in Int
    BY ThreadKinds, Zenon DEF TimerInv, TimerTypes, NapThread
  <2>2. thread.pc = "nap" /\ thread.until <= now + Slice => thread.until <= now' + Slice
    BY <1>1, <1>2, <2>1, SMT DEF TimerConstants
  <2> QED BY <1>1, <2>2, Zenon DEF TimerInv, Heeds
<1> QED BY <1>1, <1>3, <1>4, Zenon DEF TimerInv

LEMMA TimerInitHolds == ASSUME TimerConstants, TimerInit PROVE TimerInv
<1>1. TimerTypes
  <2>0. 0 \in Nat /\ 0 \in Int
    BY SMT
  <2>1. timer \in TimerStruct
    BY <2>0, Zenon DEF TimerInit, TimerStruct
  <2>2. armed \in Armings /\ settle \in Settles /\ thread \in Threads
    BY <2>0, Zenon DEF TimerInit, Armings, Settles, Threads
  <2> QED BY <2>0, <2>1, <2>2, Zenon DEF TimerInit, TimerTypes
<1>2. /\ ~ timer.active /\ ~ timer.thread_running /\ ~ timer.firing /\ ~ timer.dead /\ ~ timer.freed
      /\ timer.interval = 0 /\ thread.pc = "none" /\ owner /\ ~ armed.on /\ armed.interval = 0
      /\ ~ settle.on
  BY Zenon DEF TimerInit, NotStarted
<1> QED BY <1>1, <1>2, Zenon
        DEF TimerInv, Running, Lifetime, Heeds, Settling, Arming, Owing, Generations

LEMMA TimerStepKeeps == ASSUME TimerConstants, TimerInv, [TimerNext]_timerVars PROVE TimerInv'
<1>1. CASE UNCHANGED timerVars
  BY <1>1, Zenon DEF timerVars, TimerInv, TimerTypes
<1>2. CASE ThreadStep \/ NapInterrupted
  BY <1>2, ThreadStartsKeeps, ThreadRelocksKeeps, CallbackReturnsKeeps, NapOverKeeps, Zenon
     DEF ThreadStep
<1>3. CASE CallerStep
  BY <1>3, TimerSetKeeps, PokeKeeps, FreeKeeps, SourceGoneKeeps, SettleKeeps, Zenon DEF CallerStep
<1>4. CASE Tick
  BY <1>4, TickKeeps, Zenon
<1>5. CASE TimerDone
  BY <1>1, <1>5, Zenon DEF TimerDone
<1> QED BY <1>1, <1>2, <1>3, <1>4, <1>5, Zenon DEF TimerNext

LEMMA TimerAlways == ASSUME TimerConstants PROVE TimerSpec => []TimerInv
<1>1. TimerInit => TimerInv
  BY TimerInitHolds, Zenon
<1>2. TimerInv /\ [TimerNext]_timerVars => TimerInv'
  BY TimerStepKeeps, Zenon
<1> QED BY <1>1, <1>2, PTL DEF TimerSpec

----------------------------------------------------------------------------
(* What the invariant says of the callers.                                 *)

(* The types, for every set of values and intervals and every bound on the *)
(* clock and the armings.                                                  *)
THEOREM TimerIsTyped == ASSUME TimerConstants PROVE TimerSpec => []TimerTypeOK
<1>1. TimerInv => TimerTypeOK
  BY TimerTypesAre, Zenon DEF TimerInv
<1> QED BY <1>1, TimerAlways, PTL

(* No thread sleeps out a nap for an arming that was replaced, disarmed or *)
(* freed (timer_wake_raise, timer_wake_wait).                              *)
THEOREM NoWakeIsLost == ASSUME TimerConstants PROVE TimerSpec => []TimerWakeNotLost
<1>1. TimerInv => TimerWakeNotLost
  BY Zenon DEF TimerInv, Heeds, TimerWakeNotLost
<1> QED BY <1>1, TimerAlways, PTL

(* The timer is freed once, by the last of its owner and its thread.       *)
THEOREM TheLastOneFrees == ASSUME TimerConstants PROVE TimerSpec => []FreedWhenDone
<1>1. TimerInv => FreedWhenDone
  BY Zenon DEF TimerInv, Lifetime, FreedWhenDone
<1> QED BY <1>1, TimerAlways, PTL

(* timer_read says "armed" if and only if an expiry is still to come.      *)
THEOREM ReadsAreExact == ASSUME TimerConstants PROVE TimerSpec => []ReadIsExact
<1>1. ASSUME TimerInv PROVE ReadIsExact
  <2>0. /\ armed.interval \in Nat /\ armed.count \in Nat
        /\ Running(timer, thread) /\ Arming(armed, timer) /\ Owing(timer, thread, armed)
        /\ thread.pc \in {"none", "start", "nap", "woken", "callback"}
    BY <1>1, ThreadKinds, Zenon DEF TimerInv, TimerTypes, Armings
  <2>1. armed.interval > 0 <=> armed.interval # 0
    BY <2>0, SMT
  <2> QED BY <2>0, <2>1, Zenon DEF ReadIsExact, Settled, ReadArmed, Running, Arming, Owing, Awaits
<1> QED BY <1>1, TimerAlways, PTL

LEMMA OnlySettleCloses ==
    ASSUME TimerInv, [TimerNext]_timerVars, settle.on, ~ settle'.on
    PROVE  timer_settle
<1>1. settle' # settle
  BY Zenon
<1>2. CASE CallbackReturns
  <2>1. settle' = [settle EXCEPT !.ran = TRUE]
    BY <1>2, Zenon DEF CallbackReturns
  <2>2. settle \in [on : {TRUE}, fired : Nat, ran : BOOLEAN]
    <3>0. [on |-> FALSE].on = FALSE
      BY Zenon
    <3>1. settle # [on |-> FALSE]
      BY <3>0, SMT
    <3> QED BY <3>1, Zenon DEF TimerInv, TimerTypes, Settles
  <2> QED BY <2>1, <2>2, Zenon
<1> QED BY <1>1, <1>2, Zenon
        DEF timerVars, TimerNext, ThreadStep, CallerStep, ThreadStarts, NapEnds, ThreadRelocks,
            NapInterrupted, timer_set, timer_poke, timer_free, SourceGone, Tick, TimerDone

(* Two calls of timer_settle with the same number bracket a time in which  *)
(* no callback ran.                                                        *)
THEOREM SettleIsABracket == ASSUME TimerConstants PROVE TimerSpec => SettleBrackets
<1>1. ASSUME TimerInv, [TimerNext]_timerVars PROVE [SettleStep]_timerVars
  <2>1. SUFFICES ASSUME settle.on, ~ settle'.on, settle.fired = timer.fired
                 PROVE  ~ settle.ran /\ ~ timer.firing
    BY Zenon DEF SettleStep
  <2>2. ~ timer.firing
    BY <1>1, <2>1, OnlySettleCloses, Zenon DEF timer_settle, Settled
  <2>3. timer.fired \in Nat /\ (settle.ran => settle.fired < timer.fired)
    BY <1>1, <2>1, Zenon DEF TimerInv, TimerTypes, TimerStruct, Settling
  <2>4. ~ (settle.fired < timer.fired)
    BY <2>1, <2>3, SMT
  <2> QED BY <2>2, <2>3, <2>4, Zenon
<1> QED BY <1>1, TimerAlways, PTL DEF TimerSpec, SettleBrackets

----------------------------------------------------------------------------
(* The grid of an arming's expiries, and where the timer is on it.         *)

(* The expiry after those delivered.                                       *)
Upcoming(a) == a.first + a.count * a.interval

(* It is the end the timer has, as the type holds it; a first expiry       *)
(* beyond the largest time is pinned, and never reached.                   *)
OnGrid(e, a, n) ==
    IF a.first > TimeMax THEN a.count = 0 /\ e = TimeMax
    ELSE /\ -(TimeMax - MaxNow) <= Upcoming(a) /\ Upcoming(a) - n <= TimeMax
         /\ e = IF Upcoming(a) > TimeMax THEN Upcoming(a) - 2 * (TimeMax + 1) ELSE Upcoming(a)

(* What the callback is told are the expiries up to the last one due.      *)
Counted(h, a, n) ==
    /\ a.first <= TimeMax /\ -(TimeMax - MaxNow) <= h.end
    /\ h.end + (h.count - 1) * h.interval <= n
    /\ h.end + h.count * h.interval = Upcoming(a)

Calling(tm, h) == h.pc = "callback" /\ h.generation = tm.generation

TimerGrid ==
    /\ now <= MaxNow /\ timer.interval <= TimeMax
    /\ timer.active /\ Awaits(timer, thread) => OnGrid(timer.end, armed, now)
    /\ timer.active /\ Calling(timer, thread) => Counted(thread, armed, now)

LEMMA WrappedIs ==
    ASSUME TimerConstants, NEW x \in Int, x <= TimeMax, -TimeMax - 1 <= x
    PROVE  Wrapped(x) = x
BY SMT DEF Wrapped, TimerConstants

LEMMA UpcomingType == ASSUME armed \in Armings PROVE Upcoming(armed) \in Int
BY SMT DEF Armings, Upcoming

(* The difference with the clock is right, though the end may have wrapped. *)
LEMMA RemainingIs ==
    ASSUME TimerConstants, now \in Nat, now <= MaxNow, armed \in Armings, NEW e \in Int,
           OnGrid(e, armed, now), timespec_subtract(e, now) <= 0
    PROVE  armed.first <= TimeMax /\ e = Upcoming(armed) /\ e <= now /\ -(TimeMax - MaxNow) <= e
<1> DEFINE u == Upcoming(armed)
<1>0. u \in Int /\ armed.first \in Int
  BY UpcomingType, Zenon DEF Armings
<1>1. Wrapped(e - now) <= 0
  BY Zenon DEF timespec_subtract
<1>2. \/ armed.first > TimeMax /\ e = TimeMax
      \/ /\ ~ (armed.first > TimeMax) /\ -(TimeMax - MaxNow) <= u /\ u - now <= TimeMax
         /\ e = IF u > TimeMax THEN u - 2 * (TimeMax + 1) ELSE u
  BY Zenon DEF OnGrid
<1> HIDE DEF u
<1>3. CASE armed.first > TimeMax /\ e = TimeMax
  BY <1>1, <1>3, SMT DEF Wrapped, TimerConstants
<1>4. CASE /\ ~ (armed.first > TimeMax) /\ -(TimeMax - MaxNow) <= u /\ u - now <= TimeMax
           /\ e = IF u > TimeMax THEN u - 2 * (TimeMax + 1) ELSE u
  <2>1. e = u /\ e <= now /\ -(TimeMax - MaxNow) <= e /\ armed.first <= TimeMax
    BY <1>0, <1>1, <1>4, SMT DEF Wrapped, TimerConstants
  <2> QED BY <2>1, Zenon DEF u
<1> QED BY <1>2, <1>3, <1>4, Zenon

(* The expiries due besides the first. *)
LEMMA PastIs ==
    ASSUME TimerConstants, now \in Nat, now <= MaxNow, NEW e \in Int, NEW i \in Nat,
           -(TimeMax - MaxNow) <= e, e <= now
    PROVE  timer_periods_past(e, now, i) = IF i = 0 THEN 0 ELSE (now - e) \div i
<1> DEFINE b == timespec_subtract(now, e)
<1>1. b = now - e /\ b \in Nat
  <2>1. now - e \in Nat /\ now - e \in Int /\ now - e <= TimeMax /\ -TimeMax - 1 <= now - e
    BY SMT DEF TimerConstants
  <2> QED BY <2>1, WrappedIs, Zenon DEF timespec_subtract
<1>2. timer_periods_past(e, now, i) = IF i = 0 \/ b <= 0 THEN 0 ELSE b \div i
  BY Zenon DEF timer_periods_past
<1> HIDE DEF b
<1>3. CASE i = 0
  BY <1>2, <1>3, Zenon
<1>4. CASE i # 0 /\ b <= 0
  <2>1. b = 0 /\ i \in Nat \ {0}
    BY <1>1, <1>4, SMT
  <2>2. b \div i = 0
    BY <2>1, SMT
  <2> QED BY <1>1, <1>2, <1>4, <2>2, Zenon
<1>5. CASE i # 0 /\ ~ (b <= 0)
  BY <1>1, <1>2, <1>5, Zenon
<1> QED BY <1>3, <1>4, <1>5, Zenon

LEMMA QuotientIs ==
    ASSUME NEW i \in Nat \ {0}, NEW d \in Nat, NEW q \in Int, q * i <= d, d < q * i + i
    PROVE  q = d \div i
BY SMT

LEMMA QuotientShifts ==
    ASSUME NEW i \in Nat \ {0}, NEW d \in Nat, NEW c \in Nat, c * i <= d
    PROVE  c + (d - c * i) \div i = d \div i
<1> DEFINE r == d - c * i
           p == r \div i
<1>1. r \in Nat
  BY SMT
<1> HIDE DEF r
<1>2. p \in Nat /\ p * i <= r /\ r < p * i + i
  BY <1>1, DivFacts, Zenon
<1> HIDE DEF p
<1>3. c + p \in Int /\ (c + p) * i = c * i + p * i
  BY <1>2, SMT
<1>4. (c + p) * i <= d /\ d < (c + p) * i + i
  <2>1. c * i \in Int /\ p * i \in Int
    BY <1>2, SMT
  <2> DEFINE x == c * i
             y == p * i
  <2>2. x \in Int /\ y \in Int /\ (c + p) * i = x + y /\ r = d - x /\ y <= r /\ r < y + i
    BY <1>2, <1>3, <2>1, Zenon DEF r
  <2> HIDE DEF x, y
  <2> QED BY <2>2, SMT
<1>5. c + p = d \div i
  BY <1>3, <1>4, QuotientIs, Zenon
<1> QED BY <1>5, Zenon DEF p, r

(* The expiries due by now, counted. *)
LEMMA DueIs ==
    ASSUME now \in Nat, armed \in Armings, armed.first <= now
    PROVE  DueBy(now) = IF armed.interval = 0 THEN 1 ELSE 1 + (now - armed.first) \div armed.interval
<1> DEFINE f == armed.first
           i == armed.interval
           d == now - f
<1>0. f \in Int /\ i \in Nat
  BY Zenon DEF Armings
<1>1. d \in Nat /\ ~ (now < f)
  BY <1>0, SMT
<1> DEFINE Due(n) == f + (n - 1) * i <= now /\ now < f + n * i
<1>2. DueBy(now) = IF i = 0 THEN 1 ELSE CHOOSE n \in 1 .. d + 1 : Due(n)
  BY <1>1, Zenon DEF DueBy
<1> HIDE DEF f, i
<1>3. CASE i = 0
  BY <1>2, <1>3, Zenon DEF i
<1>4. CASE i # 0
  <2> DEFINE q == d \div i
  <2>1. i \in Nat \ {0} /\ q \in Nat /\ q * i <= d /\ d < q * i + i
    <3> HIDE DEF d
    <3> QED BY <1>0, <1>1, <1>4, DivFacts, Zenon
  <2> HIDE DEF q
  <2>2. 1 + q \in 1 .. d + 1 /\ Due(1 + q)
    <3> DEFINE y == q * i
    <3>1. y \in Int /\ q <= y /\ ((1 + q) - 1) * i = y /\ (1 + q) * i = y + i
      BY <1>0, <2>1, SMT
    <3>2. y <= d /\ d < y + i
      BY <2>1, Zenon
    <3> HIDE DEF y
    <3> QED BY <1>0, <1>1, <2>1, <3>1, <3>2, SMT
  <2>3. ASSUME NEW n \in 1 .. d + 1, Due(n) PROVE n = 1 + q
    <3> DEFINE y == (n - 1) * i
    <3>1. n \in Int /\ n - 1 \in Int /\ y \in Int /\ n * i = y + i
      BY <1>0, <1>1, <2>1, SMT
    <3>2. f + y <= now /\ now < f + (y + i)
      BY <2>3, <3>1, Zenon
    <3>3. y <= d /\ d < y + i
      <4> HIDE DEF y
      <4> QED BY <1>0, <3>1, <3>2, SMT
    <3>4. n - 1 = q
      <4> HIDE DEF d
      <4> QED BY <1>1, <2>1, <3>1, <3>3, QuotientIs, Zenon DEF q
    <3> QED BY <3>1, <3>4, SMT
  <2> HIDE DEF Due
  <2>4. (CHOOSE n \in 1 .. d + 1 : Due(n)) = 1 + q
    BY <2>2, <2>3, Zenon
  <2> QED BY <1>2, <1>4, <2>4, Zenon DEF q, f, i
<1> QED BY <1>3, <1>4, Zenon

(* One call of the callback brings the count to what is due. *)
LEMMA FireDelivers ==
    ASSUME TimerConstants, now \in Nat, now <= MaxNow, armed \in Armings, NEW tm \in TimerStruct,
           Arming(armed, tm), tm.active, armed.count # 0 => tm.interval # 0,
           OnGrid(tm.end, armed, now), Remaining(tm) <= 0, FireNow(tm, tm.generation)
    PROVE  armed'.count = DueBy(now) /\ Counted(thread', armed', now)
<1> DEFINE e == tm.end
           i == armed.interval
           f == armed.first
           c == armed.count
           p == timer_periods_past(e, now, i)
<1>0. e \in Int /\ i \in Nat /\ f \in Int /\ c \in Nat /\ tm.interval = i
  BY Zenon DEF TimerStruct, Armings, Arming
<1>1. f <= TimeMax /\ e = f + c * i /\ e <= now /\ -(TimeMax - MaxNow) <= e
  BY <1>0, RemainingIs, Zenon DEF Remaining, Upcoming
<1>2. p = IF i = 0 THEN 0 ELSE (now - e) \div i
  BY <1>0, <1>1, PastIs, Zenon
<1>3. /\ thread'.end = e /\ thread'.interval = i /\ thread'.count = 1 + p
      /\ armed'.first = f /\ armed'.interval = i /\ armed'.count = c + thread'.count
  BY <1>0, FireFacts, Zenon
<1>4. c # 0 => i # 0
  BY <1>0, Zenon
<1> HIDE DEF p
<1>5. f <= now
  <2>1. c * i \in Nat
    BY <1>0, SMT
  <2> QED BY <1>0, <1>1, <2>1, SMT
<1>6. DueBy(now) = IF i = 0 THEN 1 ELSE 1 + (now - f) \div i
  BY <1>5, DueIs, Zenon
<1> HIDE DEF e, i, f, c
<1>7. CASE i = 0
  <2>1. p = 0 /\ c = 0
    BY <1>2, <1>4, <1>7, Zenon
  <2>2. armed'.count = 1 /\ thread'.count = 1 /\ e = f
    BY <1>0, <1>1, <1>3, <1>7, <2>1, SMT
  <2>3. e + (1 - 1) * i <= now /\ e + 1 * i = f + 1 * i
    BY <1>0, <1>1, <2>2, SMT
  <2> QED BY <1>1, <1>3, <1>6, <1>7, <2>2, <2>3, Zenon DEF Counted, Upcoming
<1>8. CASE i # 0
  <2> DEFINE d == now - f
  <2>1. i \in Nat \ {0} /\ d \in Nat /\ c * i <= d /\ now - e = d - c * i /\ now - e \in Nat
    <3>1. c * i \in Int
      BY <1>0, SMT
    <3> DEFINE x == c * i
    <3>2. x \in Int /\ e = f + x
      BY <1>1, <3>1, Zenon
    <3> HIDE DEF x
    <3>3. i \in Nat \ {0} /\ d \in Nat /\ x <= d /\ now - e = d - x /\ now - e \in Nat
      BY <1>0, <1>1, <1>5, <1>8, <3>2, SMT
    <3> QED BY <3>3, Zenon DEF x
  <2> HIDE DEF d
  <2>2. p = (d - c * i) \div i /\ c + p = d \div i
    <3>1. p = (d - c * i) \div i
      BY <1>2, <1>8, <2>1, Zenon
    <3>2. c + (d - c * i) \div i = d \div i
      BY <1>0, <2>1, QuotientShifts, Zenon
    <3> QED BY <3>1, <3>2, Zenon
  <2>3. p \in Nat /\ p * i <= now - e
    BY <1>2, <1>8, <2>1, DivFacts, Zenon
  <2>4. armed'.count = DueBy(now)
    <3>1. armed'.count = 1 + (c + p)
      BY <1>0, <1>3, <2>3, SMT
    <3> QED BY <1>6, <1>8, <2>2, <3>1, Zenon DEF d
  <2>5. e + ((1 + p) - 1) * i <= now
    BY <1>0, <2>3, SMT
  <2>6. e + (1 + p) * i = f + (c + (1 + p)) * i
    BY <1>0, <1>1, <2>3, SMT
  <2> QED BY <1>1, <1>3, <2>4, <2>5, <2>6, Zenon DEF Counted, Upcoming
<1> QED BY <1>7, <1>8, Zenon

LEMMA CallGenerations ==
    ASSUME NEW tm, NEW h, h.pc = "nap" \/ h.pc = "start" \/ h.pc = "woken"
    PROVE  ~ Calling(tm, h) /\ Awaits(tm, h)
BY Zenon DEF Calling, Awaits

(* From the top of the loop: still on the grid, and what is due delivered. *)
LEMMA LoopDelivers ==
    ASSUME TimerConstants, TimerInv, now <= MaxNow, NEW tm \in TimerStruct, LoopTop(tm),
           now' = now, Arming(armed, tm), tm.active => (armed.count # 0 => tm.interval # 0),
           tm.generation = timer.generation, tm.interval <= TimeMax,
           tm.active => OnGrid(tm.end, armed, now)
    PROVE  TimerGrid' /\ DeliveryStep
<1>0. now \in Nat /\ armed \in Armings
  BY Zenon DEF TimerInv, TimerTypes
<1>1. CASE ~ tm.active /\ Finish(tm)
  <2>1. ~ timer'.active /\ timer'.interval = tm.interval /\ thread'.pc = "none"
    BY <1>1, FinishFacts, Zenon
  <2> QED BY <2>1, Zenon DEF TimerGrid, DeliveryStep
<1>2. CASE tm.active /\ Nap(tm, tm.generation)
  <2>1. timer' = tm /\ armed' = armed /\ thread'.pc = "nap"
    BY <1>0, <1>2, NapFacts, Zenon
  <2> QED BY <1>2, <2>1, CallGenerations, Zenon DEF TimerGrid, DeliveryStep
<1>3. CASE tm.active /\ Remaining(tm) <= 0 /\ FireNow(tm, tm.generation)
  <2>1. armed'.count = DueBy(now) /\ Counted(thread', armed', now)
    BY <1>0, <1>3, FireDelivers, Zenon
  <2>2. /\ timer'.interval = tm.interval /\ timer'.generation = tm.generation
        /\ thread'.pc = "callback" /\ thread'.generation = tm.generation
    BY <1>0, <1>3, FireFacts, Zenon
  <2>3. armed.on
    BY <1>3, Zenon DEF Arming
  <2>4. TimerGrid'
    BY <2>1, <2>2, Zenon DEF TimerGrid, Awaits
  <2>5. DeliveryStep
    BY <2>1, <2>2, <2>3, Zenon DEF DeliveryStep
  <2> QED BY <2>4, <2>5, Zenon
<1> QED BY <1>1, <1>2, <1>3, Zenon DEF LoopTop

(* The end that CallbackReturns leaves. *)
LEMMA NextEndIs ==
    ASSUME TimerConstants, now \in Nat, now <= MaxNow, armed \in Armings, thread \in CallThread,
           thread.interval <= TimeMax, Counted(thread, armed, now)
    PROVE  OnGrid(NextEnd, armed, now)
<1> DEFINE x == thread.end + (thread.count - 1) * thread.interval
           i == thread.interval
           u == Upcoming(armed)
<1>0. thread.end \in Int /\ i \in Nat /\ thread.count \in Nat \ {0} /\ armed.first \in Int /\ u \in Int
  BY UpcomingType, Zenon DEF CallThread, Armings
<1>1. x \in Int /\ x + i = u
  <2>1. thread.end + thread.count * i = u
    BY Zenon DEF Counted
  <2> HIDE DEF u
  <2> QED BY <1>0, <2>1, SMT
<1>2. x <= now /\ -(TimeMax - MaxNow) <= thread.end /\ armed.first <= TimeMax
  BY Zenon DEF Counted
<1>3. -(TimeMax - MaxNow) <= x
  <2>1. (thread.count - 1) * i \in Nat
    BY <1>0, SMT
  <2> QED BY <1>0, <1>2, <2>1, SMT DEF TimerConstants
<1>4. timespec_add(thread.end, (thread.count - 1) * thread.interval) = x
  <2>1. x <= TimeMax /\ -TimeMax - 1 <= x
    <3> HIDE DEF x
    <3> QED BY <1>1, <1>2, <1>3, SMT DEF TimerConstants
  <2> QED BY <1>1, <2>1, WrappedIs, Zenon DEF timespec_add
<1>5. NextEnd = Wrapped(u)
  <2>1. NextEnd = Wrapped(x + i)
    BY <1>4, Zenon DEF NextEnd, timespec_add
  <2> QED BY <1>1, <2>1, Zenon
<1> HIDE DEF x, u
<1>6. /\ ~ (armed.first > TimeMax) /\ -(TimeMax - MaxNow) <= u /\ u - now <= TimeMax
      /\ Wrapped(u) = IF u > TimeMax THEN u - 2 * (TimeMax + 1) ELSE u
  BY <1>0, <1>1, <1>2, <1>3, SMT DEF Wrapped, TimerConstants
<1> QED BY <1>5, <1>6, Zenon DEF OnGrid, u

(* The end that timer_set leaves. *)
LEMMA EndOfIs ==
    ASSUME TimerConstants, TimesFit, now \in Nat, now <= MaxNow, NEW v \in Values, NEW i \in Nat,
           NEW a \in Armings, a.first = now + v, a.count = 0, a.interval = i
    PROVE  OnGrid(EndOf(v), a, now)
<1>0. v \in Int /\ v <= TimeMax /\ -v <= TimeMax - MaxNow
  BY Zenon DEF TimerConstants, TimesFit
<1>1. Upcoming(a) = now + v
  BY <1>0, SMT DEF Upcoming
<1>2. EndOf(v) = IF v >= 0 /\ Wrapped(now + v) < now THEN TimeMax ELSE Wrapped(now + v)
  BY Zenon DEF EndOf, timespec_add
<1>3. CASE now + v > TimeMax
  <2>1. v >= 0 /\ Wrapped(now + v) < now
    BY <1>0, <1>3, SMT DEF Wrapped, TimerConstants
  <2> QED BY <1>2, <1>3, <2>1, Zenon DEF OnGrid
<1>4. CASE ~ (now + v > TimeMax)
  <2>1. /\ Wrapped(now + v) = now + v /\ ~ (v >= 0 /\ now + v < now)
        /\ -(TimeMax - MaxNow) <= now + v /\ (now + v) - now <= TimeMax
    BY <1>0, <1>4, SMT DEF Wrapped, TimerConstants
  <2> QED BY <1>1, <1>2, <1>4, <2>1, Zenon DEF OnGrid
<1> QED BY <1>3, <1>4, Zenon

(* What timer_set leaves, whichever of its branches it takes. *)
LEMMA SetLeaves ==
    ASSUME TimerConstants, TimerInv, NEW v \in Values, NEW i \in Intervals, timer_set(v, i)
    PROVE  /\ timer'.interval = i /\ timer'.end = EndOf(v) /\ timer'.fired = timer.fired
           /\ timer'.generation = timer.generation + 1
           /\ armed' \in Armings /\ armed'.first = now + v /\ armed'.count = 0 /\ armed'.interval = i
           /\ thread' = thread \/ thread'.pc # "callback"
<1> DEFINE a == v # 0
           tm == Set(v, i, a)
<1>0. v \in Int /\ i \in Nat /\ a \in BOOLEAN /\ timer \in TimerStruct /\ now \in Nat
  BY Zenon DEF TimerConstants, TimerInv, TimerTypes
<1>1. /\ \/ timer' = tm
         \/ \E fd \in BOOLEAN : timer' = [tm EXCEPT !.thread_running = TRUE, !.wake_fd = fd]
         \/ timer' = [tm EXCEPT !.active = FALSE]
      /\ armed' \in {ArmingOf(v, i, tm.active), ArmingOf(v, i, TRUE), ArmingOf(v, i, FALSE)}
      /\ thread' = thread \/ thread' = [pc |-> "start"]
  BY Zenon DEF timer_set, Set, ArmingOf
<1> HIDE DEF a
<1>2. /\ tm \in TimerStruct /\ tm.interval = i /\ tm.end = EndOf(v) /\ tm.fired = timer.fired
      /\ tm.generation = timer.generation + 1 /\ tm.active = a
  BY <1>0, SetFacts, SMT
<1> HIDE DEF tm
<1>3. /\ timer'.interval = i /\ timer'.end = EndOf(v) /\ timer'.fired = timer.fired
      /\ timer'.generation = timer.generation + 1
  BY <1>1, <1>2, Zenon DEF TimerStruct
<1>4. \A on \in BOOLEAN : LET b == ArmingOf(v, i, on) IN
          b \in Armings /\ b.first = now + v /\ b.count = 0 /\ b.interval = i
  BY <1>0, ArmingFacts, Zenon
<1>5. armed' \in Armings /\ armed'.first = now + v /\ armed'.count = 0 /\ armed'.interval = i
  <2>1. tm.active \in BOOLEAN /\ TRUE \in BOOLEAN /\ FALSE \in BOOLEAN
    BY <1>2, Zenon DEF TimerStruct
  <2>2. PICK on \in BOOLEAN : armed' = ArmingOf(v, i, on)
    BY <1>1, <2>1, Zenon
  <2> QED BY <1>4, <2>2, Zenon
<1>6. [pc |-> "start"].pc # "callback"
  BY Zenon
<1> QED BY <1>1, <1>3, <1>5, <1>6, Zenon

LEMMA SetGrid ==
    ASSUME TimerConstants, TimesFit, TimerInv, TimerGrid,
           NEW v \in Values, NEW i \in Intervals, timer_set(v, i)
    PROVE  TimerGrid'
<1>0. /\ v \in Int /\ i \in Nat /\ i <= TimeMax /\ timer \in TimerStruct /\ now \in Nat
      /\ now <= MaxNow /\ now' = now
  BY Zenon DEF TimerConstants, TimesFit, TimerInv, TimerTypes, TimerGrid, timer_set
<1>1. timer'.interval = i /\ timer'.end = EndOf(v) /\ timer'.generation = timer.generation + 1
  BY SetLeaves, Zenon
<1>2. armed' \in Armings /\ armed'.first = now + v /\ armed'.count = 0 /\ armed'.interval = i
  BY SetLeaves, Zenon
<1>3. OnGrid(timer'.end, armed', now)
  BY <1>0, <1>1, <1>2, EndOfIs, Zenon
<1>4. ~ Calling(timer', thread')
  <2>1. CASE thread' = thread /\ thread.pc = "callback"
    <3>1. thread.generation \in Nat /\ timer.generation \in Nat /\ thread.generation <= timer.generation
      BY <2>1, ThreadKinds, Zenon DEF TimerInv, TimerTypes, CallThread, TimerStruct, Generations
    <3>2. thread.generation # timer.generation + 1
      BY <3>1, SMT
    <3> QED BY <1>1, <2>1, <3>2, Zenon DEF Calling
  <2>2. CASE thread'.pc # "callback"
    BY <2>2, Zenon DEF Calling
  <2>3. thread' = thread \/ thread'.pc # "callback"
    BY SetLeaves, Zenon
  <2> QED BY <2>1, <2>2, <2>3, Zenon
<1> QED BY <1>0, <1>1, <1>3, <1>4, Zenon DEF TimerGrid

(* A step that leaves the arming and the timer's end alone. *)
LEMMA QuietGrid ==
    ASSUME TimerConstants, TimerInv, TimerGrid, now' = now \/ Tick,
           timer'.end = timer.end, timer'.interval = timer.interval, timer'.fired = timer.fired,
           timer'.generation = timer.generation, timer'.active => timer.active,
           timer'.active => armed' = armed,
           thread' = thread \/ (thread.pc = "nap" /\ thread'.pc = "woken")
    PROVE  TimerGrid' /\ DeliveryStep
<1>0. now \in Nat /\ armed \in Armings /\ now <= MaxNow
  BY Zenon DEF TimerInv, TimerTypes, TimerGrid
<1>1. now' \in Nat /\ now <= now' /\ now' <= MaxNow
  BY <1>0, SMT DEF Tick, TimerConstants
<1>2. OnGrid(timer.end, armed, now) => OnGrid(timer.end, armed, now')
  <2>1. Upcoming(armed) \in Int
    BY <1>0, UpcomingType, Zenon
  <2>2. Upcoming(armed) - now <= TimeMax => Upcoming(armed) - now' <= TimeMax
    BY <1>0, <1>1, <2>1, SMT DEF TimerConstants
  <2> QED BY <2>2, Zenon DEF OnGrid
<1>3. thread.pc = "callback" /\ Counted(thread, armed, now) => Counted(thread, armed, now')
  <2> SUFFICES ASSUME thread.pc = "callback", Counted(thread, armed, now)
               PROVE  Counted(thread, armed, now')
    BY Zenon
  <2> DEFINE x == thread.end + (thread.count - 1) * thread.interval
  <2>1. x \in Int
    <3>1. thread \in CallThread
      BY ThreadKinds, Zenon DEF TimerInv, TimerTypes
    <3> QED BY <3>1, SMT DEF CallThread
  <2>2. x <= now
    BY Zenon DEF Counted
  <2>3. x <= now'
    <3> HIDE DEF x
    <3> QED BY <1>0, <1>1, <2>1, <2>2, SMT
  <2> QED BY <2>3, Zenon DEF Counted
<1>4. Awaits(timer', thread') => Awaits(timer, thread)
  BY Zenon DEF Awaits
<1>5. Calling(timer', thread') => Calling(timer, thread) /\ thread' = thread
  BY Zenon DEF Calling
<1>6. TimerGrid'
  BY <1>1, <1>2, <1>3, <1>4, <1>5, Zenon DEF TimerGrid, Calling
<1>7. DeliveryStep
  BY Zenon DEF DeliveryStep
<1> QED BY <1>6, <1>7, Zenon

LEMMA StartsDelivers ==
    ASSUME TimerConstants, TimerInv, TimerGrid, ThreadStarts \/ ThreadRelocks
    PROVE  TimerGrid' /\ DeliveryStep
<1>0. thread.pc \in {"start", "woken"} /\ now' = now /\ (LoopTop(timer) \/ (~ timer.active /\ Finish(timer)))
  BY Zenon DEF ThreadStarts, ThreadRelocks
<1>1. Ready(timer, settle) /\ timer \in TimerStruct
  BY <1>0, TimerReady, Zenon DEF Ready
<1>2. LoopTop(timer)
  BY <1>0, Zenon DEF LoopTop
<1>3. timer.active => OnGrid(timer.end, armed, now)
  BY <1>0, Zenon DEF TimerGrid, Awaits
<1> QED BY <1>0, <1>1, <1>2, <1>3, LoopDelivers, Zenon DEF Ready, TimerGrid

LEMMA CallbackDelivers ==
    ASSUME TimerConstants, TimerInv, TimerGrid, CallbackReturns
    PROVE  TimerGrid' /\ DeliveryStep
<1>0. /\ thread.pc = "callback" /\ thread \in CallThread /\ timer \in TimerStruct
      /\ Owing(timer, thread, armed) /\ Arming(armed, timer) /\ now \in Nat /\ armed \in Armings
      /\ now <= MaxNow /\ timer.interval <= TimeMax /\ now' = now
  BY ThreadKinds, Zenon DEF TimerInv, TimerTypes, TimerGrid, CallbackReturns
<1> DEFINE tm == Returned(timer)
           tn == [tm EXCEPT !.end = NextEnd]
<1>1. /\ tm \in TimerStruct /\ tm.end = timer.end /\ tm.interval = timer.interval
      /\ tm.active = timer.active /\ tm.generation = timer.generation
  BY <1>0, ReturnedFacts, Zenon
<1>2. CASE ~ SameArming /\ LoopTop(tm)
  <2>1. timer.active => (armed.count # 0 => timer.interval # 0) /\ OnGrid(timer.end, armed, now)
    BY <1>0, <1>2, Zenon DEF SameArming, Owing, Awaits, TimerGrid
  <2>2. Arming(armed, tm)
    BY <1>0, <1>1, Zenon DEF Arming
  <2> HIDE DEF tm
  <2> QED BY <1>0, <1>1, <1>2, <2>1, <2>2, LoopDelivers, Zenon
<1>3. CASE SameArming /\ timer.active /\ thread.interval > 0 /\ LoopTop(tn)
  <2>1. thread.interval = timer.interval /\ Counted(thread, armed, now)
    BY <1>0, <1>3, Zenon DEF SameArming, Owing, TimerGrid, Calling
  <2>2. timer.interval # 0
    BY <1>3, <2>1, SMT
  <2>3. NextEnd \in Int /\ OnGrid(NextEnd, armed, now)
    BY <1>0, <2>1, NextEndType, NextEndIs, Zenon
  <2>4. /\ tn \in TimerStruct /\ tn.end = NextEnd /\ tn.interval = timer.interval
        /\ tn.active = timer.active /\ tn.generation = timer.generation
    <3> HIDE DEF tm
    <3> QED BY <1>1, <2>3, EndedFacts, Zenon
  <2> HIDE DEF tn
  <2>5. Arming(armed, tn)
    BY <1>0, <2>4, Zenon DEF Arming
  <2> QED BY <1>0, <1>3, <2>2, <2>3, <2>4, <2>5, LoopDelivers, Zenon
<1>4. CASE Finish(tm)
  <2>1. timer'.interval = timer.interval /\ thread'.pc = "none"
    <3> HIDE DEF tm
    <3> QED BY <1>1, <1>4, FinishFacts, Zenon
  <2> QED BY <1>0, <2>1, Zenon DEF TimerGrid, DeliveryStep, Awaits, Calling
<1> QED BY <1>2, <1>3, <1>4, Zenon DEF CallbackReturns, Returned

LEMMA GridStep ==
    ASSUME TimerConstants, TimesFit, TimerInv, TimerGrid, [TimerNext]_timerVars
    PROVE  TimerGrid' /\ [DeliveryStep]_timerVars
<1>1. CASE UNCHANGED timerVars
  BY <1>1, Zenon DEF timerVars, TimerGrid
<1>2. CASE ThreadStarts \/ ThreadRelocks \/ CallbackReturns
  BY <1>2, StartsDelivers, CallbackDelivers, Zenon
<1>3. CASE NapEnds \/ NapInterrupted
  <2>1. thread.pc = "nap" /\ thread \in NapThread /\ thread' = [thread EXCEPT !.pc = "woken"]
    BY <1>3, ThreadKinds, Zenon DEF TimerInv, TimerTypes, NapEnds, NapInterrupted
  <2>2. thread'.pc = "woken"
    BY <2>1, Zenon DEF NapThread
  <2>3. now' = now /\ timer' = timer /\ armed' = armed
    BY <1>3, Zenon DEF NapEnds, NapInterrupted
  <2> QED BY <2>1, <2>2, <2>3, QuietGrid, Zenon
<1>4. ASSUME NEW v \in Values, NEW i \in Intervals, timer_set(v, i)
      PROVE  TimerGrid' /\ [DeliveryStep]_timerVars
  <2>1. TimerGrid'
    BY <1>4, SetGrid, Zenon
  <2>2. (thread' = thread \/ thread'.pc # "callback") /\ timer'.fired = timer.fired
    BY <1>4, SetLeaves, Zenon
  <2> QED BY <2>1, <2>2, Zenon DEF DeliveryStep
<1>5. CASE timer_free
  <2>1. /\ timer' = [timer EXCEPT !.active = FALSE, !.dead = ~ FreedByCaller, !.freed = FreedByCaller]
        /\ now' = now /\ thread' = thread /\ timer \in TimerStruct
    BY <1>5, Zenon DEF timer_free, TimerInv, TimerTypes
  <2>2. /\ ~ timer'.active /\ timer'.end = timer.end /\ timer'.interval = timer.interval
        /\ timer'.fired = timer.fired /\ timer'.generation = timer.generation
    BY <2>1, Zenon DEF TimerStruct
  <2> QED BY <2>1, <2>2, QuietGrid, Zenon
<1>6. CASE timer_poke \/ SourceGone \/ timer_settle \/ Tick \/ TimerDone
  <2>1. timer' = timer /\ thread' = thread /\ armed' = armed /\ (now' = now \/ Tick)
    BY <1>6, Zenon DEF timer_poke, SourceGone, timer_settle, Tick, TimerDone, timerVars
  <2> QED BY <2>1, QuietGrid, Zenon
<1> QED BY <1>1, <1>2, <1>3, <1>4, <1>5, <1>6, Zenon DEF TimerNext, ThreadStep, CallerStep

LEMMA GridInitHolds == ASSUME TimerConstants, TimerInit PROVE TimerGrid
<1>1. now = 0 /\ ~ timer.active /\ timer.interval = 0
  BY Zenon DEF TimerInit
<1>2. 0 <= MaxNow /\ 0 <= TimeMax
  BY SMT DEF TimerConstants
<1> QED BY <1>1, <1>2, Zenon DEF TimerGrid

(* Every callback is told of exactly the expiries that are due, for every  *)
(* first expiry and every period that the type of times holds.             *)
THEOREM WhatIsDueIsDelivered ==
    ASSUME TimerConstants, TimesFit PROVE TimerSpec => DeliversWhatIsDue
<1>1. TimerInit => TimerGrid
  BY GridInitHolds, Zenon
<1>2. TimerInv /\ TimerGrid /\ [TimerNext]_timerVars => TimerGrid' /\ [DeliveryStep]_timerVars
  BY GridStep, Zenon
<1> QED BY <1>1, <1>2, TimerAlways, PTL DEF TimerSpec, DeliversWhatIsDue
=============================================================================
