------------------------------- MODULE Timer -------------------------------
(***************************************************************************)
(* util/timer.c: one struct timer with the thread that sleeps for it, its  *)
(* callers (timer_set, timer_poke, timer_free, timer_read, timer_settle)   *)
(* and the clock.                                                          *)
(*                                                                         *)
(* timer->lock is dropped in two places, around the nap and around the     *)
(* callback; a step is what happens between two drops.  Times are whole    *)
(* ticks of the timer's clock, in a signed type with the maximum TimeMax.  *)
(***************************************************************************)
EXTENDS Integers

CONSTANTS
    Values,     \* times until the first expiry; 0 disarms, < 0 is overdue
    Intervals,  \* periods, 0 for a one-shot
    NapMax,     \* the longest nap (a day)
    Slice,      \* the longest nap without a wake descriptor (10 ms)
    TimeMax,    \* the largest time (INT64_MAX)
    MaxNow,     \* bound: ticks of the clock
    MaxGen      \* bound: armings

(* What the constants are. *)
TimerConstants ==
    /\ Values \subseteq Int /\ Intervals \subseteq Nat
    /\ NapMax \in Nat \ {0} /\ Slice \in Nat \ {0}
    /\ TimeMax \in Nat /\ MaxNow \in Nat /\ MaxGen \in Nat
    /\ MaxNow < TimeMax
    /\ \A v \in Values : v <= TimeMax /\ -v <= TimeMax

(* A period is of the type, and the time since an overdue first expiry     *)
(* fits it until the clock's bound.                                        *)
TimesFit ==
    /\ \A i \in Intervals : i <= TimeMax
    /\ \A v \in Values : -v <= TimeMax - MaxNow

VARIABLES
    now,        \* the timer's clock
    timer,      \* the struct
    raised,     \* its wake descriptor is raised
    thread,     \* timer_thread: where it is, and its locals
    owner,      \* whether timer_free has been called
    source,     \* what the clock source reads is still there
    armed,      \* history: the last arming, and what was delivered for it
    gone,       \* history: the clock source was read after it was gone
    settle      \* a caller of timer_settle between its two calls

timerVars == <<now, timer, raised, thread, owner, source, armed, gone, settle>>

NotStarted == [pc |-> "none"]

TimerInit ==
    /\ now = 0
    /\ timer = [end |-> 0, interval |-> 0, active |-> FALSE, thread_running |-> FALSE,
                firing |-> FALSE, fired |-> 0, generation |-> 0, wake_fd |-> FALSE,
                dead |-> FALSE, freed |-> FALSE]
    /\ raised = FALSE
    /\ thread = NotStarted
    /\ owner = TRUE
    /\ source = TRUE
    /\ armed = [on |-> FALSE, first |-> 0, interval |-> 0, count |-> 0]
    /\ gone = FALSE
    /\ settle = [on |-> FALSE]

SmallerOf(a, b) == IF a <= b THEN a ELSE b

----------------------------------------------------------------------------
(* The callers.                                                            *)

(* Mutant: a raise reaches only a thread that is already asleep, as a      *)
(* signal did.                                                             *)
timer_wake_raise_Lossy(tm) == raised

(* The descriptor stays raised until the thread has seen it.               *)
timer_wake_raise(tm) == raised \/ (tm.thread_running /\ tm.wake_fd)

(* A sum or difference in the signed type, which wraps.                    *)
Wrapped(x) ==
    IF x > TimeMax THEN x - 2 * (TimeMax + 1)
    ELSE IF x < -TimeMax - 1 THEN x + 2 * (TimeMax + 1) ELSE x

timespec_add(x, y) == Wrapped(x + y)

timespec_subtract(x, y) == Wrapped(x - y)

(* start + value, and an overflow pinned to the far future.                *)
EndOf(v) ==
    IF v >= 0 /\ timespec_add(now, v) < now THEN TimeMax ELSE timespec_add(now, v)

timer_set(v, i) ==
    LET tm == [timer EXCEPT !.generation = @ + 1, !.end = EndOf(v), !.interval = i,
                            !.active = v # 0]
        arming(on) == [on |-> on, first |-> now + v, interval |-> i, count |-> 0]
    IN
    /\ owner
    /\ timer.generation < MaxGen
    /\ UNCHANGED <<now, owner, source, gone, settle>>
    /\ \/ /\ timer.thread_running \/ ~tm.active
          /\ timer' = tm
          /\ raised' = timer_wake_raise(timer)
          /\ armed' = arming(tm.active)
          /\ UNCHANGED thread
       \/ \* a thread, with a wake descriptor unless the host has none left
          /\ ~timer.thread_running /\ tm.active
          /\ \E fd \in BOOLEAN :
                timer' = [tm EXCEPT !.thread_running = TRUE, !.wake_fd = fd]
          /\ raised' = FALSE
          /\ thread' = [pc |-> "start"]
          /\ armed' = arming(TRUE)
       \/ \* EAGAIN: no thread to be had
          /\ ~timer.thread_running /\ tm.active
          /\ timer' = [tm EXCEPT !.active = FALSE]
          /\ armed' = arming(FALSE)
          /\ UNCHANGED <<raised, thread>>

timer_poke ==
    /\ owner
    /\ raised' = timer_wake_raise(timer)
    /\ UNCHANGED <<now, timer, thread, owner, source, armed, gone, settle>>

(* Mutant: the timer is freed at once. *)
FreedByCaller_Always == TRUE

FreedByCaller == ~timer.thread_running

timer_free ==
    /\ owner
    /\ ~settle.on
    /\ owner' = FALSE
    /\ timer' = [timer EXCEPT !.active = FALSE, !.dead = ~FreedByCaller, !.freed = FreedByCaller]
    /\ raised' = timer_wake_raise(timer)
    /\ armed' = [armed EXCEPT !.on = FALSE]
    /\ UNCHANGED <<now, thread, source, gone, settle>>

(* The process the timer belonged to is reaped. *)
SourceGone ==
    /\ ~owner /\ source
    /\ source' = FALSE
    /\ UNCHANGED <<now, timer, raised, thread, owner, armed, gone, settle>>

(* Mutant: a callback in flight is not waited for. *)
Settled_AtOnce == TRUE

(* timer_wait_not_firing_locked. *)
Settled == ~timer.firing

(* timer_settle, called before and after something is read.                *)
timer_settle ==
    /\ owner
    /\ Settled
    /\ settle' = IF settle.on THEN [on |-> FALSE]
                 ELSE [on |-> TRUE, fired |-> timer.fired, ran |-> FALSE]
    /\ UNCHANGED <<now, timer, raised, thread, owner, source, armed, gone>>

(* Mutant: what the flag says. *)
ReadArmed_ActiveOnly == timer.active

(* What timer_read reports. *)
ReadArmed == timer.active /\ timer.thread_running

----------------------------------------------------------------------------
(* timer_thread.                                                           *)

ReadClock == gone' = (gone \/ ~source)

(* The thread's last steps, with the lock still held.                      *)
Finish(tm) ==
    /\ timer' = [tm EXCEPT !.thread_running = FALSE, !.wake_fd = FALSE,
                           !.freed = @ \/ tm.dead]
    /\ thread' = NotStarted
    /\ UNCHANGED armed

(* The clock is never far enough ahead for the count to saturate (292      *)
(* years).                                                                 *)
timer_periods_past(end, at, interval) ==
    LET behind == timespec_subtract(at, end) IN
    IF interval = 0 \/ behind <= 0 THEN 0 ELSE behind \div interval

Remaining(tm) == timespec_subtract(tm.end, now)

(* Sleep on, if the time is not up ...                                     *)
Nap(tm, g) ==
    LET most == IF tm.wake_fd THEN NapMax ELSE SmallerOf(NapMax, Slice) IN
    /\ timer' = tm
    /\ thread' = [pc |-> "nap", generation |-> g, end |-> tm.end, interval |-> tm.interval,
                  until |-> now + SmallerOf(Remaining(tm), most)]
    /\ UNCHANGED armed

(* ... or hand all that is due to the callback, with the lock dropped.     *)
FireNow(tm, g) ==
    LET n == 1 + timer_periods_past(tm.end, now, tm.interval) IN
    /\ timer' = [tm EXCEPT !.firing = TRUE]
    /\ thread' = [pc |-> "callback", generation |-> g, end |-> tm.end,
                  interval |-> tm.interval, count |-> n]
    /\ armed' = [armed EXCEPT !.count = @ + n]

(* The loop from its top, with what tm has now.                            *)
LoopTop(tm) ==
    \/ ~tm.active /\ Finish(tm)
    \/ tm.active /\ Remaining(tm) > 0 /\ Nap(tm, tm.generation)
    \/ tm.active /\ Remaining(tm) <= 0 /\ FireNow(tm, tm.generation)

ThreadStarts ==
    /\ thread.pc = "start"
    /\ ReadClock
    /\ LoopTop(timer)
    /\ UNCHANGED <<now, raised, owner, source, settle>>

(* timer_wake_wait returns: the wake was raised, the nap is over, or a     *)
(* signal cut it short.                                                    *)
NapEnds ==
    /\ thread.pc = "nap"
    /\ raised \/ now >= thread.until
    /\ raised' = FALSE
    /\ thread' = [thread EXCEPT !.pc = "woken"]
    /\ UNCHANGED <<now, timer, owner, source, armed, gone, settle>>

NapInterrupted ==
    /\ thread.pc = "nap"
    /\ thread' = [thread EXCEPT !.pc = "woken"]
    /\ UNCHANGED <<now, timer, raised, owner, source, armed, gone, settle>>

(* With the lock again: the clock is read only for a timer still active.   *)
ThreadRelocks ==
    /\ thread.pc = "woken"
    /\ IF ~timer.active THEN Finish(timer) /\ UNCHANGED gone
       ELSE /\ ReadClock
            /\ LoopTop(timer)
    /\ UNCHANGED <<now, raised, owner, source, settle>>

SameArming == timer.generation = thread.generation

(* Mutant: the next expiry is counted from now. *)
NextEnd_Rebased == now + thread.interval

(* The next expiry: on along the grid, past everything just delivered.     *)
NextEnd ==
    timespec_add(timespec_add(thread.end, (thread.count - 1) * thread.interval),
                 thread.interval)

CallbackReturns ==
    LET tm == [timer EXCEPT !.firing = FALSE, !.fired = @ + 1] IN
    /\ thread.pc = "callback"
    /\ settle' = IF settle.on THEN [settle EXCEPT !.ran = TRUE] ELSE settle
    /\ UNCHANGED <<now, raised, owner, source>>
    /\ \/ /\ ~SameArming
          /\ ReadClock
          /\ LoopTop(tm)
       \/ /\ SameArming
          /\ timer.active /\ thread.interval > 0
          /\ ReadClock
          /\ LoopTop([tm EXCEPT !.end = NextEnd])
       \/ /\ SameArming
          /\ ~(timer.active /\ thread.interval > 0)
          /\ Finish(tm)
          /\ UNCHANGED gone

Tick ==
    /\ now < MaxNow
    /\ now' = now + 1
    /\ UNCHANGED <<timer, raised, thread, owner, source, armed, gone, settle>>

----------------------------------------------------------------------------
ThreadStep == ThreadStarts \/ NapEnds \/ ThreadRelocks \/ CallbackReturns

CallerStep ==
    \/ \E v \in Values, i \in Intervals : timer_set(v, i)
    \/ timer_poke \/ timer_free \/ SourceGone \/ timer_settle

TimerDone == timer.freed /\ now = MaxNow /\ UNCHANGED timerVars

TimerNext == ThreadStep \/ NapInterrupted \/ CallerStep \/ Tick \/ TimerDone

TimerSpec == TimerInit /\ [][TimerNext]_timerVars

(* The clock moves, and the host runs the timer's thread when its nap is   *)
(* over, its wake is raised or its lock is free.  Nothing is asked of the  *)
(* callers.                                                                *)
TimerFairSpec == TimerSpec /\ WF_timerVars(Tick) /\ WF_timerVars(ThreadStep)

----------------------------------------------------------------------------
(* Properties.                                                             *)

Threads ==
    {NotStarted, [pc |-> "start"]}
    \cup [pc : {"nap", "woken"}, generation : Nat, end : Int, interval : Nat, until : Int]
    \cup [pc : {"callback"}, generation : Nat, end : Int, interval : Nat, count : Nat \ {0}]

(* Every variable keeps its type; a callback is told of one expiry at least. *)
TimerTypeOK ==
    /\ now \in Nat
    /\ timer \in [end : Int, interval : Nat, active : BOOLEAN, thread_running : BOOLEAN,
                  firing : BOOLEAN, fired : Nat, generation : Nat, wake_fd : BOOLEAN,
                  dead : BOOLEAN, freed : BOOLEAN]
    /\ raised \in BOOLEAN /\ owner \in BOOLEAN /\ source \in BOOLEAN /\ gone \in BOOLEAN
    /\ thread \in Threads
    /\ armed \in [on : BOOLEAN, first : Int, interval : Nat, count : Nat]
    /\ settle \in {[on |-> FALSE]} \cup [on : {TRUE}, fired : Nat, ran : BOOLEAN]

(* A thread that naps on an arming that has since been replaced, disarmed  *)
(* or freed finds its wake raised, also where the raise fell between the   *)
(* drop of the lock and the sleep (timer_wake_open: "a wake raised in that *)
(* same window is found as the sleep starts").  Without a descriptor it    *)
(* looks again within a slice.                                             *)
TimerWakeNotLost ==
    thread.pc = "nap" /\ (thread.generation # timer.generation \/ ~timer.active)
    => IF timer.wake_fd THEN raised ELSE thread.until <= now + Slice

(* The timer is freed once its thread is done with it and not before, and  *)
(* it is always freed by one of the two: a timer_free that finds the       *)
(* thread running leaves it to the thread.                                 *)
FreedWhenDone ==
    /\ timer.freed => ~owner /\ thread.pc = "none"
    /\ ~owner => timer.freed \/ (timer.dead /\ thread.pc # "none")

(* How many expiries of the last arming fall due by time t: the n-th is    *)
(* due, and the one after it is not.                                       *)
DueBy(t) ==
    IF t < armed.first THEN 0
    ELSE IF armed.interval = 0 THEN 1
    ELSE CHOOSE n \in 1 .. t - armed.first + 1 :
            /\ armed.first + (n - 1) * armed.interval <= t
            /\ t < armed.first + n * armed.interval

(* Every callback brings what is handed over to exactly the expiries that  *)
(* are due by then, none early, none twice, none left out, and only for    *)
(* the arming in force ("A later arm/cancel updates the generation and     *)
(* should not inherit this wakeup"; "keeps the grid").                     *)
DeliveryStep ==
    thread'.pc = "callback" /\ (thread.pc # "callback" \/ timer'.fired # timer.fired)
    => /\ armed.on /\ thread'.generation = timer.generation
       /\ armed'.count = DueBy(now)
DeliversWhatIsDue == [][DeliveryStep]_timerVars

(* timer_read is exact: it reports an arming as armed if and only if an    *)
(* expiry of it is still to be delivered (timer.h: "where "armed" has to   *)
(* be exact").                                                             *)
ReadIsExact ==
    owner /\ Settled =>
        (ReadArmed <=> armed.on /\ (armed.interval > 0 \/ armed.count = 0))

(* Two calls of timer_settle that report the same number bracket a time in *)
(* which no callback ran (timer.h, timer_settle).                          *)
SettleStep ==
    settle.on /\ ~settle'.on /\ settle.fired = timer.fired => ~settle.ran /\ ~timer.firing
SettleBrackets == [][SettleStep]_timerVars

(* The clock source is not read once the timer is freed: "its clock        *)
(* source's data (a POSIX timer's process or thread) can be gone by then". *)
ClockSourceThere == ~gone

(* The clock's bound leaves a thread without a descriptor its slice. *)
InTime == timer.wake_fd \/ now + Slice <= MaxNow

(* An arming left alone is delivered once its time has come, whatever the  *)
(* thread was sleeping for when it was made: no arming waits for the end   *)
(* of an older, longer one (timer_wake_open: "the thread then slept out    *)
(* its OLD nap" is what the descriptor is there to prevent).               *)
ArmedFires ==
    \A g \in 1 .. MaxGen :
        /\ timer.generation = g /\ ReadArmed /\ armed.count = 0
        /\ armed.first <= MaxNow /\ InTime
        ~> timer.generation # g \/ ~timer.active \/ armed.count > 0

(* A freed timer's memory is given back and its thread ends. *)
FreedEventually == ~owner /\ InTime ~> timer.freed
=============================================================================
