----------------------------- MODULE RobustList -----------------------------
(***************************************************************************)
(* The robust list (kernel/futex.c: futex_exit_robust_list and             *)
(* robust_handle_death, called by do_exit): a dying thread walks the list  *)
(* of the locks it holds, in guest memory, while the other threads use     *)
(* those locks.                                                            *)
(*                                                                         *)
(* The guest half is the protocol of a C library's robust mutex, as the    *)
(* kernel half expects it: the lock is named as pending, taken by a        *)
(* compare-and-swap of the word, linked, and no longer pending; a thread   *)
(* that finds it held sets FUTEX_WAITERS and sleeps on the word.           *)
(* Threads are their own TIDs and list heads; a lock stands for its word   *)
(* and its link.  An access of the walk to guest memory may fail, where    *)
(* Fault allows it: the memory of a lock can be gone, or read-only.        *)
(***************************************************************************)
EXTENDS Integers, FiniteSets, Lists

CONSTANTS
    Thread,
    Lock,
    Nobody,     \* no thread, and no lock
    Limit,      \* ROBUST_LIST_LIMIT
    KillAt,     \* where in the guest protocol a thread can be killed
    Fault       \* the accesses that can fail: of the head, a link, a word

GuestPlaces == {"idle", "try", "wait", "queued", "link", "unlock", "wake"}

(* What the constants are. *)
RobustListConstants ==
    /\ Nobody \notin Thread \cup Lock /\ Thread \cap Lock = {}
    /\ Limit \in Nat
    /\ KillAt \subseteq GuestPlaces
    /\ Fault \subseteq {"head", "link", "get", "put"}

VARIABLES
    word,       \* the lock words
    link,       \* the links: of each list head, and of each lock
    list_op_pending,    \* of each thread
    at,         \* where each thread is, with which lock, and whether it slept
    queue,      \* the threads asleep on each word
    walk,       \* a dying thread's walk of its list
    dirty,      \* history: the locks a killed thread held
    past,       \* history: the locks on each list past the limit, at its exit
    faulted     \* history: the locks that a fault keeps each walk from

history == <<past, faulted>>
robustVars == <<word, link, list_op_pending, at, queue, walk, dirty, past, faulted>>

FreeWord == [owner |-> Nobody, waiters |-> FALSE, died |-> FALSE]
Idle == [pc |-> "idle", lock |-> Nobody, slept |-> FALSE, saw |-> FreeWord]
NoWalk == [entry |-> Nobody, next |-> Nobody, seen |-> FreeWord, limit |-> 0, last |-> FALSE]

RobustInit ==
    /\ word = [l \in Lock |-> FreeWord]
    /\ link = [n \in Thread \cup Lock |-> n]
    /\ list_op_pending = [t \in Thread |-> Nobody]
    /\ at = [t \in Thread |-> Idle]
    /\ queue = [l \in Lock |-> <<>>]
    /\ walk = [t \in Thread |-> NoWalk]
    /\ dirty = {}
    /\ past = [t \in Thread |-> {}] /\ faulted = [t \in Thread |-> {}]

Go(t, pc) == at' = [at EXCEPT ![t].pc = pc]

(* FUTEX_WAKE of one waiter, after which it tries again.                   *)
Woken(l, a) ==
    IF queue[l] = <<>> THEN a ELSE [a EXCEPT ![Head(queue[l])].pc = "try"]

AfterWake(l) ==
    IF queue[l] = <<>> THEN queue ELSE [queue EXCEPT ![l] = Tail(@)]

----------------------------------------------------------------------------
(* The guest.                                                              *)

GuestLock(t, l) ==
    /\ at[t].pc = "idle"
    /\ word[l].owner # t
    /\ list_op_pending' = [list_op_pending EXCEPT ![t] = l]
    /\ at' = [at EXCEPT ![t] = [Idle EXCEPT !.pc = "try", !.lock = l]]
    /\ UNCHANGED <<word, link, queue, walk, dirty, history>>

(* A free word is taken; one that is held is marked, then slept on.        *)
GuestTry(t) ==
    LET l == at[t].lock IN
    /\ at[t].pc = "try"
    /\ \/ /\ word[l].owner = Nobody
          /\ word' = [word EXCEPT ![l] = [owner |-> t, died |-> FALSE,
                                          waiters |-> @.waiters \/ at[t].slept]]
          /\ dirty' = dirty \ {l}
          /\ Go(t, "link")
       \/ /\ word[l].owner # Nobody
          /\ word' = [word EXCEPT ![l].waiters = TRUE]
          /\ at' = [at EXCEPT ![t] = [at[t] EXCEPT !.pc = "wait", !.slept = TRUE,
                                                   !.saw = word'[l]]]
          /\ UNCHANGED dirty
    /\ UNCHANGED <<link, list_op_pending, queue, walk, history>>

(* FUTEX_WAIT: asleep, unless the word is no longer what the caller saw.   *)
GuestWait(t) ==
    LET l == at[t].lock IN
    /\ at[t].pc = "wait"
    /\ IF word[l] = at[t].saw
       THEN queue' = [queue EXCEPT ![l] = ListAddTail(@, t)] /\ Go(t, "queued")
       ELSE UNCHANGED queue /\ Go(t, "try")
    /\ UNCHANGED <<word, link, list_op_pending, walk, dirty, history>>

GuestLink(t) ==
    /\ at[t].pc = "link"
    /\ link' = [link EXCEPT ![at[t].lock] = link[t], ![t] = at[t].lock]
    /\ list_op_pending' = [list_op_pending EXCEPT ![t] = Nobody]
    /\ at' = [at EXCEPT ![t] = Idle]
    /\ UNCHANGED <<word, queue, walk, dirty, history>>

GuestUnlink(t, l) ==
    /\ at[t].pc = "idle"
    /\ word[l].owner = t
    /\ list_op_pending' = [list_op_pending EXCEPT ![t] = l]
    /\ link' = [n \in Thread \cup Lock |->
                   IF n = l THEN l ELSE IF link[n] = l THEN link[l] ELSE link[n]]
    /\ at' = [at EXCEPT ![t] = [Idle EXCEPT !.pc = "unlock", !.lock = l]]
    /\ UNCHANGED <<word, queue, walk, dirty, history>>

GuestUnlock(t) ==
    LET l == at[t].lock IN
    /\ at[t].pc = "unlock"
    /\ word' = [word EXCEPT ![l] = FreeWord]
    /\ IF word[l].waiters
       THEN Go(t, "wake") /\ UNCHANGED list_op_pending
       ELSE /\ at' = [at EXCEPT ![t] = Idle]
            /\ list_op_pending' = [list_op_pending EXCEPT ![t] = Nobody]
    /\ UNCHANGED <<link, queue, walk, dirty, history>>

GuestWake(t) ==
    LET l == at[t].lock IN
    /\ at[t].pc = "wake"
    /\ at' = Woken(l, [at EXCEPT ![t] = Idle])
    /\ queue' = AfterWake(l)
    /\ list_op_pending' = [list_op_pending EXCEPT ![t] = Nobody]
    /\ UNCHANGED <<word, link, walk, dirty, history>>

----------------------------------------------------------------------------
(* The kernel: do_exit, for a thread that was killed or has returned.      *)

(* The locks on a list from node n on, after the first i nodes.            *)
From(n, i) ==
    LET node[j \in Nat] ==
            IF j = 0 THEN n ELSE IF node[j - 1] \in Lock THEN link[node[j - 1]] ELSE node[j - 1]
    IN  {node[j] : j \in i .. Cardinality(Lock)} \cap Lock

HeldBy(t) == {l \in Lock : word[l].owner = t}

(* Of the locks t holds, a fault keeps its walk from those in S. *)
KeptFrom(t, S) == faulted' = [faulted EXCEPT ![t] = @ \cup (S \cap HeldBy(t))]

(* futex_exit_robust_list reads the head, or gives up.                     *)
Exit(t) ==
    /\ at[t].pc \in KillAt
    /\ queue' = [l \in Lock |-> ListRemove(queue[l], t)]
    /\ dirty' = dirty \cup HeldBy(t)
    /\ past' = [past EXCEPT ![t] = From(link[t], Limit) \cap HeldBy(t)]
    /\ \/ /\ at' = [at EXCEPT ![t] = [Idle EXCEPT !.pc = "walk"]]
          /\ walk' = [walk EXCEPT ![t] = [NoWalk EXCEPT !.entry = link[t], !.limit = Limit]]
          /\ UNCHANGED faulted
       \/ /\ "head" \in Fault
          /\ at' = [at EXCEPT ![t] = [Idle EXCEPT !.pc = "dead"]]
          /\ KeptFrom(t, Lock)
          /\ UNCHANGED walk
    /\ UNCHANGED <<word, link, list_op_pending>>

(* Mutant: the link is read once the entry has been dealt with. *)
NextEntry_ReadLate(t) == link[walk[t].entry]

(* The next entry, as it was read before the entry was dealt with.         *)
NextEntry(t) == walk[t].next

(* robust_handle_death returns: on along the list, or done, at the end or  *)
(* where the next entry could not be read.                                 *)
Handled(t, next, a) ==
    LET done == walk[t].last \/ next = Nobody IN
    /\ at' = [a EXCEPT ![t].pc = IF done THEN "dead" ELSE "walk"]
    /\ walk' = IF done THEN [walk EXCEPT ![t] = NoWalk]
               ELSE [walk EXCEPT ![t] = [NoWalk EXCEPT !.entry = next,
                                                       !.limit = walk[t].limit - 1]]

(* The TID in the word of entry e.  There is none at another list's head.  *)
OwnerOf(e) == IF e \in Lock THEN word[e].owner ELSE Nobody

(* Mutant: whatever is on the list or pending is the thread's. *)
Owns_Listed(t, e) == e \in Lock

Owns(t, e) == OwnerOf(e) = t

(* robust_handle_death reads the word, and leaves it unless t owns it.     *)
ReadWord(t, e, w) ==
    /\ Owns(t, e)
    /\ Go(t, "mark")
    /\ walk' = [walk EXCEPT ![t] = [w EXCEPT !.seen = word[e]]]

(* Mutant: the limit counts the head. *)
MoreEntries_HeadCounts(t) == walk[t].entry # t /\ walk[t].limit > 1

MoreEntries(t) == walk[t].entry # t /\ walk[t].limit > 0

(* What a failed read of e's link keeps the walk from: the rest of the     *)
(* list and the pending lock, for it returns before that.                  *)
Behind(t, e) == From(e, 1) \cup {list_op_pending[t]}

(* The link of e is read first, then e's word, but for the pending lock's. *)
WalkEntry(t) ==
    LET e == walk[t].entry IN
    /\ at[t].pc = "walk"
    /\ MoreEntries(t)
    /\ \E next \in {link[e]} \cup (IF "link" \in Fault THEN {Nobody} ELSE {}) :
        LET behind == IF next = Nobody THEN Behind(t, e) ELSE {} IN
        \/ /\ e # list_op_pending[t]
           /\ ReadWord(t, e, [walk[t] EXCEPT !.next = next])
           /\ KeptFrom(t, behind)
        \/ /\ e = list_op_pending[t] \/ ~Owns(t, e)
           /\ Handled(t, next, at)
           /\ KeptFrom(t, behind)
        \/ /\ "get" \in Fault /\ e # list_op_pending[t]
           /\ Handled(t, next, at)
           /\ KeptFrom(t, behind \cup {e})
    /\ UNCHANGED <<word, link, list_op_pending, queue, dirty, past>>

(* Mutant: the operation in progress is taken to have left nothing. *)
PendingLeft_Never(t) == FALSE

PendingLeft(t) == list_op_pending[t] # Nobody

(* After the list, the pending entry.                                      *)
WalkEnds(t) ==
    LET e == list_op_pending[t] IN
    /\ at[t].pc = "walk"
    /\ ~MoreEntries(t)
    /\ \/ /\ PendingLeft(t)
          /\ ReadWord(t, e, [walk[t] EXCEPT !.entry = e, !.last = TRUE])
          /\ UNCHANGED faulted
       \/ /\ ~(PendingLeft(t) /\ Owns(t, e))
          /\ Go(t, "dead")
          /\ walk' = [walk EXCEPT ![t] = NoWalk]
          /\ UNCHANGED faulted
       \/ /\ PendingLeft(t) /\ "get" \in Fault
          /\ Go(t, "dead")
          /\ walk' = [walk EXCEPT ![t] = NoWalk]
          /\ KeptFrom(t, {e})
    /\ UNCHANGED <<word, link, list_op_pending, queue, dirty, past>>

(* Mutant: the word is simply released. *)
DeadWord_Free(seen) == [FreeWord EXCEPT !.waiters = seen.waiters]

DeadWord(seen) == [owner |-> Nobody, waiters |-> seen.waiters, died |-> TRUE]

(* It then writes what it makes of what it read, or gives the lock up ...  *)
MarkWord(t) ==
    LET w == walk[t] IN
    /\ at[t].pc = "mark"
    /\ \/ /\ word' = [word EXCEPT ![w.entry] = DeadWord(w.seen)]
          /\ IF w.seen.waiters THEN Go(t, "wake one") /\ UNCHANGED walk
             ELSE Handled(t, NextEntry(t), at)
          /\ UNCHANGED faulted
       \/ /\ "put" \in Fault
          /\ Handled(t, NextEntry(t), at)
          /\ KeptFrom(t, {w.entry})
          /\ UNCHANGED word
    /\ UNCHANGED <<link, list_op_pending, queue, dirty, past>>

(* ... and wakes a waiter, if what it read told of one.                    *)
WakeWaiter(t) ==
    LET e == walk[t].entry IN
    /\ at[t].pc = "wake one"
    /\ queue' = AfterWake(e)
    /\ Handled(t, NextEntry(t), Woken(e, at))
    /\ UNCHANGED <<word, link, list_op_pending, dirty, history>>

----------------------------------------------------------------------------
WalkStep(t) == WalkEntry(t) \/ WalkEnds(t) \/ MarkWord(t) \/ WakeWaiter(t)

GuestStep(t) ==
    \/ GuestTry(t) \/ GuestWait(t) \/ GuestLink(t)
    \/ GuestUnlock(t) \/ GuestWake(t)

AllDead == (\A t \in Thread : at[t].pc = "dead") /\ UNCHANGED robustVars

RobustNext ==
    \/ \E t \in Thread : GuestStep(t) \/ WalkStep(t) \/ Exit(t)
    \/ \E t \in Thread, l \in Lock : GuestLock(t, l) \/ GuestUnlink(t, l)
    \/ AllDead

RobustSpec == RobustInit /\ [][RobustNext]_robustVars

----------------------------------------------------------------------------
(* Properties.                                                             *)

Words == [owner : Thread \cup {Nobody}, waiters : BOOLEAN, died : BOOLEAN]
ExitPlaces == {"walk", "mark", "wake one", "dead"}

(* Every variable keeps its type. *)
RobustTypeOK ==
    /\ word \in [Lock -> Words]
    /\ link \in [Thread \cup Lock -> Thread \cup Lock]
    /\ list_op_pending \in [Thread -> Lock \cup {Nobody}]
    /\ at \in [Thread -> [pc : GuestPlaces \cup ExitPlaces, lock : Lock \cup {Nobody},
                          slept : BOOLEAN, saw : Words]]
    /\ queue \in [Lock -> Seq(Thread)]
    /\ walk \in [Thread -> [entry : Thread \cup Lock \cup {Nobody},
                            next : Thread \cup Lock \cup {Nobody},
                            seen : Words, limit : Nat, last : BOOLEAN]]
    /\ dirty \subseteq Lock
    /\ past \in [Thread -> SUBSET Lock] /\ faulted \in [Thread -> SUBSET Lock]

(* A thread that is gone has left no lock behind but those that were past  *)
(* the limit on its list when it exited and those that a fault kept its    *)
(* walk from, wherever in locking or unlocking it was killed and whatever  *)
(* the other threads did with its locks and their links during its walk    *)
(* (do_exit: "Release the robust mutexes this thread still holds").        *)
LeftByTheLimit ==
    \A t \in Thread, l \in Lock :
        at[t].pc = "dead" /\ word[l].owner = t => l \in past[t] \cup faulted[t]

(* Of a list longer than the limit the rest is left, but the lock that an  *)
(* operation was in progress on, which is not counted, only for a fault.   *)
PendingIsReleased ==
    \A t \in Thread :
        LET l == list_op_pending[t] IN
        at[t].pc = "dead" /\ l # Nobody => word[l].owner # t \/ l \in faulted[t]

(* The two together: what a dead thread has left.                          *)
DeadHoldNothing == LeftByTheLimit /\ PendingIsReleased

(* Whoever takes a lock learns that its last owner died if and only if it  *)
(* did ("The owner-died bit is how the next waiter learns the holder died  *)
(* mid-critical-section").                                                 *)
DeathIsToldStep ==
    \A l \in Lock :
        word[l].owner = Nobody /\ word'[l].owner # Nobody =>
            (word[l].died <=> l \in dirty)
DeathIsTold == [][DeathIsToldStep]_robustVars

(* A walk touches no lock that its thread does not own at that moment: the *)
(* word it writes still names it.                                          *)
OwnWordsStep ==
    \A t \in Thread : MarkWord(t) => word[walk[t].entry].owner = t
WalkWritesOwnWords == [][OwnWordsStep]_robustVars

(* Nobody sleeps on a lock that is free while no thread is on its way to   *)
(* take it or to wake the sleeper (robust_handle_death "wakes one waiter   *)
(* if there was one -- which is what turns a waiter's blocking lock into   *)
(* an immediate EOWNERDEAD instead of a hang forever").                    *)
NobodyStranded ==
    \A l \in Lock :
        word[l].owner = Nobody /\ queue[l] # <<>> =>
            \E t \in Thread :
                \/ at[t].lock = l /\ at[t].pc \in {"try", "wait", "wake"}
                \/ at[t].pc = "wake one" /\ walk[t].entry = l
=============================================================================
