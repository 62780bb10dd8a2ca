-------------------------------- MODULE Fifo --------------------------------
(***************************************************************************)
(* fs/fifo.c: a named pipe.  Each thread has one descriptor of it, which   *)
(* it opens, reads or writes, and closes.                                  *)
(*                                                                         *)
(* A step is what happens under one hold of fifo->lock or of               *)
(* fifo->fds_lock.  wait_for_blocked drops fifo->lock while the caller     *)
(* sleeps on fifo->cond.  A byte is known by the write it belongs to: the  *)
(* writer, its place in that write, and the size of the write.             *)
(***************************************************************************)
EXTENDS Integers, Sequences, FiniteSets, SequencesExt

CONSTANTS
    Thread,
    Cap,        \* FIFO_FILE_CAPACITY
    PipeBuf,    \* PIPE_BUF_
    Size,       \* the sizes the guest writes
    ReadSize,   \* and reads
    Flags,      \* the access modes each thread opens with and O_NONBLOCK
    MaxOpens    \* bound on w_counter

(* What the constants are. *)
FifoConstants ==
    /\ Cap \in Nat \ {0} /\ PipeBuf \in 1 .. Cap
    /\ Size \cup ReadSize \subseteq Nat \ {0}
    /\ Flags \in [Thread -> SUBSET [mode : {"r", "w", "rw"}, nonblock : BOOLEAN]]
    /\ MaxOpens \in Nat

VARIABLES
    ring,       \* buf, start and size
    readers, writers, w_counter,
    fds,        \* the descriptors on fifo->fds
    file,       \* each descriptor: flags and fifo_version
    pc,         \* where each thread is
    call,       \* the size of its read or write and the bytes written so far
    asleep,     \* the threads in wait_for_blocked
    woken,      \* those that notify(&fifo->cond) has reached
    met         \* history: the descriptors a writer was there with

fifo == <<ring, readers, writers, w_counter>>
vars == <<ring, readers, writers, w_counter, fds, file, pc, call, asleep, woken, met>>

Byte == [by : Thread, at : Size \cup 1 .. Cap, of : Size]
NoByte == [of |-> 0]
NoFile == [mode |-> "none", nonblock |-> FALSE, version |-> 0]
NoCall == [n |-> 0, written |-> 0]

Reader(t) == file[t].mode \in {"r", "rw"}
Writer(t) == file[t].mode \in {"w", "rw"}

(* The bytes buffered, the oldest first. *)
Contents == [k \in 1 .. ring.size |-> ring.buf[(ring.start + k - 1) % Cap]]

Init ==
    /\ ring = [buf |-> [i \in 0 .. Cap - 1 |-> NoByte], start |-> 0, size |-> 0]
    /\ readers = 0 /\ writers = 0 /\ w_counter = 0
    /\ fds = {}
    /\ file = [t \in Thread |-> NoFile]
    /\ pc = [t \in Thread |-> "closed"]
    /\ call = [t \in Thread |-> NoCall]
    /\ asleep = {} /\ woken = {} /\ met = {}

----------------------------------------------------------------------------
Goto(t, l) == pc' = [pc EXCEPT ![t] = l]
Return(t) == Goto(t, "open") /\ call' = [call EXCEPT ![t] = NoCall]
Continue(t, l, n, written) ==
    Goto(t, l) /\ call' = [call EXCEPT ![t] = [n |-> n, written |-> written]]

(* Mutant: tells one sleeper, where several may wait for different things. *)
Notify_One(t) ==
    /\ asleep' = asleep \ {t}
    /\ woken' = (woken \ {t}) \cup (IF asleep \ {t} = {} THEN {} ELSE {CHOOSE s \in asleep \ {t} : TRUE})

(* t is awake in this step, and tells every sleeper. *)
Notify(t) == asleep' = asleep \ {t} /\ woken' = asleep \ {t}

(* t is awake in this step, and tells nobody. *)
Stay(t) == asleep' = asleep \ {t} /\ woken' = woken \ {t}

Sleep(t) == asleep' = asleep \cup {t} /\ woken' = woken \ {t}

(* Mutant: pinned even when a writer is there. *)
version_Pinned == w_counter

(* fd->fifo_version of a descriptor opened now. *)
version == IF writers = 0 THEN w_counter ELSE w_counter - 1

(* fifo_file_open up to its first unlock.  ENXIO changes nothing. *)
Open(t) ==
    /\ pc[t] = "closed"
    /\ \E f \in Flags[t] :
        LET m == f.mode
            nb == f.nonblock
            r == IF m = "w" THEN 0 ELSE 1
            w == IF m = "r" THEN 0 ELSE 1
        IN
        /\ ~ (m = "w" /\ nb /\ readers = 0)
        /\ w_counter + w <= MaxOpens
        /\ file' = [file EXCEPT ![t] =
               [mode |-> m, nonblock |-> nb,
                version |-> version]]
        /\ readers' = readers + r
        /\ writers' = writers + w
        /\ w_counter' = w_counter + w
        /\ met' = (IF w = 1 THEN {u \in Thread : pc[u] # "closed"} ELSE met)
                  \cup (IF writers > 0 THEN {t} ELSE {})
    /\ Notify(t)
    /\ Goto(t, "attach")
    /\ UNCHANGED <<ring, fds, call>>

(* The descriptor joins the list of those to wake; then the rendezvous. *)
Attach(t) ==
    /\ pc[t] = "attach"
    /\ fds' = fds \cup {t}
    /\ Goto(t, IF file[t].nonblock \/ file[t].mode = "rw" THEN "open" ELSE "meet")
    /\ UNCHANGED <<fifo, file, call, asleep, woken, met>>

PeerThere(t) == IF Reader(t) THEN writers > 0 ELSE readers > 0

Rendezvous(t) ==
    /\ pc[t] = "meet"
    /\ \/ PeerThere(t) /\ Goto(t, "open") /\ Stay(t)
       \/ ~ PeerThere(t) /\ Sleep(t) /\ UNCHANGED pc
    /\ UNCHANGED <<fifo, fds, file, call, met>>

(* Mutant: an interrupted open is not undone. *)
Interrupt_NoUndo(t) ==
    /\ t \in asleep
    /\ Goto(t, IF pc[t] = "meet" THEN "closed" ELSE "open")
    /\ call' = [call EXCEPT ![t] = NoCall]
    /\ Stay(t)
    /\ UNCHANGED <<fifo, fds, file, met>>

(* wait_for_blocked returns EINTR.  An open is undone by a close. *)
Interrupt(t) ==
    /\ t \in asleep
    /\ Goto(t, IF pc[t] = "meet" THEN "close" ELSE "open")
    /\ call' = [call EXCEPT ![t] = NoCall]
    /\ Stay(t)
    /\ UNCHANGED <<fifo, fds, file, met>>

(* fifo_file_close, of an open descriptor or of an open that was           *)
(* interrupted, under fds_lock; a descriptor not on the list was never *)
(* counted.                                                                *)
Detach(t) ==
    /\ pc[t] \in {"open", "close"}
    /\ fds' = fds \ {t}
    /\ Goto(t, IF t \in fds THEN "uncount" ELSE "closed")
    /\ UNCHANGED <<fifo, file, call, asleep, woken, met>>

Uncount(t) ==
    /\ pc[t] = "uncount"
    /\ readers' = IF Reader(t) /\ readers > 0 THEN readers - 1 ELSE readers
    /\ writers' = IF Writer(t) /\ writers > 0 THEN writers - 1 ELSE writers
    /\ file' = [file EXCEPT ![t] = NoFile]
    /\ met' = met \ {t}
    /\ Notify(t)
    /\ Goto(t, "closed")
    /\ UNCHANGED <<ring, w_counter, fds, call>>

----------------------------------------------------------------------------
(* One pass of fifo_file_read: it returns at the end of the file, takes    *)
(* what there is, sleeps, or (EAGAIN) returns with nothing.  A byte taken  *)
(* counts as gone: the code leaves it there, where nothing reads it.       *)
ReadPass(t, n) ==
    /\ \/ /\ ring.size = 0 /\ (writers = 0 \/ file[t].nonblock)
          /\ Stay(t) /\ Return(t) /\ UNCHANGED ring
       \/ /\ ring.size = 0 /\ writers > 0 /\ ~ file[t].nonblock
          /\ Sleep(t) /\ Continue(t, "read", n, 0) /\ UNCHANGED ring
       \/ /\ ring.size > 0
          /\ LET k == Min({n, ring.size}) IN
             ring' = [ring EXCEPT !.start = (@ + k) % Cap, !.size = @ - k,
                      !.buf = [i \in DOMAIN @ |->
                          IF (i - ring.start) % Cap < k THEN NoByte ELSE @[i]]]
          /\ Notify(t) /\ Return(t)
    /\ UNCHANGED <<readers, writers, w_counter, fds, file, met>>

(* Mutant: the rule for small writes is left out. *)
Space_Any(n) == Cap - ring.size

(* The room for a write of n bytes: a small one goes in whole or not. *)
Space(n) ==
    IF n <= PipeBuf /\ Cap - ring.size < n THEN 0 ELSE Cap - ring.size

(* Mutant: the end is counted from the buffer's beginning. *)
Put_NoStart(t, n, written, k) ==
    [ring EXCEPT !.size = @ + k,
     !.buf = [i \in DOMAIN @ |->
         LET j == (i - ring.size) % Cap IN
         IF j < k THEN [by |-> t, at |-> written + j + 1, of |-> n] ELSE @[i]]]

(* The next k bytes of t's write of n go in behind the others. *)
Put(t, n, written, k) ==
    [ring EXCEPT !.size = @ + k,
     !.buf = [i \in DOMAIN @ |->
         LET j == (i - (ring.start + ring.size)) % Cap IN
         IF j < k THEN [by |-> t, at |-> written + j + 1, of |-> n] ELSE @[i]]]

(* One pass of the loop of fifo_file_write. *)
WritePass(t, n, written) ==
    /\ LET k == Min({n - written, Space(n)}) IN
       \/ /\ readers = 0 \/ (k = 0 /\ file[t].nonblock)   \* EPIPE, EAGAIN or short
          /\ Stay(t) /\ Return(t) /\ UNCHANGED ring
       \/ /\ readers > 0 /\ k > 0
          /\ ring' = Put(t, n, written, k)
          /\ Notify(t)
          /\ IF written + k = n THEN Return(t) ELSE Continue(t, "write", n, written + k)
       \/ /\ readers > 0 /\ k = 0 /\ ~ file[t].nonblock
          /\ Sleep(t) /\ Continue(t, "write", n, written) /\ UNCHANGED ring
    /\ UNCHANGED <<readers, writers, w_counter, fds, file, met>>

Read(t) == pc[t] = "open" /\ Reader(t) /\ \E n \in ReadSize : ReadPass(t, n)
Write(t) == pc[t] = "open" /\ Writer(t) /\ \E n \in Size : WritePass(t, n, 0)

(* A call goes on: between two parts of a large write, or  *)
(* awake again after a notify or the end of a one-second slice.            *)
Resume(t) ==
    \/ Rendezvous(t)
    \/ pc[t] = "read" /\ ReadPass(t, call[t].n)
    \/ pc[t] = "write" /\ WritePass(t, call[t].n, call[t].written)

Next ==
    \E t \in Thread :
        \/ Open(t) \/ Attach(t) \/ Resume(t) \/ Interrupt(t)
        \/ Detach(t) \/ Uncount(t) \/ Read(t) \/ Write(t)

Spec == Init /\ [][Next]_vars

----------------------------------------------------------------------------
TypeOK ==
    /\ ring \in [buf : [0 .. Cap - 1 -> Byte \cup {NoByte}], start : 0 .. Cap - 1, size : 0 .. Cap]
    /\ fds \subseteq Thread /\ woken \subseteq asleep /\ asleep \subseteq Thread
    /\ pc \in [Thread -> {"closed", "attach", "meet", "open", "read", "write", "close", "uncount"}]
    /\ \A t \in asleep : pc[t] \in {"meet", "read", "write"}

(* The counts are those of the ends that are there (fifo.c:95, 97, 135,    *)
(* 137): an open counts from before its rendezvous, and one that is        *)
(* interrupted gives back what it took.                                    *)
CountsMatchEnds ==
    LET there == {t \in Thread : pc[t] # "closed"} IN
    /\ readers = Cardinality({t \in there : Reader(t)})
    /\ writers = Cardinality({t \in there : Writer(t)})

(* A write of at most PIPE_BUF is in the buffer whole, its bytes together  *)
(* (fifo.c:200): what is left of it after a read is its end, and no byte   *)
(* of another write is between two of its bytes.                           *)
SmallWritesAreWhole ==
    \A k \in 1 .. ring.size :
        LET b == Contents[k] IN
        b.of <= PipeBuf /\ b.at < b.of =>
            k < ring.size /\ Contents[k + 1] = [b EXCEPT !.at = @ + 1]

QueueStep == IsSuffix(Contents', Contents) \/ IsPrefix(Contents, Contents')

(* The ring is a queue (fifo.c:163, 213): a step takes bytes off its front *)
(* or puts some behind the ones there, wherever the ring wraps.            *)
RingIsQueue == [][QueueStep]_ring

(* Whether fifo_file_poll reports POLL_HUP to a reader. *)
PollHup(t) == writers = 0 /\ file[t].version # w_counter

(* A read end is told of a hangup exactly when a writer that was there     *)
(* with it has gone and none is left (fifo.c:93, 251).                     *)
HangupIsExact ==
    \A t \in fds : file[t].mode = "r" => (PollHup(t) <=> writers = 0 /\ t \in met)

(* What a sleeper waits for. *)
Ready(t) ==
    CASE pc[t] = "meet"  -> PeerThere(t)
      [] pc[t] = "read"  -> ring.size > 0 \/ writers = 0
      [] pc[t] = "write" -> readers = 0 \/ Space(call[t].n) > 0

(* No wake is lost: a sleeper that no notify is on its way to has nothing  *)
(* it could do, whoever came, went, read or wrote meanwhile.               *)
WakeNotLost == \A t \in asleep \ woken : ~ Ready(t)
=============================================================================
