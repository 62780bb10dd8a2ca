------------------------------ MODULE SysvSem ------------------------------
(***************************************************************************)
(* kernel/sysvsem.c: a System V semaphore set.  semop applies an array of  *)
(* operations to it, whole or not at all, and with SEM_UNDO the exit of    *)
(* the process takes back what it did.                                     *)
(*                                                                         *)
(* A step is what happens under one hold of ns->sem_lock.                  *)
(* wait_for_blocked drops it while the caller sleeps on set->cond.         *)
(***************************************************************************)
EXTENDS Integers, Sequences, FiniteSets, SequencesExt

CONSTANTS
    Thread,
    Group,      \* struct tgroup of each thread
    Sem,        \* 0 .. nsems - 1
    MaxVal,     \* SEMVMX_
    SetValues,  \* the values the guest sets with semctl
    Arrays      \* the arrays of operations the guest passes: sequences of
                \* [num, op, undo, nowait]

(* What the constants are. *)
SysvSemConstants ==
    /\ MaxVal \in Nat \ {0} /\ SetValues \subseteq 0 .. MaxVal
    /\ \A a \in Arrays : a # <<>> /\ \A i \in DOMAIN a : a[i].num \in Sem /\ a[i].op \in Int

VARIABLES
    life,       \* the set: "none", "live", or "removed" with waiters left
    val,        \* the values
    adj,        \* the adjustments each group has recorded
    ncnt, zcnt, \* those waiting for each semaphore to rise, and for zero
    waiters,
    call,       \* the semop each thread sleeps in: its array, the operation
                \* it blocks on, whether it has a deadline and has missed it
    woken,      \* the sleepers that notify(&set->cond) has reached
    credit,     \* history: what each value is when every undo on record is
                \* applied
    by          \* history: the call that changed the values last

vars == <<life, val, adj, ncnt, zcnt, waiters, call, woken, credit, by>>

Groups == {Group[t] : t \in Thread}
NoCall == [sops |-> <<>>]
Asleep == {t \in Thread : call[t] # NoCall}
Zero == [s \in Sem |-> 0]

Init ==
    /\ life = "none"
    /\ val = Zero /\ ncnt = Zero /\ zcnt = Zero /\ credit = Zero
    /\ adj = [g \in Groups |-> Zero]
    /\ waiters = 0
    /\ call = [t \in Thread |-> NoCall]
    /\ woken = {}
    /\ by = "semctl"

----------------------------------------------------------------------------
(* Op over the array, from x on: FoldLeft, which TLC evaluates more slowly. *)
Along(Op(_, _), x, sops) ==
    LET f[k \in 0 .. Len(sops)] == IF k = 0 THEN x ELSE Op(f[k - 1], sops[k])
    IN  f[Len(sops)]

(* The array applied to the values v, one operation after the other, up to *)
(* the first that cannot be: the values then, how many were applied, and   *)
(* why it stopped.                                                         *)
ApplyOp(r, o) ==
    IF r.stop # "no" THEN r
    ELSE IF o.op > 0 /\ r.v[o.num] + o.op > MaxVal THEN [r EXCEPT !.stop = "range"]
    ELSE IF (o.op = 0 /\ r.v[o.num] # 0) \/ r.v[o.num] < -o.op THEN [r EXCEPT !.stop = "wait"]
    ELSE [v |-> [r.v EXCEPT ![o.num] = @ + o.op], n |-> r.n + 1, stop |-> "no"]

Apply(v, sops) == Along(ApplyOp, [v |-> v, n |-> 0, stop |-> "no"], sops)

(* Mutant: the last operation applied is not taken back. *)
Rollback_OneShort(v, sops, n) ==
    Along(LAMBDA w, o : [w EXCEPT ![o.num] = @ - o.op], v, SubSeq(sops, 1, n - 1))

(* The first n operations taken back. *)
Rollback(v, sops, n) ==
    Along(LAMBDA w, o : [w EXCEPT ![o.num] = @ - o.op], v, SubSeq(sops, 1, n))

(* int16_t, which SEMVMX_ + 1 is half the range of. *)
Modulus == 2 * (MaxVal + 1)
Int16(x) == ((x + MaxVal + 1) % Modulus) - (MaxVal + 1)

(* Mutant: only what the process took is recorded. *)
Recorded_TakenOnly(w, sops) ==
    Along(LAMBDA x, o : IF o.undo /\ o.op < 0 THEN [x EXCEPT ![o.num] = Int16(@ - o.op)] ELSE x,
             w, sops)

(* The operations in front of which sem_undo_get may have found no memory  *)
(* for a group without a record: they are applied and not recorded.  A     *)
(* record of zeros is taken for none, and may fail too.                    *)
Unrecorded(g, sops) ==
    IF adj[g] = Zero THEN {0} \cup {k \in DOMAIN sops : sops[k].undo} ELSE {0}

(* The adjustments after the array: what would take the SEM_UNDO ones back. *)
Recorded(w, sops) ==
    Along(LAMBDA x, o : IF o.undo THEN [x EXCEPT ![o.num] = Int16(@ - o.op)] ELSE x,
             w, sops)

(* What the array adds to each semaphore for good, its first k operations  *)
(* having no undo on record.                                               *)
Lasting(w, sops, k) ==
    LET add(x, o) == [x EXCEPT ![o.num] = (@ + o.op) % Modulus] IN
    Along(LAMBDA x, o : IF o.undo THEN x ELSE add(x, o),
          Along(add, w, SubSeq(sops, 1, k)), SubSeq(sops, k + 1, Len(sops)))

(* Mutant: a semop that succeeds wakes nobody. *)
Notify_Nobody(t) == woken' = woken \ {t}

Notify(t) == woken' = Asleep \ {t}

(* Mutant: those that wait for zero are counted with the others. *)
Counted_AsOne(cnt, sops, k, zero, d) ==
    IF zero THEN cnt ELSE [cnt EXCEPT ![sops[k].num] = @ + d]

(* What t waiting on the k-th operation of sops adds to the counters. *)
Counted(cnt, sops, k, zero, d) ==
    IF (sops[k].op = 0) = zero THEN [cnt EXCEPT ![sops[k].num] = @ + d] ELSE cnt

(* One pass of the loop of semop_common, the counters being n, z and w. *)
Try(t, sops, timed, late, n, z, w) ==
    LET r == Apply(val, sops)
        sleeps == r.stop = "wait" /\ ~ sops[r.n + 1].nowait /\ ~ (timed /\ late)
    IN
    /\ val' = IF r.stop = "no" THEN r.v ELSE Rollback(r.v, sops, r.n)
    /\ IF r.stop = "no"
       THEN /\ \E k \in Unrecorded(Group[t], sops) :
                /\ adj' = [adj EXCEPT ![Group[t]] = Recorded(@, SubSeq(sops, k + 1, Len(sops)))]
                /\ credit' = Lasting(credit, sops, k)
            /\ Notify(t)
       ELSE woken' = woken \ {t} /\ UNCHANGED <<adj, credit>>
    /\ by' = IF val' = val THEN by ELSE "semop"
    /\ IF sleeps
       THEN /\ call' = [call EXCEPT ![t] =
                   [sops |-> sops, at |-> r.n + 1, timed |-> timed, late |-> late]]
            /\ ncnt' = Counted(n, sops, r.n + 1, FALSE, 1)
            /\ zcnt' = Counted(z, sops, r.n + 1, TRUE, 1)
            /\ waiters' = w + 1
       ELSE /\ call' = [call EXCEPT ![t] = NoCall]
            /\ ncnt' = n /\ zcnt' = z /\ waiters' = w
    /\ UNCHANGED life

(* semop and semtimedop from their start. *)
Semop(t) ==
    /\ life = "live" /\ call[t] = NoCall
    /\ \E sops \in Arrays, timed \in BOOLEAN : Try(t, sops, timed, FALSE, ncnt, zcnt, waiters)

(* Mutant: freed at once, under its sleepers. *)
MaybeFree_Now(w) ==
    /\ life' = "none" /\ by' = "semctl"
    /\ val' = Zero /\ credit' = Zero /\ adj' = [g \in Groups |-> Zero]

(* sem_set_maybe_free, of a removed set with w waiters left. *)
MaybeFree(w) ==
    IF w # 0 THEN life' = "removed" /\ UNCHANGED <<val, adj, credit, by>>
    ELSE /\ life' = "none" /\ by' = "semctl"
         /\ val' = Zero /\ credit' = Zero /\ adj' = [g \in Groups |-> Zero]

(* The sleep of t ends: it was notified, its one-second slice ended, its   *)
(* time ran out, or (eintr) it was interrupted.                            *)
Resume(t, eintr) ==
    /\ t \in Asleep
    /\ LET c == call[t]
           n == Counted(ncnt, c.sops, c.at, FALSE, -1)
           z == Counted(zcnt, c.sops, c.at, TRUE, -1)
           w == waiters - 1
       IN
       \/ /\ life = "removed"
          /\ MaybeFree(w)
          /\ ncnt' = n /\ zcnt' = z /\ waiters' = w
          /\ call' = [call EXCEPT ![t] = NoCall] /\ woken' = woken \ {t}
       \/ /\ life = "live" /\ eintr
          /\ ncnt' = n /\ zcnt' = z /\ waiters' = w
          /\ call' = [call EXCEPT ![t] = NoCall] /\ woken' = woken \ {t}
          /\ UNCHANGED <<life, val, adj, credit, by>>
       \/ life = "live" /\ ~ eintr /\ Try(t, c.sops, c.timed, c.late, n, z, w)

(* The deadline of a timed sleeper passes, which ends the host's wait. *)
Expire(t) ==
    /\ t \in Asleep /\ call[t].timed /\ ~ call[t].late
    /\ call' = [call EXCEPT ![t].late = TRUE]
    /\ UNCHANGED <<life, val, adj, ncnt, zcnt, waiters, woken, credit, by>>

(* semget, where no set has the key. *)
Semget ==
    /\ life = "none"
    /\ life' = "live"
    /\ UNCHANGED <<val, adj, ncnt, zcnt, waiters, call, woken, credit, by>>

(* semctl IPC_RMID. *)
IpcRmid ==
    /\ life = "live"
    /\ woken' = Asleep
    /\ MaybeFree(waiters)
    /\ UNCHANGED <<ncnt, zcnt, waiters, call>>

(* semctl SETVAL, and SETALL (to equal values) where S is all of them. *)
SetVal ==
    /\ life = "live"
    /\ \E S \in {{s} : s \in Sem} \cup {Sem}, v \in SetValues :
        /\ val' = [s \in Sem |-> IF s \in S THEN v ELSE val[s]]
        /\ credit' = [s \in Sem |-> IF s \in S THEN v ELSE credit[s]]
        /\ adj' = [g \in Groups |-> [s \in Sem |-> IF s \in S THEN 0 ELSE adj[g][s]]]
    /\ woken' = Asleep /\ by' = "semctl"
    /\ UNCHANGED <<life, ncnt, zcnt, waiters, call>>

Clamp(x) == IF x < 0 THEN 0 ELSE IF x > MaxVal THEN MaxVal ELSE x

(* sysv_sem_exit, when the last thread of g exits.  A set that is removed  *)
(* but not yet freed is still on the list.                                 *)
Exit(g) ==
    /\ \A t \in Asleep : Group[t] # g
    /\ adj[g] # Zero
    /\ val' = [s \in Sem |-> Clamp(val[s] + adj[g][s])]
    /\ credit' = [s \in Sem |-> (credit[s] + val'[s] - (val[s] + adj[g][s])) % Modulus]
    /\ adj' = [adj EXCEPT ![g] = Zero]
    /\ woken' = Asleep /\ by' = "exit"
    /\ UNCHANGED <<life, ncnt, zcnt, waiters, call>>

Next ==
    \/ \E t \in Thread : Semop(t) \/ Expire(t) \/ \E e \in BOOLEAN : Resume(t, e)
    \/ \E g \in Groups : Exit(g)
    \/ Semget \/ IpcRmid \/ SetVal

Spec == Init /\ [][Next]_vars

----------------------------------------------------------------------------
TypeOK ==
    /\ life \in {"none", "live", "removed"}
    /\ val \in [Sem -> 0 .. MaxVal]
    /\ adj \in [Groups -> [Sem -> -(MaxVal + 1) .. MaxVal]]
    /\ woken \subseteq Asleep

(* GETNCNT and GETZCNT are the sleepers on each semaphore, and waiters     *)
(* their sum, whatever a sleeper's array blocks on from one look to the    *)
(* next (sysvsem.c:293, 319).                                              *)
CountsMatchSleepers ==
    LET on(s, zero) == {t \in Asleep :
            LET o == call[t].sops[call[t].at] IN o.num = s /\ (o.op = 0) = zero}
    IN
    /\ \A s \in Sem : ncnt[s] = Cardinality(on(s, FALSE)) /\ zcnt[s] = Cardinality(on(s, TRUE))
    /\ waiters = Cardinality(Asleep)

(* A removed set is kept exactly as long as someone sleeps on it           *)
(* (sysvsem.c:109): the last one to see the removal frees it.              *)
FreedByTheLast ==
    /\ life = "none" => Asleep = {}
    /\ life = "removed" => Asleep # {}

(* No wake is lost: a sleeper that no notify is on its way to has an array *)
(* that cannot be applied yet, and a set that is there.                    *)
WakeNotLost ==
    \A t \in Asleep \ woken : life = "live" /\ Apply(val, call[t].sops).stop = "wait"

(* Undo is balanced: each value, with every recorded adjustment applied,   *)
(* is what the operations without SEM_UNDO, and those that no record could *)
(* be made for, alone make of it (sysvsem.c:277, 603), up to the width of  *)
(* the adjustments.                                                        *)
UndoBalances ==
    \A s \in Sem :
        (SumFunction([g \in Groups |-> adj[g][s]]) + val[s] - credit[s]) % Modulus = 0

WholeStep ==
    val' # val /\ by' = "semop" =>
        \E a \in Arrays : \A s \in Sem :
            val'[s] = val[s] + SumFunctionOnSet([i \in DOMAIN a |-> a[i].op],
                                                {i \in DOMAIN a : a[i].num = s})

(* semop applies its array whole or not at all (sysvsem.c:241): a pass of  *)
(* its loop leaves the values as they are, or adds all of an array to them. *)
WholeOrNothing == [][WholeStep]_vars
=============================================================================
