--------------------------- MODULE FutexPIProofs ---------------------------
(* Proofs about FutexPI, for any finite set of threads and any locks.       *)
(*                                                                          *)
(* The inductive invariant IInv joins the type invariant, the agreement of  *)
(* queues, counts and frames (QueuesMatchFrames), the agreement of word and *)
(* owner (WordNamesOwner), and what a frame remembers from before           *)
(* futex_lock was dropped: above all, that an owner once found dead is      *)
(* still dead when its lock is taken over.                                  *)
EXTENDS FutexPI, ListProofs, FiniteSetTheorems

FutexRecs == [refcount : Int, pi_queue : Seq(Thread), pi_owner : Tid]

(* A thread has a frame while it is in futex_lock_pi; the owner the frame   *)
(* read is a thread, and one found dead is exiting.                         *)
FramesOK ==
    \A t \in Thread :
        /\ pc[t] \in InLockPI <=> frame[t].on
        /\ frame[t].on => frame[t].val.tid \in Thread
        /\ pc[t] = "relock" /\ ~frame[t].alive => Exiting(frame[t].val.tid)

SeenOK == \A t \in Thread : pc[t] = "robust_put" => seen[t].on

Core == TypeOK /\ FramesOK /\ SeenOK /\ QueuesMatchFrames

IInv == Core /\ WordNamesOwner

Users(l) == {t \in Thread : frame[t].on /\ frame[t].lock = l}
Sleepers == {t \in Thread : frame[t].on /\ frame[t].queued}

One(b) == IF b THEN 1 ELSE 0

(* t owns l, as far as it knows or will find when it looks. *)
Claims(l, t) == \/ t \in Holders(l)
                \/ frame[t].on /\ frame[t].lock = l /\ frame[t].pi_owned

(* t is in futex_lock_pi with frame f and futex fx: in the middle of it, or *)
(* just come in and with its reference taken.                               *)
Entered(t, f, fx) ==
    \/ frame[t] = f /\ fx = futex[f.lock]
    \/ /\ pc[t] = "run" /\ ~f.queued /\ ~f.pi_owned
       /\ fx = [futex[f.lock] EXCEPT !.refcount = @ + 1]

----------------------------------------------------------------------------
(* Two sets of threads that differ at most in t differ by at most one in    *)
(* size, and by which side t is on.                                         *)
LEMMA CountChange ==
    ASSUME NEW P \in SUBSET Thread, NEW Q \in SUBSET Thread, NEW t \in Thread,
           P \ {t} = Q \ {t}
    PROVE  /\ Cardinality(P) \in Nat /\ Cardinality(Q) \in Nat
           /\ Cardinality(Q) = Cardinality(P) + One(t \in Q) - One(t \in P)
           /\ t \in P => Cardinality(P) >= 1
<1>1. IsFiniteSet(P) /\ IsFiniteSet(Q)
  BY FS_Subset, FutexPIConstants, Zenon
<1> DEFINE R == P \ {t}
<1>2. IsFiniteSet(R) /\ Cardinality(R) \in Nat
  BY <1>1, FS_Subset, FS_CardinalityType, Zenon
<1>3. ASSUME NEW X \in SUBSET Thread, X \ {t} = R
      PROVE  Cardinality(X) = Cardinality(R) + One(t \in X)
  <2>1. CASE t \in X
    <3>1. X = R \cup {t} /\ t \notin R
      BY <1>3, <2>1, Zenon
    <3> QED BY <3>1, <1>2, <2>1, FS_AddElement, Zenon DEF One
  <2>2. CASE t \notin X
    <3>1. X = R
      BY <1>3, <2>2, Zenon
    <3> QED BY <3>1, <1>2, <2>2 DEF One
  <2> QED BY <2>1, <2>2, Zenon
<1>4. /\ Cardinality(P) = Cardinality(R) + One(t \in P)
      /\ Cardinality(Q) = Cardinality(R) + One(t \in Q)
  BY <1>3, Zenon
<1> HIDE DEF R
<1> QED BY <1>2, <1>4 DEF One

(* futex_lock_pi's way out takes exactly t off the queue and one reference. *)
LEMMA LeaveFutexEffect ==
    ASSUME NEW fx \in FutexRecs, NEW f \in Frames, NEW t \in Thread,
           Distinct(fx.pi_queue),
           OnList(fx.pi_queue, t) => f.queued /\ ~f.pi_owned
    PROVE  LET r == LeaveFutex(fx, f, t) IN
           /\ r \in FutexRecs
           /\ r.refcount = fx.refcount - 1
           /\ Distinct(r.pi_queue)
           /\ \A u \in Thread : OnList(r.pi_queue, u) <=> OnList(fx.pi_queue, u) /\ u # t
<1> DEFINE q == IF f.queued /\ ~f.pi_owned THEN ListRemove(fx.pi_queue, t) ELSE fx.pi_queue
<1>1. fx.pi_queue \in Seq(Thread) /\ fx.refcount \in Int /\ NoThread \in Tid
  BY Zenon DEF FutexRecs, Tid
<1>2. /\ q \in Seq(Thread) /\ Distinct(q)
      /\ \A u \in Thread : OnList(q, u) <=> OnList(fx.pi_queue, u) /\ u # t
  BY <1>1, RemoveEntries, Zenon
<1> HIDE DEF q
<1>3. LeaveFutex(fx, f, t) = IF fx.refcount = 1 THEN [NoObject EXCEPT !.pi_queue = q]
                             ELSE [fx EXCEPT !.refcount = @ - 1, !.pi_queue = q]
  BY Zenon DEF LeaveFutex, q
<1> DEFINE r == LeaveFutex(fx, f, t)
<1>4. r \in FutexRecs /\ r.pi_queue = q /\ r.refcount = fx.refcount - 1
  <2>1. CASE fx.refcount = 1
    <3>1. r = [refcount |-> 0, pi_queue |-> q, pi_owner |-> NoThread]
      BY <1>3, <2>1, Zenon DEF NoObject
    <3> QED BY <3>1, <1>1, <1>2, <2>1 DEF FutexRecs
  <2>2. CASE fx.refcount # 1
    <3>1. r = [refcount |-> fx.refcount - 1, pi_queue |-> q, pi_owner |-> fx.pi_owner]
      BY <1>3, <2>2, Zenon DEF FutexRecs
    <3>2. fx.refcount - 1 \in Int /\ fx.pi_owner \in Tid
      BY <1>1 DEF FutexRecs
    <3> QED BY <3>1, <3>2, <1>2 DEF FutexRecs
  <2> QED BY <2>1, <2>2
<1> HIDE DEF r
<1>5. /\ r \in FutexRecs /\ r.refcount = fx.refcount - 1 /\ Distinct(r.pi_queue)
      /\ \A u \in Thread : OnList(r.pi_queue, u) <=> OnList(fx.pi_queue, u) /\ u # t
  BY <1>2, <1>4, Zenon
<1> QED BY <1>5, Zenon DEF r

----------------------------------------------------------------------------
(* Thread t goes to p with the frame g (or none), and the futex r of lock l *)
(* follows: its queue and its counts change as the frame does.              *)
FutexFollows(t, l, g, p, r) ==
    /\ g \in Frames \cup {NoFrame} /\ r \in FutexRecs
    /\ p \in InLockPI \cup {"run"} /\ pc[t] \in InLockPI \cup {"run"}
    /\ frame' = [frame EXCEPT ![t] = g]
    /\ pc' = [pc EXCEPT ![t] = p]
    /\ futex' = [futex EXCEPT ![l] = r]
    /\ p \in InLockPI <=> g.on
    /\ frame[t].on => frame[t].lock = l
    /\ g.on => g.lock = l /\ g.val.tid \in Thread
    /\ p = "relock" /\ ~g.alive => Exiting(g.val.tid)
    /\ Distinct(r.pi_queue)
    /\ \A u \in Thread : OnList(r.pi_queue, u) <=>
          IF u = t THEN g.on /\ g.queued /\ ~g.pi_owned
          ELSE OnList(futex[l].pi_queue, u)
    /\ r.refcount = futex[l].refcount + One(g.on) - One(frame[t].on)
    /\ pi_waiting' = pi_waiting + One(g.on /\ g.queued)
                                - One(frame[t].on /\ frame[t].queued)

(* Such a step keeps Core.                                                  *)
LEMMA FrameStep ==
    ASSUME Core, NEW t \in Thread, NEW l \in Lock, NEW g, NEW p, NEW r,
           FutexFollows(t, l, g, p, r),
           word' \in [Lock -> Words], holds' \in [Thread -> SUBSET Lock],
           UNCHANGED <<sig, todo, seen>>
    PROVE  Core'
<1> USE DEF Core, FutexFollows
<1>1. \A u \in Thread : /\ frame'[u] = IF u = t THEN g ELSE frame[u]
                        /\ pc'[u] = IF u = t THEN p ELSE pc[u]
  BY Zenon DEF TypeOK
<1>2. \A k \in Lock : futex'[k] = IF k = l THEN r ELSE futex[k]
  BY Zenon DEF TypeOK
<1>3. \A u \in Thread : Exiting(u)' <=> Exiting(u)
  BY <1>1 DEF Exiting, InLockPI
<1>4. ASSUME NEW k \in Lock
      PROVE  /\ futex'[k].refcount = Cardinality(Users(k)')
             /\ futex'[k].refcount \in Nat
  <2> DEFINE P == Users(k)
             Q == Users(k)'
  <2>1. P \in SUBSET Thread /\ Q \in SUBSET Thread /\ P \ {t} = Q \ {t}
    BY <1>1 DEF Users
  <2>2. /\ t \in P <=> frame[t].on /\ k = l
        /\ t \in Q <=> g.on /\ k = l
    BY <1>1 DEF Users
  <2>3. futex[k].refcount = Cardinality(P)
    BY Zenon DEF QueuesMatchFrames, Users
  <2> HIDE DEF P, Q
  <2>4. /\ Cardinality(P) \in Nat /\ Cardinality(Q) \in Nat
        /\ Cardinality(Q) = Cardinality(P) + One(t \in Q) - One(t \in P)
    BY <2>1, CountChange, Zenon
  <2>5. CASE k = l
    BY <1>2, <2>2, <2>3, <2>4, <2>5 DEF One, Q
  <2>6. CASE k # l
    BY <1>2, <2>2, <2>3, <2>4, <2>6 DEF One, Q
  <2> QED BY <2>5, <2>6, Zenon
<1>5. pi_waiting' = Cardinality(Sleepers') /\ pi_waiting' \in Nat
  <2> DEFINE P == Sleepers
             Q == Sleepers'
  <2>1. P \in SUBSET Thread /\ Q \in SUBSET Thread /\ P \ {t} = Q \ {t}
    BY <1>1 DEF Sleepers
  <2>2. /\ t \in P <=> frame[t].on /\ frame[t].queued
        /\ t \in Q <=> g.on /\ g.queued
    BY <1>1 DEF Sleepers
  <2>3. pi_waiting = Cardinality(P)
    BY Zenon DEF QueuesMatchFrames, Sleepers
  <2> HIDE DEF P, Q
  <2>4. /\ Cardinality(P) \in Nat /\ Cardinality(Q) \in Nat
        /\ Cardinality(Q) = Cardinality(P) + One(t \in Q) - One(t \in P)
    BY <2>1, CountChange, Zenon
  <2> QED BY <2>2, <2>3, <2>4, Zenon DEF One, Q
<1>6. ASSUME NEW k \in Lock, NEW u \in Thread
      PROVE  OnList(futex'[k].pi_queue, u) <=>
             /\ frame'[u].on /\ frame'[u].lock = k
             /\ frame'[u].queued /\ ~frame'[u].pi_owned
  <2>1. OnList(futex[k].pi_queue, u) <=>
             /\ frame[u].on /\ frame[u].lock = k
             /\ frame[u].queued /\ ~frame[u].pi_owned
    BY Zenon DEF QueuesMatchFrames
  <2>2. CASE k = l /\ u = t
    BY <1>1, <1>2, <2>2
  <2>3. CASE k = l /\ u # t
    BY <1>1, <1>2, <2>1, <2>3
  <2>4. CASE k # l
    BY <1>1, <1>2, <2>1, <2>4
  <2> QED BY <2>2, <2>3, <2>4
<1>7. QueuesMatchFrames'
  <2>1. ASSUME NEW k \in Lock PROVE Distinct(futex'[k].pi_queue)
    <3>1. Distinct(futex[k].pi_queue)
      BY Zenon DEF QueuesMatchFrames
    <3>2. CASE k = l
      BY <1>2, <3>2
    <3>3. CASE k # l
      BY <1>2, <3>1, <3>3, Zenon
    <3> QED BY <3>2, <3>3, Zenon
  <2> QED BY <2>1, <1>4, <1>5, <1>6 DEF QueuesMatchFrames, Users, Sleepers
<1>8. TypeOK'
  <2>1. futex' \in [Lock -> [refcount : Nat, pi_queue : Seq(Thread), pi_owner : Tid]]
    <3>1. r.refcount \in Nat
      BY <1>2, <1>4, Zenon
    <3>2. r \in [refcount : Nat, pi_queue : Seq(Thread), pi_owner : Tid]
      BY <3>1, Zenon DEF FutexRecs
    <3> QED BY <3>2 DEF TypeOK
  <2>2. pc' \in [Thread -> InLockPI \cup {"run", "robust_get", "robust_put", "dead"}]
    BY Zenon DEF TypeOK
  <2>3. frame' \in [Thread -> Frames \cup {NoFrame}]
    BY Zenon DEF TypeOK
  <2> QED BY <2>1, <2>2, <2>3, <1>5 DEF TypeOK
<1>9. FramesOK'
  BY <1>1, <1>3 DEF FramesOK, Exiting, InLockPI
<1>10. SeenOK'
  BY <1>1 DEF SeenOK, InLockPI
<1> QED BY <1>7, <1>8, <1>9, <1>10

----------------------------------------------------------------------------
(* The frame of a thread in futex_lock_pi.                                  *)
LEMMA FrameFacts ==
    ASSUME Core, NEW t \in Thread, pc[t] \in InLockPI
    PROVE  /\ frame[t] \in Frames /\ frame[t].on
           /\ frame[t].lock \in Lock /\ frame[t].val.tid \in Thread
           /\ frame[t].queued \in BOOLEAN /\ frame[t].pi_owned \in BOOLEAN
           /\ frame[t].alive \in BOOLEAN
<1>1. frame[t].on /\ frame[t].val.tid \in Thread
  BY Zenon DEF Core, FramesOK
<1>2. frame[t] \in Frames
  BY <1>1 DEF Core, TypeOK, NoFrame
<1> QED BY <1>1, <1>2, Zenon DEF Frames

(* The futex of a lock.                                                     *)
LEMMA FutexFacts ==
    ASSUME Core, NEW l \in Lock
    PROVE  /\ futex[l] \in FutexRecs
           /\ futex[l].refcount \in Int /\ futex[l].pi_queue \in Seq(Thread)
           /\ Distinct(futex[l].pi_queue)
           /\ \A t \in Thread : OnList(futex[l].pi_queue, t) <=>
                  /\ frame[t].on /\ frame[t].lock = l
                  /\ frame[t].queued /\ ~frame[t].pi_owned
           /\ futex = [futex EXCEPT ![l] = futex[l]]
<1>1. futex[l] \in FutexRecs /\ futex = [futex EXCEPT ![l] = futex[l]]
  BY DEF Core, TypeOK, FutexRecs
<1>2. futex[l].refcount \in Int /\ futex[l].pi_queue \in Seq(Thread)
  BY <1>1, Zenon DEF FutexRecs
<1> QED BY <1>1, <1>2, Zenon DEF Core, QueuesMatchFrames

(* What Entered says of the frame and the futex, in either case.            *)
LEMMA EnteredFacts ==
    ASSUME Core, NEW t \in Thread, NEW f \in Frames, NEW fx, Entered(t, f, fx)
    PROVE  /\ fx \in FutexRecs
           /\ fx.refcount = futex[f.lock].refcount + 1 - One(frame[t].on)
           /\ fx.pi_queue = futex[f.lock].pi_queue
           /\ Distinct(fx.pi_queue)
           /\ OnList(fx.pi_queue, t) => f.queued /\ ~f.pi_owned
           /\ f.queued /\ ~f.pi_owned => OnList(fx.pi_queue, t)
           /\ pc[t] \in InLockPI \cup {"run"}
           /\ ~Exiting(t)
           /\ frame[t].on => frame[t].lock = f.lock
           /\ frame[t].on /\ frame[t].queued <=> f.queued
           /\ f.pi_owned => frame[t].on /\ frame[t].pi_owned
<1> USE DEF Core
<1>1. f.lock \in Lock /\ f.on
  BY Zenon DEF Frames
<1>2. /\ futex[f.lock] \in [refcount : Nat, pi_queue : Seq(Thread), pi_owner : Tid]
      /\ futex[f.lock].refcount \in Nat
  BY <1>1 DEF TypeOK
<1>3. /\ Distinct(futex[f.lock].pi_queue)
      /\ OnList(futex[f.lock].pi_queue, t) <=>
             /\ frame[t].on /\ frame[t].lock = f.lock
             /\ frame[t].queued /\ ~frame[t].pi_owned
  BY <1>1, Zenon DEF QueuesMatchFrames
<1>4. CASE frame[t] = f /\ fx = futex[f.lock]
  <2>1. pc[t] \in InLockPI
    BY <1>1, <1>4 DEF FramesOK
  <2>2. ~Exiting(t)
    BY <2>1, Zenon DEF InLockPI, Exiting
  <2>3. fx \in FutexRecs /\ fx.refcount = futex[f.lock].refcount + 1 - One(frame[t].on)
    BY <1>1, <1>2, <1>4 DEF FutexRecs, One
  <2> QED BY <1>1, <1>3, <1>4, <2>1, <2>2, <2>3, Zenon
<1>5. CASE /\ pc[t] = "run" /\ ~f.queued /\ ~f.pi_owned
           /\ fx = [futex[f.lock] EXCEPT !.refcount = @ + 1]
  <2>1. ~frame[t].on /\ ~Exiting(t)
    BY <1>5 DEF FramesOK, InLockPI, Exiting
  <2>2. /\ fx \in FutexRecs /\ fx.refcount = futex[f.lock].refcount + 1
        /\ fx.pi_queue = futex[f.lock].pi_queue
    BY <1>2, <1>5 DEF FutexRecs
  <2>3. fx.refcount = futex[f.lock].refcount + 1 - One(frame[t].on)
    BY <1>2, <2>1, <2>2 DEF One
  <2> QED BY <1>3, <1>5, <2>1, <2>2, <2>3
<1> QED BY <1>4, <1>5 DEF Entered

(* Leaving futex_lock_pi keeps Core.                                        *)
LEMMA LeaveCore ==
    ASSUME Core, NEW t \in Thread, NEW f \in Frames, NEW fx, NEW got \in BOOLEAN,
           Entered(t, f, fx), LeaveLockPI(t, f, fx, got),
           word' \in [Lock -> Words], UNCHANGED <<sig, todo, seen>>
    PROVE  Core'
<1> DEFINE r == LeaveFutex(fx, f, t)
<1>1. f.lock \in Lock /\ f.queued \in BOOLEAN
  BY Zenon DEF Frames
<1>2. /\ r \in FutexRecs /\ r.refcount = fx.refcount - 1 /\ Distinct(r.pi_queue)
      /\ \A u \in Thread : OnList(r.pi_queue, u) <=> OnList(fx.pi_queue, u) /\ u # t
  BY EnteredFacts, LeaveFutexEffect
<1>3. /\ futex' = [futex EXCEPT ![f.lock] = r]
      /\ pi_waiting' = IF f.queued THEN pi_waiting - 1 ELSE pi_waiting
      /\ pc' = [pc EXCEPT ![t] = "run"]
      /\ frame' = [frame EXCEPT ![t] = NoFrame]
      /\ holds' = [holds EXCEPT ![t] = IF got THEN @ \cup {f.lock} ELSE @]
  BY Zenon DEF LeaveLockPI
<1> HIDE DEF r
<1>4. holds' \in [Thread -> SUBSET Lock]
  BY <1>1, <1>3 DEF Core, TypeOK
<1>5. NoFrame \in Frames \cup {NoFrame} /\ ~NoFrame.on /\ "run" \notin InLockPI
  BY Zenon DEF NoFrame, InLockPI
<1>6. r.refcount = futex[f.lock].refcount + One(NoFrame.on) - One(frame[t].on)
  <2>1. fx.refcount = futex[f.lock].refcount + 1 - One(frame[t].on)
    BY EnteredFacts
  <2>2. futex[f.lock].refcount \in Int
    BY <1>1 DEF Core, TypeOK
  <2> QED BY <1>2, <1>5, <2>1, <2>2 DEF One
<1>7. pi_waiting' = pi_waiting + One(NoFrame.on /\ NoFrame.queued)
                               - One(frame[t].on /\ frame[t].queued)
  <2>1. frame[t].on /\ frame[t].queued <=> f.queued
    BY EnteredFacts, Zenon
  <2>2. pi_waiting \in Int
    BY DEF Core, TypeOK
  <2> QED BY <1>1, <1>3, <1>5, <2>1, <2>2 DEF One
<1>8. \A u \in Thread : OnList(r.pi_queue, u) <=>
          IF u = t THEN NoFrame.on /\ NoFrame.queued /\ ~NoFrame.pi_owned
          ELSE OnList(futex[f.lock].pi_queue, u)
  BY <1>2, <1>5, EnteredFacts
<1>9. pc[t] \in InLockPI \cup {"run"} /\ (frame[t].on => frame[t].lock = f.lock)
  BY EnteredFacts
<1>10. FutexFollows(t, f.lock, NoFrame, "run", r)
  BY <1>2, <1>3, <1>5, <1>6, <1>7, <1>8, <1>9 DEF FutexFollows
<1> QED BY <1>1, <1>4, <1>10, FrameStep

(* Leaving futex_lock_pi keeps the words naming the owners, if this word    *)
(* goes on naming whoever claims the lock and names t where t has it.       *)
LEMMA LeaveOwner ==
    ASSUME Core, WordNamesOwner, NEW t \in Thread, NEW f \in Frames, NEW fx,
           NEW got \in BOOLEAN, Entered(t, f, fx), LeaveLockPI(t, f, fx, got),
           \A k \in Lock : k # f.lock => word'[k] = word[k],
           \A u \in Thread : f.lock \notin Robust /\ Claims(f.lock, u)
                              => word'[f.lock].tid = u,
           f.lock \notin Robust /\ got => word'[f.lock].tid = t
    PROVE  WordNamesOwner'
<1>1. ASSUME NEW u \in Thread
      PROVE  /\ pc'[u] = IF u = t THEN "run" ELSE pc[u]
             /\ frame'[u] = IF u = t THEN NoFrame ELSE frame[u]
             /\ holds'[u] \subseteq holds[u] \cup (IF u = t /\ got THEN {f.lock} ELSE {})
  BY Zenon DEF LeaveLockPI, Core, TypeOK
<1>2. ~Exiting(t)
  BY EnteredFacts
<1>3. ASSUME NEW k \in Lock, NEW u \in Thread, Claims(k, u)'
      PROVE  Claims(k, u) \/ (u = t /\ got /\ k = f.lock)
  <2>1. ~NoFrame.on
    BY Zenon DEF NoFrame
  <2>2. CASE u = t
    BY <1>1, <1>2, <1>3, <2>1, <2>2 DEF Claims, Holders, Exiting
  <2>3. CASE u # t
    BY <1>1, <1>3, <2>3 DEF Claims, Holders, Exiting
  <2> QED BY <2>2, <2>3
<1>4. ASSUME NEW k \in Lock \ Robust, NEW u \in Thread, Claims(k, u)'
      PROVE  word'[k].tid = u
  <2>1. CASE k = f.lock
    BY <1>3, <1>4, <2>1
  <2>2. CASE k # f.lock
    <3>1. Claims(k, u)
      BY <1>3, <1>4, <2>2, Zenon
    <3> QED BY <2>2, <3>1 DEF WordNamesOwner, Claims
  <2> QED BY <2>1, <2>2
<1> QED BY <1>4, Zenon DEF WordNamesOwner, Claims

----------------------------------------------------------------------------
(* Where nobody is named in the word, or a dead thread is, nobody claims    *)
(* the lock.                                                                *)
LEMMA NobodyClaims ==
    ASSUME IInv, NEW l \in Lock \ Robust,
           word[l].tid \in Thread => Exiting(word[l].tid), NEW u \in Thread
    PROVE  ~Claims(l, u)
<1> SUFFICES ASSUME Claims(l, u) PROVE FALSE
  BY Zenon
<1>1. word[l].tid = u
  BY Zenon DEF IInv, WordNamesOwner, Claims
<1>2. Exiting(u)
  BY <1>1
<1>3. frame[u].on
  BY <1>2, Zenon DEF Claims, Holders
<1>4. pc[u] \in InLockPI
  BY <1>3, Zenon DEF IInv, Core, FramesOK
<1> QED BY <1>2, <1>4, Zenon DEF Exiting, InLockPI

(* One round of the loop of futex_lock_pi.                                  *)
LEMMA AttemptStep ==
    ASSUME IInv, NEW t \in Thread, NEW f \in Frames, NEW fx,
           Entered(t, f, fx), Attempt(t, f, fx), UNCHANGED <<sig, todo, seen>>
    PROVE  IInv'
<1> USE DEF IInv
<1> DEFINE l == f.lock
           val == word[l]
           other == \E i \in DOMAIN fx.pi_queue : fx.pi_queue[i] # t
<1>1. l \in Lock /\ f.queued \in BOOLEAN /\ f.pi_owned \in BOOLEAN /\ f.on
  BY Zenon DEF Frames
<1>2. /\ word \in [Lock -> Words] /\ val \in Words /\ val.tid \in Tid
      /\ val.died \in BOOLEAN /\ t \in Tid
  BY <1>1, Zenon DEF Core, TypeOK, Words, Tid
<1>3. \A u \in Thread : l \notin Robust /\ Claims(l, u) => val.tid = u
  BY <1>1, Zenon DEF WordNamesOwner, Claims
<1>4. CASE f.pi_owned /\ LeaveLockPI(t, f, fx, TRUE) /\ UNCHANGED word
  <2>1. Core'
    BY <1>2, <1>4, LeaveCore, Zenon
  <2>2. Claims(l, t)
    BY <1>4, EnteredFacts DEF Claims
  <2>3. WordNamesOwner'
    BY <1>3, <1>4, <2>2, LeaveOwner, Zenon
  <2> QED BY <2>1, <2>3
<1>5. CASE ~f.pi_owned /\ LeaveLockPI(t, f, fx, FALSE) /\ UNCHANGED word
  <2>1. Core'
    BY <1>2, <1>5, LeaveCore, Zenon
  <2>2. WordNamesOwner'
    BY <1>3, <1>5, LeaveOwner, Zenon
  <2> QED BY <2>1, <2>2
<1>6. CASE /\ ~f.pi_owned /\ val.tid = NoThread
           /\ word' = [word EXCEPT ![l] = [tid |-> t, died |-> val.died,
                                           waiters |-> f.queued \/ other]]
           /\ LeaveLockPI(t, f, fx, TRUE)
  <2> HIDE DEF other
  <2>1. (f.queued \/ other) \in BOOLEAN
    BY Zenon
  <2>2. /\ word' \in [Lock -> Words] /\ word'[l].tid = t
        /\ \A k \in Lock : k # l => word'[k] = word[k]
    BY <1>1, <1>2, <1>6, <2>1 DEF Words
  <2>3. Core'
    BY <1>6, <2>2, LeaveCore, Zenon
  <2>4. \A u \in Thread : l \notin Robust => ~Claims(l, u)
    BY <1>1, <1>6, NobodyClaims, FutexPIConstants
  <2>5. WordNamesOwner'
    BY <1>6, <2>2, <2>4, LeaveOwner, Zenon
  <2> QED BY <2>3, <2>5
<1>7. CASE /\ ~f.pi_owned /\ val.tid \notin {NoThread, t}
           /\ word' = [word EXCEPT ![l].waiters = TRUE]
           /\ IF f.trylock THEN LeaveLockPI(t, f, fx, FALSE)
              ELSE /\ futex' = [futex EXCEPT ![l] = fx]
                   /\ frame' = [frame EXCEPT ![t] = [f EXCEPT !.val = word'[l]]]
                   /\ pc' = [pc EXCEPT ![t] = "check"]
                   /\ UNCHANGED <<pi_waiting, holds>>
  <2>1. word' = [word EXCEPT ![l] = [val EXCEPT !.waiters = TRUE]]
    BY <1>7, Zenon
  <2>2. [val EXCEPT !.waiters = TRUE] \in Words /\ [val EXCEPT !.waiters = TRUE].tid = val.tid
    BY <1>2, Zenon DEF Words
  <2>3. /\ word' \in [Lock -> Words] /\ word'[l] \in Words /\ word'[l].tid = val.tid
        /\ \A k \in Lock : k # l => word'[k] = word[k]
    BY <1>1, <1>2, <2>1, <2>2, Zenon
  <2>4. CASE f.trylock
    <3>1. Core'
      BY <1>7, <2>3, <2>4, LeaveCore, Zenon
    <3>2. WordNamesOwner'
      BY <1>3, <1>7, <2>3, <2>4, LeaveOwner, Zenon
    <3> QED BY <3>1, <3>2
  <2>5. CASE ~f.trylock
    <3> DEFINE g == [f EXCEPT !.val = word'[l]]
    <3>1. /\ g \in Frames /\ g.on /\ g.lock = l /\ g.val.tid \in Thread
          /\ g.queued = f.queued /\ g.pi_owned = f.pi_owned
      BY <1>1, <1>2, <1>7, <2>3, Zenon DEF Frames, Tid
    <3>2. /\ frame' = [frame EXCEPT ![t] = g] /\ pc' = [pc EXCEPT ![t] = "check"]
          /\ futex' = [futex EXCEPT ![l] = fx] /\ UNCHANGED <<pi_waiting, holds>>
      BY <1>7, <2>5
    <3> HIDE DEF g
    <3>3. "check" \in InLockPI /\ "check" # "relock"
      BY Zenon DEF InLockPI
    <3>4. /\ fx \in FutexRecs /\ Distinct(fx.pi_queue)
          /\ fx.refcount = futex[l].refcount + One(g.on) - One(frame[t].on)
          /\ frame[t].on => frame[t].lock = l
          /\ pc[t] \in InLockPI \cup {"run"} /\ ~Exiting(t)
      BY <3>1, EnteredFacts DEF One
    <3>5. pi_waiting' = pi_waiting + One(g.on /\ g.queued)
                                   - One(frame[t].on /\ frame[t].queued)
      <4>1. frame[t].on /\ frame[t].queued <=> g.on /\ g.queued
        BY <3>1, EnteredFacts
      <4>2. pi_waiting \in Int
        BY DEF Core, TypeOK
      <4> QED BY <3>2, <4>1, <4>2 DEF One
    <3>6. \A u \in Thread : OnList(fx.pi_queue, u) <=>
              IF u = t THEN g.on /\ g.queued /\ ~g.pi_owned
              ELSE OnList(futex[l].pi_queue, u)
      BY <3>1, EnteredFacts
    <3>7. Core'
      <4>1. holds' \in [Thread -> SUBSET Lock]
        BY <3>2 DEF Core, TypeOK
      <4>2. FutexFollows(t, l, g, "check", fx)
        BY <3>1, <3>2, <3>3, <3>4, <3>5, <3>6 DEF FutexFollows
      <4> QED BY <1>1, <2>3, <4>1, <4>2, FrameStep
    <3>8. WordNamesOwner'
      <4>1. ASSUME NEW k \in Lock, NEW u \in Thread, Claims(k, u)' PROVE Claims(k, u)
        <5>1. /\ pc'[u] = IF u = t THEN "check" ELSE pc[u]
              /\ frame'[u] = IF u = t THEN g ELSE frame[u]
              /\ holds'[u] = holds[u]
          BY <3>2, Zenon DEF Core, TypeOK
        <5> QED BY <1>7, <3>1, <3>4, <4>1, <5>1 DEF Claims, Holders, Exiting
      <4>2. \A k \in Lock : word'[k].tid = word[k].tid
        BY <2>3, Zenon
      <4> QED BY <4>1, <4>2 DEF WordNamesOwner, Claims
    <3> QED BY <3>7, <3>8
  <2> QED BY <2>4, <2>5
<1> HIDE DEF IInv
<1> QED BY <1>4, <1>5, <1>6, <1>7, Zenon DEF Attempt

----------------------------------------------------------------------------
(* The steps outside futex_lock_pi.                                         *)

(* Steps that leave the frames and the futexes alone keep them in step.     *)
LEMMA SameFrames ==
    ASSUME QueuesMatchFrames, UNCHANGED <<futex, pi_waiting, frame>>
    PROVE  QueuesMatchFrames'
BY DEF QueuesMatchFrames

(* The guest takes a free lock.                                             *)
LEMMA GuestLockStep ==
    ASSUME IInv, NEW t \in Thread, GuestLock(t)
    PROVE  IInv'
<1> USE DEF IInv
<1>1. PICK l \in Lock : /\ pc[t] = "run" /\ word[l] = Free
                        /\ word' = [word EXCEPT ![l] = [Free EXCEPT !.tid = t]]
                        /\ holds' = [holds EXCEPT ![t] = @ \cup {l}]
                        /\ UNCHANGED <<futex, pi_waiting, pc, frame, sig, todo, seen>>
  BY Zenon DEF GuestLock
<1>2. /\ Free.tid = NoThread
      /\ [Free EXCEPT !.tid = t] \in Words /\ [Free EXCEPT !.tid = t].tid = t
  BY Zenon DEF Free, Words, Tid
<1>3. Core'
  <2>1. word' \in [Lock -> Words] /\ holds' \in [Thread -> SUBSET Lock]
    BY <1>1, <1>2, Zenon DEF Core, TypeOK
  <2>2. TypeOK'
    BY <1>1, <2>1 DEF Core, TypeOK
  <2> QED BY <1>1, <2>2, SameFrames DEF Core, FramesOK, SeenOK, Exiting
<1>4. ASSUME NEW k \in Lock \ Robust, NEW u \in Thread, Claims(k, u)'
      PROVE  word'[k].tid = u
  <2>1. word'[k].tid = IF k = l THEN t ELSE word[k].tid
    BY <1>1, <1>2 DEF Core, TypeOK
  <2>2. CASE k = l
    <3>1. ~Claims(l, u)
      BY <1>1, <1>2, <2>2, NobodyClaims, FutexPIConstants
    <3>2. u = t
      BY <1>1, <1>4, <2>2, <3>1 DEF Claims, Holders, Exiting, Core, TypeOK
    <3> QED BY <2>1, <2>2, <3>2, Zenon
  <2>3. CASE k # l
    <3>1. Claims(k, u)
      BY <1>1, <1>4, <2>3 DEF Claims, Holders, Exiting, Core, TypeOK
    <3> QED BY <2>1, <2>3, <3>1 DEF WordNamesOwner, Claims
  <2> QED BY <2>2, <2>3
<1> QED BY <1>3, <1>4 DEF WordNamesOwner, Claims

(* The guest frees a lock nobody waits for.                                 *)
LEMMA GuestUnlockStep ==
    ASSUME IInv, NEW t \in Thread, GuestUnlock(t)
    PROVE  IInv'
<1> USE DEF IInv
<1>1. PICK l \in holds[t] : /\ pc[t] = "run" /\ word[l] = [Free EXCEPT !.tid = t]
                            /\ word' = [word EXCEPT ![l] = Free]
                            /\ holds' = [holds EXCEPT ![t] = @ \ {l}]
                            /\ UNCHANGED <<futex, pi_waiting, pc, frame, sig, todo, seen>>
  BY Zenon DEF GuestUnlock
<1>2. l \in Lock /\ Free \in Words /\ [Free EXCEPT !.tid = t].tid = t
  BY Zenon DEF Core, TypeOK, Free, Words, Tid
<1>3. Core'
  <2>1. word' \in [Lock -> Words] /\ holds' \in [Thread -> SUBSET Lock]
    BY <1>1, <1>2 DEF Core, TypeOK
  <2>2. TypeOK'
    BY <1>1, <2>1, Zenon DEF Core, TypeOK
  <2> QED BY <1>1, <2>2, SameFrames DEF Core, FramesOK, SeenOK, Exiting
<1>4. ASSUME NEW k \in Lock \ Robust, NEW u \in Thread, Claims(k, u)'
      PROVE  word'[k].tid = u
  <2>1. Claims(k, u)
    BY <1>1, <1>4, Zenon DEF Claims, Holders, Exiting, Core, TypeOK
  <2>2. word[k].tid = u
    BY <2>1 DEF WordNamesOwner, Claims
  <2>3. CASE k = l
    <3>1. u = t
      BY <1>1, <1>2, <2>2, <2>3, Zenon
    <3>2. ~frame[t].on
      BY <1>1, Zenon DEF Core, FramesOK, InLockPI
    <3> QED BY <1>1, <1>4, <2>3, <3>1, <3>2 DEF Claims, Holders, Core, TypeOK
  <2>4. CASE k # l
    BY <1>1, <1>2, <2>2, <2>4 DEF Core, TypeOK
  <2> QED BY <2>3, <2>4
<1> QED BY <1>3, <1>4, Zenon DEF WordNamesOwner, Claims

(* FUTEX_LOCK_PI, from the syscall to where futex_lock is first dropped.    *)
LEMMA FutexLockPIStep ==
    ASSUME IInv, NEW t \in Thread, FutexLockPI(t)
    PROVE  IInv'
<1>1. PICK l \in Lock, trylock \in BOOLEAN, timed \in BOOLEAN :
        /\ pc[t] = "run"
        /\ Attempt(t, [on |-> TRUE, lock |-> l, trylock |-> trylock, timed |-> timed,
                       queued |-> FALSE, pi_owned |-> FALSE, val |-> Free, alive |-> TRUE],
                   [futex[l] EXCEPT !.refcount = @ + 1])
        /\ UNCHANGED <<sig, todo, seen>>
  BY Zenon DEF FutexLockPI
<1> DEFINE f == [on |-> TRUE, lock |-> l, trylock |-> trylock, timed |-> timed,
                 queued |-> FALSE, pi_owned |-> FALSE, val |-> Free, alive |-> TRUE]
           fx == [futex[l] EXCEPT !.refcount = @ + 1]
<1>2. f \in Frames /\ f.lock = l /\ ~f.queued /\ ~f.pi_owned
  BY Zenon DEF Frames, Words, Free, Tid
<1>3. Attempt(t, f, fx)
  BY <1>1, Zenon
<1> HIDE DEF f
<1>4. Entered(t, f, fx)
  BY <1>1, <1>2, Zenon DEF Entered
<1> HIDE DEF fx
<1> QED BY <1>1, <1>2, <1>3, <1>4, AttemptStep

(* The owner is looked up with futex_lock dropped.                          *)
LEMMA CheckOwnerStep ==
    ASSUME IInv, NEW t \in Thread, CheckOwner(t)
    PROVE  IInv'
<1> USE DEF IInv
<1>0. pc[t] = "check" /\ pc[t] \in InLockPI /\ "relock" \in InLockPI
  BY Zenon DEF CheckOwner, InLockPI
<1> PICK f \in Frames : f = frame[t]
  BY <1>0, FrameFacts, Zenon
<1> PICK a \in BOOLEAN : a = OwnerAlive(f.val.tid)
  BY Zenon DEF OwnerAlive, Exiting
<1> PICK r : r = futex[f.lock]
  BY Zenon
<1> DEFINE g == [f EXCEPT !.alive = a]
           l == f.lock
<1>1. /\ pc' = [pc EXCEPT ![t] = "relock"]
      /\ frame' = [frame EXCEPT ![t] = g]
      /\ UNCHANGED <<word, futex, pi_waiting, sig, todo, seen, holds>>
  BY Zenon DEF CheckOwner
<1>2. /\ f.on /\ l \in Lock /\ f.val.tid \in Thread /\ f.queued \in BOOLEAN
  BY <1>0, FrameFacts, Zenon
<1>3. ~a => Exiting(f.val.tid)
  BY Zenon DEF OwnerAlive, Exiting
<1>4. /\ g \in Frames /\ g.alive = a /\ g.on /\ g.lock = l /\ g.val = f.val
      /\ g.queued = f.queued /\ g.pi_owned = f.pi_owned
  BY <1>2, <1>3, Zenon DEF Frames
<1>5. /\ r \in FutexRecs /\ r.refcount \in Int /\ Distinct(r.pi_queue)
      /\ futex' = [futex EXCEPT ![l] = r]
      /\ OnList(r.pi_queue, t) <=> f.queued /\ ~f.pi_owned
  BY <1>1, <1>2, FutexFacts
<1> HIDE DEF g
<1>6. r.refcount = futex[l].refcount + One(g.on) - One(frame[t].on)
  BY <1>2, <1>4, <1>5 DEF One
<1>7. pi_waiting' = pi_waiting + One(g.on /\ g.queued)
                               - One(frame[t].on /\ frame[t].queued)
  BY <1>1, <1>2, <1>4 DEF Core, TypeOK, One
<1>8. \A u \in Thread : OnList(r.pi_queue, u) <=>
          IF u = t THEN g.on /\ g.queued /\ ~g.pi_owned ELSE OnList(futex[l].pi_queue, u)
  BY <1>2, <1>4, <1>5, Zenon
<1>9. word' \in [Lock -> Words] /\ holds' \in [Thread -> SUBSET Lock]
  BY <1>1, Zenon DEF Core, TypeOK
<1>10. ~g.alive => Exiting(g.val.tid)
  BY <1>3, <1>4, Zenon
<1>11. g.val.tid \in Thread
  BY <1>2, <1>4, Zenon
<1>12. Core'
  <2>1. FutexFollows(t, l, g, "relock", r)
    BY <1>0, <1>1, <1>2, <1>4, <1>5, <1>6, <1>7, <1>8, <1>10, <1>11, Zenon DEF FutexFollows
  <2> QED BY <1>1, <1>2, <1>9, <2>1, FrameStep, Zenon
<1>13. ASSUME NEW k \in Lock, NEW u \in Thread, Claims(k, u)' PROVE Claims(k, u)
  <2>1. /\ pc'[u] = IF u = t THEN "relock" ELSE pc[u]
        /\ frame'[u] = IF u = t THEN g ELSE frame[u]
        /\ holds'[u] = holds[u]
    BY <1>1, Zenon DEF Core, TypeOK
  <2> QED BY <1>0, <1>1, <1>2, <1>4, <1>13, <2>1 DEF Claims, Holders, Exiting
<1> QED BY <1>1, <1>12, <1>13 DEF WordNamesOwner, Claims

(* Queueing behind a live owner, and the timeout on the spot.               *)
LEMMA SleepBehindStep ==
    ASSUME IInv, NEW t \in Thread, pc[t] = "relock", ~frame[t].pi_owned, frame[t].alive,
           SleepBehind(t, frame[t], futex[frame[t].lock]),
           UNCHANGED <<word, sig, todo, seen>>
    PROVE  IInv'
<1> USE DEF IInv
<1>0. pc[t] \in InLockPI
  BY Zenon DEF InLockPI
<1> PICK f \in Frames : f = frame[t]
  BY <1>0, FrameFacts, Zenon
<1> PICK fx \in FutexRecs : fx = futex[f.lock]
  BY <1>0, FrameFacts, FutexFacts, Zenon
<1> DEFINE l == f.lock
           g == [f EXCEPT !.queued = TRUE]
           gx == [fx EXCEPT !.pi_owner = f.val.tid,
                            !.pi_queue = IF f.queued THEN @ ELSE ListAddTail(@, t)]
<1>1. f.on /\ f.val.tid \in Thread /\ l \in Lock /\ f.queued \in BOOLEAN
  BY <1>0, FrameFacts, Zenon
<1>2. /\ g \in Frames /\ g.on /\ g.lock = l /\ g.val = f.val /\ g.queued
      /\ g.pi_owned = f.pi_owned /\ g.alive = f.alive
  BY <1>1, Zenon DEF Frames
<1>3. fx.pi_queue \in Seq(Thread) /\ Distinct(fx.pi_queue) /\ fx.refcount \in Int
  BY <1>1, FutexFacts, Zenon
<1>4. OnList(fx.pi_queue, t) <=> f.queued
  BY <1>1, FutexFacts, Zenon
<1>5. /\ gx \in FutexRecs /\ gx.refcount = fx.refcount /\ Distinct(gx.pi_queue)
      /\ \A u \in Thread : OnList(gx.pi_queue, u) <=> OnList(fx.pi_queue, u) \/ u = t
  <2> DEFINE q == IF f.queued THEN fx.pi_queue ELSE ListAddTail(fx.pi_queue, t)
  <2>1. /\ q \in Seq(Thread) /\ Distinct(q)
        /\ \A u \in Thread : OnList(q, u) <=> OnList(fx.pi_queue, u) \/ u = t
    BY <1>3, <1>4, AddTailEntries
  <2>2. gx = [refcount |-> fx.refcount, pi_queue |-> q, pi_owner |-> f.val.tid]
    <3>1. gx = [fx EXCEPT !.pi_owner = f.val.tid, !.pi_queue = q]
      BY Zenon
    <3> HIDE DEF q, gx
    <3> QED BY <3>1, Zenon DEF FutexRecs
  <2> HIDE DEF q, gx
  <2>3. gx \in FutexRecs /\ gx.refcount = fx.refcount /\ gx.pi_queue = q
    BY <1>1, <1>3, <2>1, <2>2, Zenon DEF FutexRecs, Tid
  <2> QED BY <2>1, <2>3, Zenon
<1>6. SleepBehind(t, f, fx) <=>
    \/ /\ futex' = [futex EXCEPT ![l] = gx]
       /\ frame' = [frame EXCEPT ![t] = g]
       /\ pi_waiting' = CountQueued(f)
       /\ pc' = [pc EXCEPT ![t] = "sleep"]
       /\ UNCHANGED holds
    \/ /\ f.timed
       /\ futex' = [futex EXCEPT ![l] = LeaveFutex(gx, g, t)]
       /\ pi_waiting' = IF f.queued THEN pi_waiting - 1 ELSE pi_waiting
       /\ pc' = [pc EXCEPT ![t] = "run"]
       /\ frame' = [frame EXCEPT ![t] = NoFrame]
       /\ UNCHANGED holds
  BY Zenon DEF SleepBehind
<1> HIDE DEF g, gx
<1>7. /\ word' \in [Lock -> Words] /\ pi_waiting \in Int
      /\ UNCHANGED holds => holds' \in [Thread -> SUBSET Lock]
      /\ "sleep" \in InLockPI /\ "run" \notin InLockPI
  BY DEF Core, TypeOK, InLockPI
<1>8. CASE /\ futex' = [futex EXCEPT ![l] = gx]
           /\ frame' = [frame EXCEPT ![t] = g]
           /\ pi_waiting' = CountQueued(f)
           /\ pc' = [pc EXCEPT ![t] = "sleep"]
           /\ UNCHANGED holds
  <2>1. gx.refcount = fx.refcount + One(g.on) - One(f.on)
    BY <1>1, <1>2, <1>3, <1>5 DEF One
  <2>2. pi_waiting' = pi_waiting + One(g.on /\ g.queued) - One(f.on /\ f.queued)
    BY <1>1, <1>2, <1>7, <1>8 DEF One, CountQueued
  <2>3. \A u \in Thread : OnList(gx.pi_queue, u) <=>
            IF u = t THEN g.on /\ g.queued /\ ~g.pi_owned ELSE OnList(fx.pi_queue, u)
    BY <1>2, <1>5, Zenon
  <2>4. Core'
    <3>1. FutexFollows(t, l, g, "sleep", gx)
      BY <1>0, <1>1, <1>2, <1>5, <1>7, <1>8, <2>1, <2>2, <2>3, Zenon DEF FutexFollows
    <3> QED BY <1>1, <1>7, <1>8, <3>1, FrameStep
  <2>5. ASSUME NEW k \in Lock, NEW u \in Thread, Claims(k, u)' PROVE Claims(k, u)
    <3>1. /\ pc'[u] = IF u = t THEN "sleep" ELSE pc[u]
          /\ frame'[u] = IF u = t THEN g ELSE frame[u]
          /\ holds'[u] = holds[u]
      BY <1>8 DEF Core, TypeOK
    <3> QED BY <1>2, <2>5, <3>1 DEF Claims, Holders, Exiting
  <2> QED BY <2>4, <2>5, Zenon DEF WordNamesOwner, Claims
<1>9. CASE /\ f.timed
           /\ futex' = [futex EXCEPT ![l] = LeaveFutex(gx, g, t)]
           /\ pi_waiting' = IF f.queued THEN pi_waiting - 1 ELSE pi_waiting
           /\ pc' = [pc EXCEPT ![t] = "run"]
           /\ frame' = [frame EXCEPT ![t] = NoFrame]
           /\ UNCHANGED holds
  <2> DEFINE r == LeaveFutex(gx, g, t)
  <2>1. /\ r \in FutexRecs /\ r.refcount = gx.refcount - 1 /\ Distinct(r.pi_queue)
        /\ \A u \in Thread : OnList(r.pi_queue, u) <=> OnList(gx.pi_queue, u) /\ u # t
    BY <1>2, <1>5, LeaveFutexEffect
  <2>2. ~NoFrame.on /\ NoFrame \in Frames \cup {NoFrame}
    BY Zenon DEF NoFrame
  <2> HIDE DEF r
  <2>3. r.refcount = fx.refcount + One(NoFrame.on) - One(f.on)
    BY <1>1, <1>3, <1>5, <2>1, <2>2 DEF One
  <2>4. pi_waiting' = pi_waiting + One(NoFrame.on /\ NoFrame.queued) - One(f.on /\ f.queued)
    BY <1>1, <1>7, <1>9, <2>2 DEF One
  <2>5. \A u \in Thread : OnList(r.pi_queue, u) <=>
            IF u = t THEN NoFrame.on /\ NoFrame.queued /\ ~NoFrame.pi_owned
            ELSE OnList(fx.pi_queue, u)
    BY <1>5, <2>1, <2>2, Zenon
  <2>6. futex' = [futex EXCEPT ![l] = r]
    BY <1>9, Zenon DEF r
  <2>7. Core'
    <3>1. FutexFollows(t, l, NoFrame, "run", r)
      BY <1>0, <1>1, <1>7, <1>9, <2>1, <2>2, <2>3, <2>4, <2>5, <2>6, Zenon DEF FutexFollows
    <3> QED BY <1>1, <1>7, <1>9, <3>1, FrameStep, Zenon
  <2>8. ASSUME NEW k \in Lock, NEW u \in Thread, Claims(k, u)' PROVE Claims(k, u)
    <3>1. /\ pc'[u] = IF u = t THEN "run" ELSE pc[u]
          /\ frame'[u] = IF u = t THEN NoFrame ELSE frame[u]
          /\ holds'[u] = holds[u]
      BY <1>9, Zenon DEF Core, TypeOK
    <3> QED BY <2>2, <2>8, <3>1 DEF Claims, Holders, Exiting
  <2> QED BY <2>7, <2>8 DEF WordNamesOwner, Claims
<1> QED BY <1>6, <1>8, <1>9

(* A thread in the kernel is Entered with the frame and futex it has.       *)
LEMMA InKernel ==
    ASSUME Core, NEW t \in Thread, pc[t] \in InLockPI
    PROVE  Entered(t, frame[t], futex[frame[t].lock])
BY Zenon DEF Entered

(* A wait that leaves without the lock and without touching the word.       *)
LEMMA GiveUpStep ==
    ASSUME IInv, NEW t \in Thread, pc[t] \in InLockPI,
           LeaveLockPI(t, frame[t], futex[frame[t].lock], FALSE),
           UNCHANGED <<word, sig, todo, seen>>
    PROVE  IInv'
<1> USE DEF IInv
<1> PICK f \in Frames : f = frame[t]
  BY FrameFacts, Zenon
<1> PICK fx : fx = futex[f.lock]
  OBVIOUS
<1>1. Entered(t, f, fx) /\ LeaveLockPI(t, f, fx, FALSE) /\ f.lock \in Lock
  BY InKernel, FrameFacts, Zenon
<1>2. word' \in [Lock -> Words]
  BY Zenon DEF Core, TypeOK
<1>3. Core'
  BY <1>1, <1>2, LeaveCore, Zenon
<1>4. \A u \in Thread : f.lock \notin Robust /\ Claims(f.lock, u) => word'[f.lock].tid = u
  BY <1>1, Zenon DEF WordNamesOwner, Claims
<1>5. WordNamesOwner'
  BY <1>1, <1>4, LeaveOwner, Zenon
<1> QED BY <1>3, <1>5, Zenon

(* Back under futex_lock with the answer on the owner.                      *)
LEMMA RelockStep ==
    ASSUME IInv, NEW t \in Thread, Relock(t)
    PROVE  IInv'
<1>1. pc[t] = "relock" /\ pc[t] \in InLockPI /\ UNCHANGED <<sig, todo, seen>>
  BY Zenon DEF Relock, InLockPI
<1> PICK f \in Frames : f = frame[t]
  BY <1>1, FrameFacts, Zenon DEF IInv
<1> PICK fx : fx = futex[f.lock]
  BY Zenon
<1>2. /\ Entered(t, f, fx) /\ f.lock \in Lock /\ f.val.tid \in Thread
      /\ f.alive \in BOOLEAN /\ f.pi_owned \in BOOLEAN
  BY <1>1, InKernel, FrameFacts, Zenon DEF IInv
<1>3. CASE Attempt(t, f, fx)
  BY <1>1, <1>2, <1>3, AttemptStep
<1>4. CASE LeaveLockPI(t, f, fx, FALSE) /\ UNCHANGED word
  BY <1>1, <1>4, GiveUpStep, Zenon
<1>5. CASE /\ ~f.alive /\ SameOwner(f)
           /\ word' = [word EXCEPT ![f.lock] = [tid |-> t, waiters |-> TRUE, died |-> TRUE]]
           /\ LeaveLockPI(t, f, fx, TRUE)
  <2>1. /\ word' \in [Lock -> Words] /\ word'[f.lock].tid = t
        /\ \A k \in Lock : k # f.lock => word'[k] = word[k]
    BY <1>2, <1>5, Zenon DEF IInv, Core, TypeOK, Words, Tid
  <2>2. Core'
    BY <1>1, <1>2, <1>5, <2>1, LeaveCore, Zenon DEF IInv
  <2>3. Exiting(word[f.lock].tid)
    BY <1>1, <1>5 DEF IInv, Core, FramesOK, SameOwner
  <2>4. \A u \in Thread : f.lock \notin Robust => ~Claims(f.lock, u)
    BY <1>2, <2>3, NobodyClaims
  <2>5. WordNamesOwner'
    BY <1>2, <1>5, <2>1, <2>4, LeaveOwner, Zenon DEF IInv
  <2> QED BY <2>2, <2>5 DEF IInv
<1>6. CASE ~f.pi_owned /\ f.alive /\ SleepBehind(t, f, fx) /\ UNCHANGED word
  BY <1>1, <1>6, SleepBehindStep, Zenon
<1> QED BY <1>3, <1>4, <1>5, <1>6, Zenon DEF Relock

(* Back from wait_for.                                                      *)
LEMMA WaitForReturnsStep ==
    ASSUME IInv, NEW t \in Thread, WaitForReturns(t)
    PROVE  IInv'
<1>1. pc[t] \in InLockPI /\ UNCHANGED <<sig, todo, seen>>
  BY Zenon DEF WaitForReturns, InLockPI
<1> PICK f \in Frames : f = frame[t]
  BY <1>1, FrameFacts DEF IInv
<1> PICK fx : fx = futex[f.lock]
  OBVIOUS
<1>2. Entered(t, f, fx)
  BY <1>1, InKernel, Zenon DEF IInv
<1>3. CASE Attempt(t, f, fx)
  BY <1>1, <1>2, <1>3, AttemptStep
<1>4. CASE LeaveLockPI(t, f, fx, FALSE) /\ UNCHANGED word
  BY <1>1, <1>4, GiveUpStep, Zenon
<1> QED BY <1>3, <1>4, Zenon DEF WaitForReturns

(* The owner's unlock, with the hand-over to the first waiter.              *)
LEMMA FutexUnlockPIStep ==
    ASSUME IInv, NEW t \in Thread, FutexUnlockPI(t)
    PROVE  IInv'
<1> USE DEF IInv
<1>1. PICK l \in Lock :
        LET q == futex[l].pi_queue IN
        /\ pc[t] = "run" /\ word[l].tid = t
        /\ holds' = [holds EXCEPT ![t] = @ \ {l}]
        /\ word' = [word EXCEPT ![l] = UnlockedWord(q)]
        /\ IF q = <<>> THEN UNCHANGED <<futex, frame>>
           ELSE /\ futex' = [futex EXCEPT ![l].pi_queue = Tail(q), ![l].pi_owner = Head(q)]
                /\ frame' = [frame EXCEPT ![Head(q)].pi_owned = TRUE]
        /\ UNCHANGED <<pi_waiting, pc, sig, todo, seen>>
  BY Zenon DEF FutexUnlockPI
<1> DEFINE q == futex[l].pi_queue
<1>2. ~frame[t].on
  BY <1>1, Zenon DEF Core, FramesOK, InLockPI
<1>3. \A u \in Thread : l \notin Robust /\ Claims(l, u) => u = t
  BY <1>1, Zenon DEF WordNamesOwner, Claims
<1>4. holds' \in [Thread -> SUBSET Lock]
  BY <1>1 DEF Core, TypeOK
<1>5. \A u \in Thread : holds'[u] = IF u = t THEN holds[t] \ {l} ELSE holds[u]
  BY <1>1 DEF Core, TypeOK
<1>6. CASE q = <<>>
  <2>1. /\ word' = [word EXCEPT ![l] = Free] /\ Free \in Words
        /\ UNCHANGED <<futex, frame, pi_waiting, pc, sig, todo, seen>>
    BY <1>1, <1>6, Zenon DEF UnlockedWord, Free, Words, Tid
  <2>2. Core'
    <3>1. TypeOK'
      BY <1>4, <2>1, Zenon DEF Core, TypeOK
    <3> QED BY <2>1, <3>1, SameFrames DEF Core, FramesOK, SeenOK, Exiting
  <2>3. ASSUME NEW k \in Lock \ Robust, NEW u \in Thread, Claims(k, u)'
        PROVE  word'[k].tid = u
    <3>1. Claims(k, u) /\ ~(k = l /\ u = t)
      BY <1>2, <1>5, <2>1, <2>3 DEF Claims, Holders, Exiting
    <3>2. k # l
      BY <1>3, <3>1
    <3> QED BY <2>1, <3>1, <3>2 DEF WordNamesOwner, Claims, Core, TypeOK
  <2> QED BY <2>2, <2>3 DEF WordNamesOwner, Claims
<1>7. CASE q # <<>>
  <2> PICK h : h = Head(q)
    BY Zenon
  <2> PICK g : g = [frame[h] EXCEPT !.pi_owned = TRUE]
    BY Zenon
  <2> PICK r : r = [futex[l] EXCEPT !.pi_queue = Tail(q), !.pi_owner = h]
    BY Zenon
  <2>1. /\ h \in Thread /\ OnList(q, h) /\ Tail(q) \in Seq(Thread) /\ Distinct(Tail(q))
        /\ \A y : OnList(Tail(q), y) <=> OnList(q, y) /\ y # h
    <3>1. q \in Seq(Thread) /\ Distinct(q)
      BY FutexFacts, Zenon
    <3> HIDE DEF q
    <3> QED BY <1>7, <3>1, TailEntries
  <2>2. /\ frame[h].on /\ frame[h].lock = l /\ frame[h].queued /\ ~frame[h].pi_owned
        /\ pc[h] \in InLockPI /\ h # t
    BY <1>2, <2>1, FutexFacts DEF Core, FramesOK
  <2>3. /\ frame[h] \in Frames /\ frame[h].val.tid \in Thread
    BY <2>1, <2>2, FrameFacts
  <2>4. /\ g \in Frames /\ g.on /\ g.lock = l /\ g.queued /\ g.pi_owned
        /\ g.val = frame[h].val /\ g.alive = frame[h].alive
    BY <2>2, <2>3, Zenon DEF Frames
  <2>5. /\ r \in FutexRecs /\ r.refcount = futex[l].refcount /\ r.pi_queue = Tail(q)
    <3>1. futex[l] \in FutexRecs
      BY FutexFacts, Zenon
    <3>2. r = [refcount |-> futex[l].refcount, pi_queue |-> Tail(q), pi_owner |-> h]
      BY <3>1, Zenon DEF FutexRecs
    <3> QED BY <2>1, <3>1, <3>2, Zenon DEF FutexRecs, Tid
  <2>6. /\ word' = [word EXCEPT ![l] = [tid |-> h, waiters |-> TRUE, died |-> FALSE]]
        /\ futex' = [futex EXCEPT ![l] = r]
        /\ frame' = [frame EXCEPT ![h] = g]
        /\ UNCHANGED <<pi_waiting, pc, sig, todo, seen>>
    BY <1>1, <1>7, Zenon DEF UnlockedWord
  <2>7. FutexFollows(h, l, g, pc[h], r)
    <3>1. pc' = [pc EXCEPT ![h] = pc[h]]
      BY <2>1, <2>6 DEF Core, TypeOK
    <3>2. pc[h] = "relock" /\ ~g.alive => Exiting(g.val.tid)
      BY <2>1, <2>4 DEF Core, FramesOK
    <3>3. r.refcount = futex[l].refcount + One(g.on) - One(frame[h].on)
      BY <2>2, <2>4, <2>5, FutexFacts DEF One
    <3>4. pi_waiting' = pi_waiting + One(g.on /\ g.queued)
                                   - One(frame[h].on /\ frame[h].queued)
      BY <2>2, <2>4, <2>6 DEF One, Core, TypeOK
    <3>5. \A u \in Thread : OnList(r.pi_queue, u) <=>
             IF u = h THEN g.on /\ g.queued /\ ~g.pi_owned ELSE OnList(futex[l].pi_queue, u)
      BY <2>1, <2>4, <2>5
    <3> QED BY <2>1, <2>2, <2>3, <2>4, <2>5, <2>6, <3>1, <3>2, <3>3, <3>4, <3>5, Zenon DEF FutexFollows
  <2>8. /\ word' \in [Lock -> Words] /\ word'[l].tid = h
        /\ \A k \in Lock : k # l => word'[k] = word[k]
    BY <2>1, <2>6 DEF Core, TypeOK, Words, Tid
  <2>9. Core'
    BY <1>4, <2>1, <2>6, <2>7, <2>8, FrameStep, Zenon
  <2>10. ASSUME NEW k \in Lock \ Robust, NEW u \in Thread, Claims(k, u)'
         PROVE  word'[k].tid = u
    <3>1. frame'[u] = IF u = h THEN g ELSE frame[u]
      BY <2>1, <2>6 DEF Core, TypeOK
    <3>2. (u = h /\ k = l) \/ (Claims(k, u) /\ ~(k = l /\ u = t))
      <4>1. \/ u \in Holders(k) /\ ~(k = l /\ u = t)
            \/ frame'[u].on /\ frame'[u].lock = k /\ frame'[u].pi_owned
        BY <1>5, <2>6, <2>10 DEF Claims, Holders, Exiting
      <4>2. CASE u \in Holders(k) /\ ~(k = l /\ u = t)
        BY <4>2, Zenon DEF Claims
      <4>3. CASE frame'[u].on /\ frame'[u].lock = k /\ frame'[u].pi_owned
        <5>1. CASE u = h
          BY <2>4, <3>1, <4>3, <5>1
        <5>2. CASE u # h
          BY <1>2, <3>1, <4>3, <5>2 DEF Claims
        <5> QED BY <5>1, <5>2, Zenon
      <4> QED BY <4>1, <4>2, <4>3
    <3>3. CASE u = h /\ k = l
      BY <2>8, <3>3
    <3>4. CASE Claims(k, u) /\ ~(k = l /\ u = t)
      <4>1. k # l
        BY <1>3, <3>4, Zenon
      <4> QED BY <2>8, <3>4, <4>1 DEF WordNamesOwner, Claims
    <3> QED BY <3>2, <3>3, <3>4
  <2> QED BY <2>9, <2>10 DEF WordNamesOwner, Claims
<1> QED BY <1>6, <1>7

(* A signal comes, or its handler runs.                                     *)
LEMMA SignalStep ==
    ASSUME IInv, NEW t \in Thread, Signal(t) \/ Handler(t)
    PROVE  IInv'
<1> USE DEF IInv
<1>1. /\ UNCHANGED <<word, futex, pi_waiting, pc, frame, todo, seen, holds>>
      /\ sig' \in [Thread -> BOOLEAN]
  BY Zenon DEF Signal, Handler, Core, TypeOK
<1>2. TypeOK'
  BY <1>1, Zenon DEF Core, TypeOK
<1>3. FramesOK' /\ SeenOK'
  BY <1>1, Zenon DEF Core, FramesOK, SeenOK, Exiting
<1>4. QueuesMatchFrames'
  BY <1>1, SameFrames DEF Core
<1>5. WordNamesOwner'
  BY <1>1, Zenon DEF WordNamesOwner, Holders, Exiting
<1> QED BY <1>2, <1>3, <1>4, <1>5 DEF Core

(* A thread begins to exit, or is done with it.                             *)
LEMMA ExitStep ==
    ASSUME IInv, NEW t \in Thread, Exit(t) \/ ExitPI(t)
    PROVE  IInv'
<1> USE DEF IInv
<1> PICK p \in {"robust_get", "dead"} :
       /\ pc[t] \in {"run", "robust_get"}
       /\ pc' = [pc EXCEPT ![t] = p]
       /\ todo' \in [Thread -> SUBSET Robust] /\ sig' \in [Thread -> BOOLEAN]
       /\ UNCHANGED <<word, futex, pi_waiting, frame, seen, holds>>
  <2>1. CASE Exit(t)
    <3>1. todo' \in [Thread -> SUBSET Robust] /\ sig' \in [Thread -> BOOLEAN]
      BY <2>1, Zenon DEF Exit, Core, TypeOK
    <3> QED BY <2>1, <3>1 DEF Exit
  <2>2. CASE ExitPI(t)
    <3>1. todo' \in [Thread -> SUBSET Robust] /\ sig' \in [Thread -> BOOLEAN]
      BY <2>2, Zenon DEF ExitPI, Core, TypeOK
    <3> QED BY <2>2, <3>1, Zenon DEF ExitPI
  <2> QED BY <2>1, <2>2, Zenon
<1>1. \A u \in Thread : pc'[u] = IF u = t THEN p ELSE pc[u]
  BY Zenon DEF Core, TypeOK
<1>2. \A u \in Thread : Exiting(u) => Exiting(u)'
  BY <1>1, Zenon DEF Exiting
<1>3. TypeOK'
  BY Zenon DEF Core, TypeOK
<1>4. FramesOK'
  <2>1. \A u \in Thread : pc'[u] \in InLockPI <=> pc[u] \in InLockPI
    BY <1>1 DEF InLockPI
  <2>2. \A u \in Thread : pc'[u] = "relock" <=> pc[u] = "relock"
    BY <1>1
  <2>3. \A u \in Thread : pc[u] = "relock" => frame[u].val.tid \in Thread
    BY Zenon DEF Core, FramesOK, InLockPI
  <2> QED BY <1>2, <2>1, <2>2, <2>3 DEF Core, FramesOK
<1>5. SeenOK'
  BY <1>1, Zenon DEF Core, SeenOK
<1>6. QueuesMatchFrames'
  BY SameFrames, Zenon DEF Core
<1>7. WordNamesOwner'
  BY <1>2, Zenon DEF WordNamesOwner, Holders
<1> QED BY <1>3, <1>4, <1>5, <1>6, <1>7 DEF Core

(* The two accesses of robust_handle_death.                                 *)
LEMMA RobustStep ==
    ASSUME IInv, NEW t \in Thread, RobustGet(t) \/ RobustPut(t)
    PROVE  IInv'
<1> USE DEF IInv
<1>1. PICK p \in {"robust_get", "robust_put"} :
       /\ pc[t] \in {"robust_get", "robust_put"}
       /\ pc' = [pc EXCEPT ![t] = p]
       /\ p = "robust_put" => seen'[t].on
       /\ \A u \in Thread : u # t => seen'[u] = seen[u]
       /\ todo' \in [Thread -> SUBSET Robust]
       /\ seen' \in [Thread -> {NoEntry} \cup Entries]
       /\ word' \in [Lock -> Words]
       /\ \A k \in Lock \ Robust : word'[k] = word[k]
       /\ UNCHANGED <<futex, pi_waiting, frame, sig, holds>>
  <2>1. CASE RobustGet(t)
    <3>1. PICK l \in todo[t] :
        /\ pc[t] = "robust_get"
        /\ todo' = [todo EXCEPT ![t] = @ \ {l}]
        /\ IF word[l].tid = t
           THEN /\ seen' = [seen EXCEPT ![t] = [on |-> TRUE, lock |-> l, waiters |-> word[l].waiters]]
                /\ pc' = [pc EXCEPT ![t] = "robust_put"]
           ELSE UNCHANGED <<seen, pc>>
        /\ UNCHANGED <<word, futex, pi_waiting, frame, sig, holds>>
      BY <2>1, Zenon DEF RobustGet
    <3>2. l \in Robust /\ l \in Lock /\ word[l].waiters \in BOOLEAN
      BY FutexPIConstants, Zenon DEF Core, TypeOK, Words
    <3>3. /\ todo' \in [Thread -> SUBSET Robust] /\ word' \in [Lock -> Words]
          /\ \A k \in Lock \ Robust : word'[k] = word[k]
      BY <3>1 DEF Core, TypeOK
    <3>4. CASE word[l].tid = t
      <4> PICK e \in Entries : e = [on |-> TRUE, lock |-> l, waiters |-> word[l].waiters]
        BY <3>2, Zenon DEF Entries
      <4>1. e.on
        OBVIOUS
      <4>2. /\ seen' \in [Thread -> {NoEntry} \cup Entries]
            /\ seen'[t].on /\ \A u \in Thread : u # t => seen'[u] = seen[u]
        BY <3>1, <3>4, <4>1, Zenon DEF Core, TypeOK
      <4> QED BY <3>1, <3>3, <3>4, <4>2
    <3>5. CASE word[l].tid # t
      <4>1. /\ seen' \in [Thread -> {NoEntry} \cup Entries]
            /\ pc' = [pc EXCEPT ![t] = "robust_get"] /\ seen' = seen
        BY <3>1, <3>5, Zenon DEF Core, TypeOK
      <4> QED BY <3>1, <3>3, <4>1, Zenon
    <3> QED BY <3>4, <3>5, Zenon
  <2>2. CASE RobustPut(t)
    <3>1. /\ pc[t] = "robust_put"
          /\ word' = [word EXCEPT ![seen[t].lock] =
                        [tid |-> NoThread, waiters |-> seen[t].waiters, died |-> TRUE]]
          /\ seen' = [seen EXCEPT ![t] = NoEntry]
          /\ pc' = [pc EXCEPT ![t] = "robust_get"]
          /\ UNCHANGED <<futex, pi_waiting, frame, sig, todo, holds>>
      BY <2>2, Zenon DEF RobustPut
    <3>2. seen[t].lock \in Robust /\ seen[t].waiters \in BOOLEAN
      <4>1. seen[t].on /\ seen[t] \in {NoEntry} \cup Entries
        BY <3>1 DEF Core, TypeOK, SeenOK
      <4>2. seen[t] \in Entries
        BY <4>1 DEF NoEntry
      <4> QED BY <4>2, Zenon DEF Entries
    <3>3. /\ word' \in [Lock -> Words]
          /\ \A k \in Lock \ Robust : word'[k] = word[k]
      BY <3>1, <3>2, Zenon DEF Core, TypeOK, Words, Tid
    <3>4. /\ seen' \in [Thread -> {NoEntry} \cup Entries]
          /\ \A u \in Thread : u # t => seen'[u] = seen[u]
          /\ todo' \in [Thread -> SUBSET Robust]
      BY <3>1, Zenon DEF Core, TypeOK
    <3> QED BY <3>1, <3>3, <3>4, Zenon
  <2> QED BY <2>1, <2>2, Zenon
<1>2. \A u \in Thread : pc'[u] = IF u = t THEN p ELSE pc[u]
  BY <1>1, Zenon DEF Core, TypeOK
<1>3. \A u \in Thread : Exiting(u)' <=> Exiting(u)
  BY <1>1, <1>2 DEF Exiting
<1>4. TypeOK'
  BY <1>1, Zenon DEF Core, TypeOK
<1>5. FramesOK'
  <2>1. \A u \in Thread : pc'[u] \in InLockPI <=> pc[u] \in InLockPI
    BY <1>1, <1>2 DEF InLockPI
  <2>2. \A u \in Thread : pc'[u] = "relock" <=> pc[u] = "relock"
    BY <1>1, <1>2
  <2>3. \A u \in Thread : pc[u] = "relock" => frame[u].val.tid \in Thread
    BY Zenon DEF Core, FramesOK, InLockPI
  <2> QED BY <1>1, <1>3, <2>1, <2>2, <2>3 DEF Core, FramesOK
<1>6. SeenOK'
  BY <1>1, <1>2 DEF Core, SeenOK
<1>7. QueuesMatchFrames'
  BY <1>1, SameFrames, Zenon DEF Core
<1>8. WordNamesOwner'
  BY <1>1, <1>3 DEF WordNamesOwner, Holders
<1> QED BY <1>4, <1>5, <1>6, <1>7, <1>8 DEF Core

----------------------------------------------------------------------------
(* The initial state satisfies the invariant.                               *)
LEMMA InitIInv == Init => IInv
<1> SUFFICES ASSUME Init PROVE IInv
  BY Zenon
<1> USE DEF Init
<1>1. /\ \A t \in Thread : /\ frame[t] = NoFrame /\ pc[t] = "run" /\ holds[t] = {}
      /\ \A l \in Lock : futex[l] = NoObject
  BY Zenon
<1>2. ~NoFrame.on /\ NoObject.refcount = 0 /\ NoObject.pi_queue = <<>>
  BY Zenon DEF NoFrame, NoObject
<1>3. TypeOK
  <2>1. Free \in Words /\ NoObject \in [refcount : Nat, pi_queue : Seq(Thread), pi_owner : Tid]
    BY DEF Free, Words, Tid, NoObject
  <2> QED BY <2>1 DEF TypeOK
<1>4. FramesOK /\ SeenOK
  BY <1>1, <1>2, Zenon DEF FramesOK, SeenOK, InLockPI
<1>5. QueuesMatchFrames
  <2>1. \A l \in Lock : {t \in Thread : frame[t].on /\ frame[t].lock = l} = {}
    BY <1>1, <1>2, Zenon
  <2>2. {t \in Thread : frame[t].on /\ frame[t].queued} = {}
    BY <1>1, <1>2, Zenon
  <2>3. Cardinality({}) = 0
    BY FS_EmptySet, Zenon
  <2>4. \A l \in Lock : /\ Distinct(futex[l].pi_queue)
                        /\ \A t \in Thread : ~OnList(futex[l].pi_queue, t)
    BY <1>1, <1>2 DEF Distinct, OnList
  <2> QED BY <1>1, <1>2, <2>1, <2>2, <2>3, <2>4, Zenon DEF QueuesMatchFrames
<1>6. WordNamesOwner
  BY <1>1, <1>2, Zenon DEF WordNamesOwner, Holders
<1> QED BY <1>3, <1>4, <1>5, <1>6 DEF IInv, Core

(* Every step keeps it.                                                     *)
LEMMA NextIInv == IInv /\ [Next]_vars => IInv'
<1> SUFFICES ASSUME IInv, [Next]_vars PROVE IInv'
  BY Zenon
<1>1. CASE UNCHANGED vars
  <2>1. UNCHANGED <<word, futex, pi_waiting, pc, frame, sig, todo, seen, holds>>
    BY <1>1, Zenon DEF vars
  <2>2. TypeOK' /\ FramesOK' /\ SeenOK' /\ WordNamesOwner'
    BY <2>1, Zenon DEF IInv, Core, TypeOK, FramesOK, SeenOK, WordNamesOwner, Holders, Exiting
  <2>3. QueuesMatchFrames'
    BY <2>1, SameFrames, Zenon DEF IInv, Core
  <2> QED BY <2>2, <2>3, Zenon DEF IInv, Core
<1>2. ASSUME NEW t \in Thread, ThreadStep(t) PROVE IInv'
  BY <1>2, GuestLockStep, GuestUnlockStep, FutexLockPIStep, CheckOwnerStep, RelockStep,
     WaitForReturnsStep, FutexUnlockPIStep, SignalStep, ExitStep, RobustStep DEF ThreadStep
<1> QED BY <1>1, <1>2, Zenon DEF Next, AllDead

(* The invariant holds throughout. *)
LEMMA SpecIInv == Spec => []IInv
BY InitIInv, NextIInv, PTL DEF Spec

(* Every variable of FutexPI keeps its type: no count goes below zero.      *)
THEOREM PITypeCorrect == Spec => []TypeOK
<1>1. IInv => TypeOK
  BY Zenon DEF IInv, Core
<1> QED BY <1>1, SpecIInv, PTL

(* pi_queue, the reference counts and futex_pi_waiting always agree with    *)
(* the calls that are in futex_lock_pi.                                     *)
THEOREM PIQueues == Spec => []QueuesMatchFrames
<1>1. IInv => QueuesMatchFrames
  BY Zenon DEF IInv, Core
<1> QED BY <1>1, SpecIInv, PTL

(* The word of a lock on no robust list names its owner.                    *)
THEOREM PIWordNamesOwner == Spec => []WordNamesOwner
<1>1. IInv => WordNamesOwner
  BY Zenon DEF IInv
<1> QED BY <1>1, SpecIInv, PTL

(* PI locks on no robust list exclude: no two running threads have been     *)
(* told they own the same one, however many threads and locks there are.    *)
THEOREM PIMutualExclusion == Spec => []MutualExclusion
<1>1. IInv => MutualExclusion
  BY Zenon DEF IInv, WordNamesOwner, MutualExclusion, Holders
<1> QED BY <1>1, SpecIInv, PTL

(* A wait made the owner by an unlock does not end without the lock.        *)
THEOREM PIHandOverKept == Spec => HandOverKept
<1> DEFINE Kept == \A t \in Thread : frame[t].on /\ frame[t].pi_owned /\ ~frame'[t].on
                                     => frame[t].lock \in holds'[t]
<1>1. IInv /\ [Next]_vars => [Kept]_vars
  <2> SUFFICES ASSUME IInv, Next, NEW u \in Thread,
                      frame[u].on, frame[u].pi_owned, ~frame'[u].on
               PROVE  frame[u].lock \in holds'[u]
    BY Zenon
  <2>1. frame \in [Thread -> Frames \cup {NoFrame}] /\ holds \in [Thread -> SUBSET Lock]
    BY Zenon DEF IInv, Core, TypeOK
  <2>2. PICK t \in Thread : ThreadStep(t)
    BY Zenon DEF Next, AllDead, vars
  <2>3. CASE UNCHANGED frame
    BY <2>3, Zenon
  <2>4. CASE FutexUnlockPI(t)
    <3>1. PICK l \in Lock : \/ UNCHANGED frame
                            \/ frame' = [frame EXCEPT ![Head(futex[l].pi_queue)].pi_owned = TRUE]
      BY <2>4, Zenon DEF FutexUnlockPI
    <3>2. CASE UNCHANGED frame
      BY <3>2, Zenon
    <3>3. CASE frame' = [frame EXCEPT ![Head(futex[l].pi_queue)].pi_owned = TRUE]
      <4>1. frame[u] \in Frames
        BY <2>1 DEF NoFrame
      <4>2. [frame[u] EXCEPT !.pi_owned = TRUE].on
        BY <4>1, Zenon DEF Frames
      <4> QED BY <2>1, <3>3, <4>2, Zenon
    <3> QED BY <3>1, <3>2, <3>3, Zenon
  <2>5. CASE CheckOwner(t)
    <3>1. frame' = [frame EXCEPT ![t].alive = OwnerAlive(frame[t].val.tid)]
      BY <2>5, Zenon DEF CheckOwner
    <3>2. frame[u] \in Frames
      BY <2>1 DEF NoFrame
    <3>3. [frame[u] EXCEPT !.alive = OwnerAlive(frame[t].val.tid)].on
      BY <3>2, Zenon DEF Frames
    <3> QED BY <2>1, <3>1, <3>3, Zenon
  <2>6. CASE FutexLockPI(t)
    <3>1. pc[t] = "run" /\ \E g : frame' = [frame EXCEPT ![t] = g]
      BY <2>6 DEF FutexLockPI, Attempt, LeaveLockPI
    <3>2. ~frame[t].on
      BY <3>1, Zenon DEF IInv, Core, FramesOK, InLockPI
    <3> QED BY <2>1, <3>1, <3>2
  <2>7. CASE Relock(t) \/ WaitForReturns(t)
    <3>1. CASE u # t
      <4>1. \E g : frame' = [frame EXCEPT ![t] = g]
        BY <2>7, Zenon DEF Relock, WaitForReturns, SleepBehind, Attempt, LeaveLockPI
      <4> QED BY <2>1, <3>1, <4>1, Zenon
    <3>2. CASE u = t
      <4>1. LeaveLockPI(t, frame[t], futex[frame[t].lock], TRUE)
        BY <2>7, <3>2, Zenon DEF Relock, WaitForReturns, Attempt
      <4> QED BY <2>1, <3>2, <4>1, Zenon DEF LeaveLockPI
    <3> QED BY <3>1, <3>2, Zenon
  <2> QED BY <2>2, <2>3, <2>4, <2>5, <2>6, <2>7
        DEF ThreadStep, GuestLock, GuestUnlock, Signal, Handler, Exit, RobustGet, RobustPut, ExitPI
<1> QED BY <1>1, SpecIInv, PTL DEF Spec, HandOverKept
=============================================================================
