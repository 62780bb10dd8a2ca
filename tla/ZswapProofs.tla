---------------------------- MODULE ZswapProofs ----------------------------
(***************************************************************************)
(* For every number of slots, every frame and slab size the pool serves,   *)
(* every cap and every set of frames: the compressed tier keeps each slot  *)
(* the frame last stored in it, whichever entries are freed and reused,    *)
(* and the pool stays within its cap.                                      *)
(***************************************************************************)
EXTENDS Zswap, FiniteSetTheorems, TLAPS

(* The free list of a slab of n entries, threaded through the memory from  *)
(* head: it visits only entries that no slot names, and none of them from  *)
(* two places.                                                             *)
Threaded(n, head, mem, named) ==
    LET free == (0 .. n - 1) \ named IN
    /\ head \in free \cup {NoEntry}
    /\ \A e \in free : mem[e] \in free \cup {NoEntry}
    /\ \A e \in free : mem[e] # NoEntry => mem[e] # head
    /\ \A e, g \in free : mem[e] # NoEntry /\ mem[e] = mem[g] => e = g

LEMMA ThreadedNew ==
    ASSUME NEW n \in 1 .. 64
    PROVE  Threaded(n, 0, [e \in 0 .. n - 1 |-> IF e + 1 = n THEN NoEntry ELSE e + 1], {})
<1> DEFINE mem == [e \in 0 .. n - 1 |-> IF e + 1 = n THEN NoEntry ELSE e + 1]
<1>1. \A e \in 0 .. n - 1 : mem[e] = IF e + 1 = n THEN NoEntry ELSE e + 1
  OBVIOUS
<1> HIDE DEF mem
<1>2. Threaded(n, 0, mem, {})
  BY <1>1 DEF Threaded, NoEntry
<1> QED BY <1>2, Zenon DEF mem

(* zpool_store takes the first free entry (zpool.c:169). *)
LEMMA ThreadedTake ==
    ASSUME NEW n \in 1 .. 64, NEW head, NEW mem, NEW named, NEW f, NEW new,
           Threaded(n, head, mem, named), head # NoEntry,
           \A e \in 0 .. n - 1 : new[e] = IF e = head THEN f ELSE mem[e]
    PROVE  /\ head \in 0 .. n - 1 /\ head \notin named
           /\ Threaded(n, mem[head], new, named \cup {head})
<1>1. head \in 0 .. n - 1 /\ head \notin named
  BY Zenon DEF Threaded
<1> QED BY <1>1, Zenon DEF Threaded

(* zpool_free puts the entry in front (zpool.c:231). *)
LEMMA ThreadedFree ==
    ASSUME NEW n \in 1 .. 64, NEW head, NEW mem, NEW named, NEW e \in 0 .. n - 1, NEW new,
           Threaded(n, head, mem, named), e \in named,
           \A g \in 0 .. n - 1 : new[g] = IF g = e THEN head ELSE mem[g]
    PROVE  Threaded(n, e, new, named \ {e})
<1>1. e # NoEntry
  BY DEF NoEntry
<1> QED BY <1>1, Zenon DEF Threaded

----------------------------------------------------------------------------
(* A pool p, with H the handle each slot has.                              *)

Memory == UNION {[0 .. n - 1 -> Object \cup Nat] : n \in 1 .. 64}
Slab == [class : Class, entries : 1 .. 64, used : Int, free_head : Nat, next_partial : Nat,
         mem : Memory]
Pools == [slabs : Seq(Slab), partial : [Class -> Nat], objects : Int, bytes : Int]
Handle == [slab : Nat, entry : Nat, size : Nat]

Named(H) == {x \in ZSlot : H[x] # Empty}
NamedIn(H, i) == {H[x].entry : x \in {y \in Named(H) : H[y].slab = i}}

(* A slot's handle has an entry, and it alone has it. *)
HandlesHold(S, H) ==
    /\ H \in [ZSlot -> Handle \cup {Empty}]
    /\ \A x \in Named(H) : LET h == H[x] IN
           /\ h.slab \in DOMAIN S /\ h.entry < S[h.slab].entries
           /\ h.size <= S[h.slab].class + 1
    /\ \A x, y \in Named(H) : H[x].slab = H[y].slab /\ H[x].entry = H[y].entry => x = y

FreeListsHold(S, H) ==
    \A i \in DOMAIN S :
        /\ S[i].mem \in [0 .. S[i].entries - 1 -> Object \cup Nat]
        /\ Threaded(S[i].entries, S[i].free_head, S[i].mem, NamedIn(H, i))

(* The slabs of each class that have room, linked from the class's first:  *)
(* the lists have no slab that is full, and none of them twice.            *)
Room(S) == {i \in DOMAIN S : S[i].free_head # NoEntry}
PartialListsHold(S, P) ==
    /\ \A c \in Class : P[c] # 0 => P[c] \in Room(S) /\ S[P[c]].class = c
    /\ \A i \in Room(S) : LET n == S[i].next_partial IN
           n # 0 => n \in Room(S) /\ S[n].class = S[i].class /\ n # P[S[i].class]
    /\ \A i, j \in Room(S) : S[i].next_partial # 0 /\ S[i].next_partial = S[j].next_partial => i = j

Sound(p, H) ==
    /\ p \in Pools
    /\ HandlesHold(p.slabs, H) /\ FreeListsHold(p.slabs, H) /\ PartialListsHold(p.slabs, p.partial)
    /\ p.objects = Cardinality(Named(H))

(* The entries that the slots other than x name are as they were. *)
OthersKept(S, T, H, x) ==
    \A y \in Named(H) : y # x => T[H[y].slab].mem[H[y].entry] = S[H[y].slab].mem[H[y].entry]

(* A slab's memory with another value in one entry. *)
LEMMA MemoryUpdate ==
    ASSUME NEW n \in 1 .. 64, NEW mem \in [0 .. n - 1 -> Object \cup Nat], NEW e \in 0 .. n - 1,
           NEW v \in Object \cup Nat
    PROVE  /\ [mem EXCEPT ![e] = v] \in [0 .. n - 1 -> Object \cup Nat]
           /\ [mem EXCEPT ![e] = v] \in Memory
           /\ \A g \in 0 .. n - 1 : [mem EXCEPT ![e] = v][g] = IF g = e THEN v ELSE mem[g]
<1>1. [mem EXCEPT ![e] = v] \in [0 .. n - 1 -> Object \cup Nat]
  BY Zenon
<1>2. [mem EXCEPT ![e] = v] \in Memory
  BY <1>1, Zenon DEF Memory
<1> QED BY <1>1, <1>2, Zenon

(* What zpool_free makes of the slab, and of the pool. *)
NextOf(p, slab) == IF slab.free_head = NoEntry THEN p.partial[slab.class] ELSE slab.next_partial
FreedSlab(p, slab, e) ==
    [slab EXCEPT !.free_head = e, !.used = @ - 1, !.mem[e] = slab.free_head,
                 !.next_partial = NextOf(p, slab)]

IsFreed(s, p, slab, e) ==
    /\ s.class = slab.class /\ s.entries = slab.entries /\ s.free_head = e
    /\ s.mem = [slab.mem EXCEPT ![e] = slab.free_head] /\ s.next_partial = NextOf(p, slab)
    /\ e \in Nat /\ NextOf(p, slab) \in Nat /\ [slab.mem EXCEPT ![e] = slab.free_head] \in Memory => s \in Slab

LEMMA FreedSlabIs ==
    ASSUME NEW p, NEW slab \in Slab, NEW e
    PROVE  IsFreed(FreedSlab(p, slab, e), p, slab, e)
<1> DEFINE s == FreedSlab(p, slab, e)
           next == NextOf(p, slab)
           mem == [slab.mem EXCEPT ![e] = slab.free_head]
<1>1. s = [slab EXCEPT !.free_head = e, !.used = @ - 1, !.mem = mem, !.next_partial = next]
  BY Zenon DEF FreedSlab
<1> HIDE DEF s, next, mem
<1>2. /\ s.class = slab.class /\ s.entries = slab.entries /\ s.used = slab.used - 1
      /\ s.free_head = e /\ s.mem = mem /\ s.next_partial = next
      /\ s = [class |-> slab.class, entries |-> slab.entries, used |-> slab.used - 1, free_head |-> e,
              next_partial |-> next, mem |-> mem]
  BY <1>1, Zenon DEF Slab
<1>3. slab.class \in Class /\ slab.entries \in 1 .. 64 /\ slab.used - 1 \in Int
  BY DEF Slab
<1>4. e \in Nat /\ next \in Nat /\ mem \in Memory => s \in Slab
  BY <1>2, <1>3, Zenon DEF Slab
<1> QED BY <1>2, <1>4, Zenon DEF s, next, mem, IsFreed

LEMMA FreeIs ==
    ASSUME NEW p \in Pools, NEW h, h.slab \in DOMAIN p.slabs
    PROVE  LET q == zpool_free(p, h)
               slab == p.slabs[h.slab]
           IN  /\ q = [slabs |-> q.slabs, partial |-> q.partial, objects |-> q.objects, bytes |-> q.bytes]
               /\ q.slabs = [p.slabs EXCEPT ![h.slab] = FreedSlab(p, slab, h.entry)]
               /\ q.partial = [p.partial EXCEPT ![slab.class] =
                                   IF slab.free_head = NoEntry THEN h.slab ELSE @]
               /\ q.objects = p.objects - 1 /\ q.bytes = p.bytes - h.size
<1> DEFINE q == zpool_free(p, h)
           slab == p.slabs[h.slab]
           c == slab.class
           i == h.slab
           P == IF slab.free_head = NoEntry THEN i ELSE p.partial[c]
           X == FreedSlab(p, slab, h.entry)
<1>1. q = [p EXCEPT !.slabs[i] = X, !.partial[c] = P, !.objects = @ - 1, !.bytes = @ - h.size]
  BY Zenon DEF zpool_free, FreedSlab, NextOf
<1> HIDE DEF q, slab, c, i, P, X
<1>2. /\ q.slabs = [p.slabs EXCEPT ![i] = X] /\ q.partial = [p.partial EXCEPT ![c] = P]
      /\ q.objects = p.objects - 1 /\ q.bytes = p.bytes - h.size
      /\ q = [slabs |-> q.slabs, partial |-> q.partial, objects |-> q.objects, bytes |-> q.bytes]
  BY <1>1, Zenon DEF Pools
<1> QED BY <1>2, Zenon DEF q, slab, c, i, P, X

LEMMA NamedInIs ==
    \A H, i, e : e \in NamedIn(H, i) <=> \E x \in Named(H) : H[x].slab = i /\ H[x].entry = e
BY Zenon DEF NamedIn

(* K is H but that x names nothing any more. *)
Loses(H, K, x) ==
    /\ x \in Named(H) /\ Named(K) = Named(H) \ {x}
    /\ \A y \in Named(K) : K[y] = H[y]
    /\ \A y \in Named(H) : H[y].slab = H[x].slab /\ H[y].entry = H[x].entry => y = x

LEMMA NamedInLess ==
    ASSUME NEW H, NEW K, NEW x, Loses(H, K, x)
    PROVE  /\ NamedIn(K, H[x].slab) = NamedIn(H, H[x].slab) \ {H[x].entry}
           /\ \A i : i # H[x].slab => NamedIn(K, i) = NamedIn(H, i)
<1>1. NamedIn(K, H[x].slab) = NamedIn(H, H[x].slab) \ {H[x].entry}
  <2>1. \A e : e \in NamedIn(K, H[x].slab) <=> e \in NamedIn(H, H[x].slab) \ {H[x].entry}
    BY NamedInIs DEF Loses
  <2> QED BY <2>1, Zenon
<1>2. ASSUME NEW i, i # H[x].slab PROVE NamedIn(K, i) = NamedIn(H, i)
  <2>1. \A e : e \in NamedIn(K, i) <=> e \in NamedIn(H, i)
    BY <1>2, NamedInIs DEF Loses
  <2> QED BY <2>1, Zenon
<1> QED BY <1>1, <1>2, Zenon

(* K is H but that x, which named nothing, has handle h. *)
Gains(H, K, x, h) ==
    /\ Named(K) = Named(H) \cup {x} /\ K[x] = h
    /\ \A y \in Named(H) : y # x /\ K[y] = H[y]

LEMMA NamedInMore ==
    ASSUME NEW H, NEW K, NEW x, NEW h, Gains(H, K, x, h)
    PROVE  /\ NamedIn(K, h.slab) = NamedIn(H, h.slab) \cup {h.entry}
           /\ \A i : i # h.slab => NamedIn(K, i) = NamedIn(H, i)
<1>1. NamedIn(K, h.slab) = NamedIn(H, h.slab) \cup {h.entry}
  <2>1. \A e : e \in NamedIn(K, h.slab) <=> e \in NamedIn(H, h.slab) \cup {h.entry}
    BY NamedInIs DEF Gains
  <2> QED BY <2>1, Zenon
<1>2. ASSUME NEW i, i # h.slab PROVE NamedIn(K, i) = NamedIn(H, i)
  <2>1. \A e : e \in NamedIn(K, i) <=> e \in NamedIn(H, i)
    BY <1>2, NamedInIs DEF Gains
  <2> QED BY <2>1, Zenon
<1> QED BY <1>1, <1>2, Zenon

(* A slab changes in a sequence of them. *)
LEMMA SlabUpdate ==
    ASSUME NEW S \in Seq(Slab), NEW i \in DOMAIN S, NEW s \in Slab
    PROVE  LET T == [S EXCEPT ![i] = s] IN
           /\ T \in Seq(Slab) /\ Len(T) = Len(S) /\ DOMAIN T = DOMAIN S
           /\ T[i] = s /\ \A j \in DOMAIN S : j # i => T[j] = S[j]
OBVIOUS

(* A slab of the class that gets room back goes in front of the list. *)
FreedIn(S, T, P, Q, i) ==
    /\ i \in DOMAIN S /\ 0 \notin DOMAIN S /\ S[i].class \in Class /\ P \in [Class -> Nat]
    /\ DOMAIN T = DOMAIN S /\ \A j \in DOMAIN S : j # i => T[j] = S[j]
    /\ T[i].class = S[i].class /\ T[i].free_head # NoEntry
    /\ T[i].next_partial = IF S[i].free_head = NoEntry THEN P[S[i].class] ELSE S[i].next_partial
    /\ Q = [P EXCEPT ![S[i].class] = IF S[i].free_head = NoEntry THEN i ELSE @]

LEMMA PartialListsFreed ==
    ASSUME NEW S, NEW T, NEW P, NEW Q, NEW i, FreedIn(S, T, P, Q, i), PartialListsHold(S, P)
    PROVE  PartialListsHold(T, Q)
<1> DEFINE c == S[i].class
<1> USE DEF FreedIn
<1>1. CASE S[i].free_head # NoEntry
  <2>1. Room(T) = Room(S) /\ \A c1 \in Class : Q[c1] = P[c1]
    BY <1>1, Zenon DEF Room
  <2>2. \A j \in DOMAIN S : T[j].class = S[j].class /\ T[j].next_partial = S[j].next_partial
    BY <1>1, Zenon
  <2>3. \A j \in Room(S) : j \in DOMAIN S
    BY Zenon DEF Room
  <2> HIDE DEF c
  <2>4. \A c1 \in Class : Q[c1] # 0 => Q[c1] \in Room(T) /\ T[Q[c1]].class = c1
    BY <2>1, <2>2, <2>3 DEF PartialListsHold
  <2>5. \A j \in Room(T) : LET n == T[j].next_partial IN
           n # 0 => n \in Room(T) /\ T[n].class = T[j].class /\ n # Q[T[j].class]
    BY <2>1, <2>2, <2>3 DEF PartialListsHold
  <2>6. \A j, k \in Room(T) : T[j].next_partial # 0 /\ T[j].next_partial = T[k].next_partial => j = k
    BY <2>1, <2>2, <2>3, ZenonT(30) DEF PartialListsHold
  <2> QED BY <2>4, <2>5, <2>6, Zenon DEF PartialListsHold
<1>2. CASE S[i].free_head = NoEntry
  <2>1. /\ i \notin Room(S) /\ Room(T) = Room(S) \cup {i} /\ Q[c] = i
        /\ \A d \in Class : d # c => Q[d] = P[d]
    BY <1>2, Zenon DEF Room
  <2>2. \A j \in Room(S) : j # i /\ j \in DOMAIN S /\ T[j] = S[j]
    BY <2>1, Zenon DEF Room
  <2>3. T[i].class = c /\ T[i].next_partial = P[c] /\ c \in Class
    BY <1>2, Zenon
  <2> HIDE DEF c
  <2>4. \A d \in Class : Q[d] # 0 => Q[d] \in Room(T) /\ T[Q[d]].class = d
    BY <2>1, <2>2, <2>3 DEF PartialListsHold
  <2>5. \A j \in Room(T) : LET n == T[j].next_partial IN
           n # 0 => n \in Room(T) /\ T[n].class = T[j].class /\ n # Q[T[j].class]
    BY <2>1, <2>2, <2>3 DEF PartialListsHold
  <2>6. \A j, k \in Room(T) : T[j].next_partial # 0 /\ T[j].next_partial = T[k].next_partial => j = k
    BY <2>1, <2>2, <2>3 DEF PartialListsHold
  <2> QED BY <2>4, <2>5, <2>6, Zenon DEF PartialListsHold
<1> QED BY <1>1, <1>2, Zenon

(* The entry a slot names. *)
LEMMA EntryIs ==
    ASSUME ZswapConstants, NEW S \in Seq(Slab), NEW H, HandlesHold(S, H), FreeListsHold(S, H),
           NEW x \in Named(H)
    PROVE  LET h == H[x]
               slab == S[h.slab]
           IN
           /\ x \in ZSlot /\ h \in Handle /\ h.slab \in DOMAIN S /\ h.slab \in Nat /\ h.size \in Nat
           /\ slab \in Slab /\ slab.class \in Class /\ slab.entries \in 1 .. 64
           /\ slab.free_head \in Nat /\ slab.next_partial \in Nat /\ slab.used \in Int
           /\ h.entry \in 0 .. slab.entries - 1 /\ h.entry # NoEntry
           /\ h.entry \in NamedIn(H, h.slab)
           /\ slab.mem \in [0 .. slab.entries - 1 -> Object \cup Nat]
           /\ Threaded(slab.entries, slab.free_head, slab.mem, NamedIn(H, h.slab))
           /\ \A y \in Named(H) : H[y].slab = h.slab /\ H[y].entry = h.entry => y = x
<1> DEFINE h == H[x]
           slab == S[h.slab]
<1>1. x \in ZSlot /\ h \in Handle
  BY Zenon DEF HandlesHold, ZswapConstants, Handle, Named
<1>2. h.slab \in DOMAIN S /\ h.slab \in Nat /\ h.entry \in Nat /\ h.entry < slab.entries /\ h.size \in Nat
  BY <1>1, Zenon DEF HandlesHold, Handle
<1> HIDE DEF slab
<1>3. slab \in Slab
  BY <1>2 DEF slab
<1>4. /\ slab.class \in Class /\ slab.entries \in 1 .. 64
      /\ slab.free_head \in Nat /\ slab.next_partial \in Nat /\ slab.used \in Int
  BY <1>3, Zenon DEF Slab
<1> HIDE DEF h
<1>5. h.entry \in 0 .. slab.entries - 1 /\ h.entry # NoEntry
  <2>1. \A m \in Nat, n \in 1 .. 64 : m < n => m \in 0 .. n - 1 /\ m # NoEntry
    BY DEF NoEntry
  <2> QED BY <1>2, <1>4, <2>1, Zenon
<1>6. /\ slab.mem \in [0 .. slab.entries - 1 -> Object \cup Nat]
      /\ Threaded(slab.entries, slab.free_head, slab.mem, NamedIn(H, h.slab))
  BY <1>2, Zenon DEF FreeListsHold, slab
<1>7. h.entry \in NamedIn(H, h.slab)
  BY NamedInIs, Zenon DEF h
<1>8. \A y \in Named(H) : H[y].slab = h.slab /\ H[y].entry = h.entry => y = x
  BY Zenon DEF HandlesHold, h
<1> QED BY <1>1, <1>2, <1>3, <1>4, <1>5, <1>6, <1>7, <1>8, Zenon DEF h, slab

(* zpool_free of the entry a slot names leaves the other slots' entries    *)
(* and puts its own back.                                                  *)
LEMMA FreeSound ==
    ASSUME ZswapConstants, NEW p, NEW H, Sound(p, H), NEW x \in Named(H)
    PROVE  LET q == zpool_free(p, H[x])
               K == [H EXCEPT ![x] = Empty]
           IN
           /\ Sound(q, K) /\ Len(q.slabs) = Len(p.slabs) /\ OthersKept(p.slabs, q.slabs, H, x)
<1> DEFINE q == zpool_free(p, H[x])
           K == [H EXCEPT ![x] = Empty]
           h == H[x]
           S == p.slabs
           T == q.slabs
           i == h.slab
           e == h.entry
           slab == S[i]
           next == NextOf(p, slab)
           s == FreedSlab(p, slab, e)
<1>1. /\ p \in Pools /\ S \in Seq(Slab) /\ p.partial \in [Class -> Nat] /\ p.objects \in Int
      /\ p.bytes \in Int /\ HandlesHold(S, H) /\ FreeListsHold(S, H) /\ PartialListsHold(S, p.partial)
      /\ p.objects = Cardinality(Named(H)) /\ 0 \notin DOMAIN S
  BY DEF Sound, Pools
<1> HIDE DEF q, K, h, i, e, slab, next, s, S, T
<1>3. /\ x \in ZSlot /\ h \in Handle /\ i \in DOMAIN S /\ i \in Nat /\ h.size \in Nat
      /\ e \in 0 .. slab.entries - 1 /\ e # NoEntry /\ e \in NamedIn(H, i)
      /\ slab \in Slab
  BY <1>1, EntryIs, Zenon DEF h, i, e, slab
<1>4. /\ slab.class \in Class /\ slab.entries \in 1 .. 64
      /\ slab.free_head \in Nat /\ slab.next_partial \in Nat /\ slab.used \in Int
  BY <1>3, Zenon DEF Slab
<1>6. /\ slab.mem \in [0 .. slab.entries - 1 -> Object \cup Nat]
      /\ Threaded(slab.entries, slab.free_head, slab.mem, NamedIn(H, i))
      /\ \A y \in Named(H) : H[y].slab = i /\ H[y].entry = e => y = x
  BY <1>1, EntryIs, Zenon DEF h, i, e, slab
<1>8. /\ q = [slabs |-> T, partial |-> q.partial, objects |-> q.objects, bytes |-> q.bytes]
      /\ T = [S EXCEPT ![i] = s]
      /\ q.partial = [p.partial EXCEPT ![slab.class] = IF slab.free_head = NoEntry THEN i ELSE @]
      /\ q.objects = p.objects - 1 /\ q.bytes = p.bytes - h.size
  BY <1>1, <1>3, FreeIs, Zenon DEF q, h, i, e, s, S, T, slab
<1>9. /\ s.class = slab.class /\ s.entries = slab.entries
      /\ s.free_head = e /\ s.mem = [slab.mem EXCEPT ![e] = slab.free_head]
      /\ s.next_partial = next
  <2>1. slab \in Slab
    BY <1>3, Zenon
  <2>2. IsFreed(FreedSlab(p, slab, e), p, slab, e)
    BY <2>1, FreedSlabIs, Zenon
  <2> QED BY <2>2, Zenon DEF s, next, IsFreed
<1>10. /\ s.mem \in [0 .. slab.entries - 1 -> Object \cup Nat] /\ s.mem \in Memory
       /\ \A g \in 0 .. slab.entries - 1 : s.mem[g] = IF g = e THEN slab.free_head ELSE slab.mem[g]
  <2>1. slab.free_head \in Object \cup Nat
    BY <1>4, Zenon
  <2>2. LET new == [slab.mem EXCEPT ![e] = slab.free_head] IN
        /\ new \in [0 .. slab.entries - 1 -> Object \cup Nat] /\ new \in Memory
        /\ \A g \in 0 .. slab.entries - 1 : new[g] = IF g = e THEN slab.free_head ELSE slab.mem[g]
    BY <1>3, <1>4, <1>6, <2>1, MemoryUpdate, Zenon
  <2> QED BY <2>2, <1>9, Zenon
<1>11. next \in Nat /\ e \in Nat
  <2>1. e \in Nat
    BY <1>3, <1>4
  <2> QED BY <2>1, <1>1, <1>4, Zenon DEF next, NextOf
<1>12. s \in Slab
  <2>1. [slab.mem EXCEPT ![e] = slab.free_head] \in Memory
    BY <1>9, <1>10, Zenon
  <2>2. IsFreed(FreedSlab(p, slab, e), p, slab, e)
    BY <1>3, FreedSlabIs, Zenon
  <2> QED BY <1>11, <2>1, <2>2, Zenon DEF s, next, IsFreed
<1>13. /\ T \in Seq(Slab) /\ Len(T) = Len(S) /\ DOMAIN T = DOMAIN S
       /\ T[i] = s /\ \A j \in DOMAIN S : j # i => T[j] = S[j]
  <2>1. LET U == [S EXCEPT ![i] = s] IN
        /\ U \in Seq(Slab) /\ Len(U) = Len(S) /\ DOMAIN U = DOMAIN S
        /\ U[i] = s /\ \A j \in DOMAIN S : j # i => U[j] = S[j]
    BY <1>1, <1>3, <1>12, SlabUpdate, Zenon
  <2> QED BY <2>1, <1>8, Zenon
<1>14. K \in [ZSlot -> Handle \cup {Empty}] /\ Named(K) = Named(H) \ {x} /\ \A y \in Named(K) : K[y] = H[y]
  BY <1>1, <1>3, Zenon DEF Named, HandlesHold, K
<1>16. NamedIn(K, i) = NamedIn(H, i) \ {e} /\ \A j : j # i => NamedIn(K, j) = NamedIn(H, j)
  <2>1. Loses(H, K, x)
    BY <1>6, <1>14, Zenon DEF h, i, e, Loses
  <2>2. NamedIn(K, H[x].slab) = NamedIn(H, H[x].slab) \ {H[x].entry}
    BY <2>1, NamedInLess
  <2>3. \A j : j # H[x].slab => NamedIn(K, j) = NamedIn(H, j)
    BY <2>1, NamedInLess
  <2> QED BY <2>2, <2>3, Zenon DEF h, i, e
<1>17. HandlesHold(T, K)
  <2>1. \A j \in DOMAIN S : T[j].entries = S[j].entries /\ T[j].class = S[j].class
    BY <1>13, <1>9, Zenon DEF slab
  <2>2. \A y \in Named(K) : y \in Named(H) /\ K[y] = H[y]
    BY <1>14, Zenon
  <2>3. ASSUME NEW y \in Named(K)
        PROVE  /\ K[y].slab \in DOMAIN T /\ K[y].entry < T[K[y].slab].entries
               /\ K[y].size <= T[K[y].slab].class + 1
    <3>1. /\ H[y].slab \in DOMAIN S /\ H[y].entry < S[H[y].slab].entries
          /\ H[y].size <= S[H[y].slab].class + 1
      BY <2>2, <1>1, Zenon DEF HandlesHold
    <3> QED BY <3>1, <2>1, <2>2, <1>13, Zenon
  <2>4. \A y, z \in Named(K) : K[y].slab = K[z].slab /\ K[y].entry = K[z].entry => y = z
    BY <2>2, <1>1, Zenon DEF HandlesHold
  <2> QED BY <1>14, <2>3, <2>4, Zenon DEF HandlesHold
<1>18. FreeListsHold(T, K)
  <2>1. Threaded(slab.entries, e, s.mem, NamedIn(H, i) \ {e})
    BY <1>3, <1>4, <1>6, <1>10, ThreadedFree, Zenon
  <2>2. ASSUME NEW j \in DOMAIN T
        PROVE  /\ T[j].mem \in [0 .. T[j].entries - 1 -> Object \cup Nat]
               /\ Threaded(T[j].entries, T[j].free_head, T[j].mem, NamedIn(K, j))
    <3>1. CASE j = i
      BY <2>1, <3>1, <1>9, <1>10, <1>13, <1>16, Zenon
    <3>2. CASE j # i
      BY <3>2, <1>13, <1>16, <1>1, Zenon DEF FreeListsHold
    <3> QED BY <3>1, <3>2, Zenon
  <2> QED BY <2>2, Zenon DEF FreeListsHold
<1>19. PartialListsHold(T, q.partial)
  <2>3. /\ T[i].class = S[i].class /\ T[i].free_head # NoEntry
        /\ T[i].next_partial = IF S[i].free_head = NoEntry THEN p.partial[S[i].class] ELSE S[i].next_partial
        /\ q.partial = [p.partial EXCEPT ![S[i].class] = IF S[i].free_head = NoEntry THEN i ELSE @]
    <3>1. T[i].class = S[i].class /\ T[i].free_head # NoEntry
      BY <1>3, <1>9, <1>13, Zenon DEF slab
    <3>2. T[i].next_partial = IF S[i].free_head = NoEntry THEN p.partial[S[i].class] ELSE S[i].next_partial
      BY <1>9, <1>13, Zenon DEF slab, next, NextOf
    <3>3. q.partial = [p.partial EXCEPT ![S[i].class] = IF S[i].free_head = NoEntry THEN i ELSE @]
      BY <1>8, Zenon DEF slab
    <3> QED BY <3>1, <3>2, <3>3, Zenon
  <2>4. S[i].class \in Class
    BY <1>4, Zenon DEF slab
  <2>5. FreedIn(S, T, p.partial, q.partial, i)
    BY <1>1, <1>3, <1>13, <2>3, <2>4, Zenon DEF FreedIn
  <2> QED BY <1>1, <2>5, PartialListsFreed, Zenon
<1>20. q.objects = Cardinality(Named(K))
  <2>1. IsFiniteSet(Named(H))
    BY FS_Subset, Named(H) \subseteq ZSlot, Zenon DEF Named, ZswapConstants
  <2>2. Cardinality(Named(H) \ {x}) = Cardinality(Named(H)) - 1
    BY <2>1, FS_RemoveElement, Zenon
  <2> QED BY <2>2, <1>1, <1>8, <1>14, Zenon
<1>21. q \in Pools
  <2>1. q.partial \in [Class -> Nat]
    BY <1>1, <1>3, <1>4, <1>8, Zenon
  <2>2. q.objects \in Int /\ q.bytes \in Int
    BY <1>1, <1>3, <1>8
  <2>3. PICK a, b, c, d : /\ q = [slabs |-> a, partial |-> b, objects |-> c, bytes |-> d] /\ a = T
                          /\ b = q.partial /\ c = q.objects /\ d = q.bytes
    BY <1>8, Zenon
  <2> QED BY <1>13, <2>1, <2>2, <2>3, Zenon DEF Pools
<1>22. OthersKept(S, T, H, x)
  <2> SUFFICES ASSUME NEW y \in Named(H), y # x
               PROVE  T[H[y].slab].mem[H[y].entry] = S[H[y].slab].mem[H[y].entry]
    BY Zenon DEF OthersKept
  <2>1. H[y].slab \in DOMAIN S /\ H[y].entry < S[H[y].slab].entries
    BY <1>1, Zenon DEF HandlesHold
  <2>2. CASE H[y].slab # i
    BY <2>1, <2>2, <1>13, Zenon
  <2>3. CASE H[y].slab = i
    <3>1. H[y].entry # e
      BY <1>6, <2>3, ZenonT(30)
    <3>2. H[y].entry \in 0 .. slab.entries - 1
      <4>1. H[y].entry \in 0 .. S[H[y].slab].entries - 1
        BY <1>1, EntryIs, ZenonT(30)
      <4> QED BY <4>1, <2>3, Zenon DEF slab
    <3> QED BY <3>1, <3>2, <2>3, <1>10, <1>13, Zenon DEF slab
  <2> QED BY <2>2, <2>3, Zenon
<1> QED BY <1>13, <1>17, <1>18, <1>19, <1>20, <1>21, <1>22, Zenon DEF Sound, S, T, q, K

----------------------------------------------------------------------------
(* slab_new, of a class that has no slab with room. *)
NewSlab(c, next) ==
    LET n == ObjectMax \div (c + 1) IN
    [class |-> c, entries |-> n, used |-> 0, free_head |-> 0, next_partial |-> next,
     mem |-> [e \in 0 .. n - 1 |-> IF e + 1 = n THEN NoEntry ELSE e + 1]]

LEMMA NewSlabIs ==
    ASSUME ZswapConstants, NEW c \in Class, NEW next \in Nat
    PROVE  /\ NewSlab(c, next) \in Slab
           /\ NewSlab(c, next).class = c /\ NewSlab(c, next).free_head = 0
           /\ NewSlab(c, next).next_partial = next
           /\ NewSlab(c, next).mem \in [0 .. NewSlab(c, next).entries - 1 -> Object \cup Nat]
           /\ Threaded(NewSlab(c, next).entries, 0, NewSlab(c, next).mem, {})
<1> DEFINE n == ObjectMax \div (c + 1)
           mem == [e \in 0 .. n - 1 |-> IF e + 1 = n THEN NoEntry ELSE e + 1]
<1>1. n \in 1 .. 64
  <2>1. ObjectMax \in 1 .. 64 /\ c + 1 \in 1 .. ObjectMax
    BY DEF ZswapConstants, Class
  <2>2. \A m \in 1 .. 64 : \A k \in 1 .. m : m \div k \in 1 .. 64
    OBVIOUS
  <2> QED BY <2>1, <2>2, Zenon
<1> HIDE DEF n
<1>2. mem \in [0 .. n - 1 -> Object \cup Nat]
  BY <1>1 DEF NoEntry
<1>3. mem \in Memory
  BY <1>1, <1>2, Zenon DEF Memory
<1>4. Threaded(n, 0, mem, {})
  BY <1>1, ThreadedNew, Zenon
<1> HIDE DEF mem
<1>5. NewSlab(c, next) = [class |-> c, entries |-> n, used |-> 0, free_head |-> 0, next_partial |-> next,
                          mem |-> mem]
  BY Zenon DEF NewSlab, n, mem
<1> QED BY <1>1, <1>2, <1>3, <1>4, <1>5 DEF Slab

LEMMA NewIs ==
    ASSUME NEW p \in Pools, NEW c \in Class
    PROVE  /\ slab_new(p, c).slabs = Append(p.slabs, NewSlab(c, p.partial[c]))
           /\ slab_new(p, c).partial = [p.partial EXCEPT ![c] = Len(p.slabs) + 1]
           /\ slab_new(p, c).objects = p.objects /\ slab_new(p, c).bytes = p.bytes
           /\ slab_new(p, c) = [slabs |-> slab_new(p, c).slabs, partial |-> slab_new(p, c).partial,
                                objects |-> slab_new(p, c).objects, bytes |-> slab_new(p, c).bytes]
<1> DEFINE q == slab_new(p, c)
           X == NewSlab(c, p.partial[c])
<1>1. q = [p EXCEPT !.slabs = Append(@, X), !.partial[c] = Len(p.slabs) + 1]
  BY Zenon DEF slab_new, NewSlab
<1> HIDE DEF q, X
<1>2. /\ q.slabs = Append(p.slabs, X) /\ q.partial = [p.partial EXCEPT ![c] = Len(p.slabs) + 1]
      /\ q.objects = p.objects /\ q.bytes = p.bytes
      /\ q = [slabs |-> q.slabs, partial |-> q.partial, objects |-> q.objects, bytes |-> q.bytes]
  BY <1>1, Zenon DEF Pools
<1> QED BY <1>2, Zenon DEF q, X

(* T is S with a slab k more, the first of its class. *)
AddedTo(S, T, P, Q, k, c) ==
    /\ k \notin DOMAIN S /\ k # 0 /\ c \in Class /\ P \in [Class -> Nat] /\ P[c] = 0
    /\ DOMAIN T = DOMAIN S \cup {k} /\ \A j \in DOMAIN S : T[j] = S[j]
    /\ T[k].class = c /\ T[k].free_head # NoEntry /\ T[k].next_partial = 0
    /\ Q = [P EXCEPT ![c] = k]

LEMMA PartialListsAdded ==
    ASSUME NEW S, NEW T, NEW P, NEW Q, NEW k, NEW c, AddedTo(S, T, P, Q, k, c), PartialListsHold(S, P)
    PROVE  PartialListsHold(T, Q)
<1>1. Room(T) = Room(S) \cup {k} /\ k \notin Room(S)
  BY Zenon DEF Room, AddedTo
<1>2. \A j \in Room(S) : j # k /\ T[j] = S[j]
  BY Zenon DEF Room, AddedTo
<1>3. Q[c] = k /\ \A d \in Class : d # c => Q[d] = P[d]
  BY Zenon DEF AddedTo
<1>4. T[k].class = c /\ T[k].next_partial = 0
  BY Zenon DEF AddedTo
<1>5. \A d \in Class : Q[d] # 0 => Q[d] \in Room(T) /\ T[Q[d]].class = d
  BY <1>1, <1>2, <1>3, <1>4, SMTT(30) DEF PartialListsHold
<1>6. \A j \in Room(T) : LET n == T[j].next_partial IN
         n # 0 => n \in Room(T) /\ T[n].class = T[j].class /\ n # Q[T[j].class]
  <2> SUFFICES ASSUME NEW j \in Room(T), T[j].next_partial # 0
               PROVE  /\ T[j].next_partial \in Room(T) /\ T[T[j].next_partial].class = T[j].class
                      /\ T[j].next_partial # Q[T[j].class]
    BY Zenon
  <2>1. j \in Room(S) /\ T[j] = S[j]
    BY <1>1, <1>2, <1>4, Zenon
  <2>2. /\ S[j].next_partial \in Room(S) /\ S[S[j].next_partial].class = S[j].class
        /\ S[j].next_partial # P[S[j].class]
    BY <2>1, Zenon DEF PartialListsHold
  <2> QED BY <2>1, <2>2, <1>1, <1>2, <1>3 DEF AddedTo
<1>7. \A i, j \in Room(T) : T[i].next_partial # 0 /\ T[i].next_partial = T[j].next_partial => i = j
  BY <1>1, <1>2, <1>4, Zenon DEF PartialListsHold
<1> QED BY <1>5, <1>6, <1>7, Zenon DEF PartialListsHold

LEMMA NewSound ==
    ASSUME ZswapConstants, NEW p, NEW H, Sound(p, H), NEW c \in Class, p.partial[c] = 0
    PROVE  /\ Sound(slab_new(p, c), H) /\ Len(slab_new(p, c).slabs) = Len(p.slabs) + 1
           /\ \A j \in DOMAIN p.slabs : slab_new(p, c).slabs[j] = p.slabs[j]
           /\ slab_new(p, c).partial[c] = Len(p.slabs) + 1
<1> DEFINE q == slab_new(p, c)
           S == p.slabs
           T == q.slabs
           k == Len(S) + 1
           s == NewSlab(c, 0)
<1>1. /\ p \in Pools /\ S \in Seq(Slab) /\ p.partial \in [Class -> Nat] /\ p.objects \in Int
      /\ p.bytes \in Int /\ HandlesHold(S, H) /\ FreeListsHold(S, H) /\ PartialListsHold(S, p.partial)
      /\ p.objects = Cardinality(Named(H)) /\ 0 \notin DOMAIN S
  BY DEF Sound, Pools
<1> HIDE DEF q, S, T, k, s
<1>2. /\ T = Append(S, s) /\ q.partial = [p.partial EXCEPT ![c] = k]
      /\ q.objects = p.objects /\ q.bytes = p.bytes
      /\ q = [slabs |-> T, partial |-> q.partial, objects |-> q.objects, bytes |-> q.bytes]
  BY <1>1, NewIs, Zenon DEF q, S, T, k, s
<1>3. /\ s \in Slab /\ s.class = c /\ s.free_head = 0 /\ s.next_partial = 0
      /\ s.mem \in [0 .. s.entries - 1 -> Object \cup Nat] /\ Threaded(s.entries, 0, s.mem, {})
  BY NewSlabIs DEF s
<1>4. /\ T \in Seq(Slab) /\ Len(T) = k /\ k \in Nat /\ k # 0 /\ k \notin DOMAIN S
      /\ DOMAIN T = DOMAIN S \cup {k} /\ T[k] = s /\ \A j \in DOMAIN S : T[j] = S[j]
  BY <1>1, <1>2, <1>3, SMTT(30) DEF k
<1>5. PartialListsHold(T, q.partial)
  <2>1. T[k].class = c /\ T[k].free_head # NoEntry /\ T[k].next_partial = 0
    BY <1>3, <1>4 DEF NoEntry
  <2>2. AddedTo(S, T, p.partial, q.partial, k, c)
    BY <1>1, <1>2, <1>4, <2>1, Zenon DEF AddedTo
  <2> QED BY <1>1, <2>2, PartialListsAdded, Zenon
<1>6. HandlesHold(T, H)
  <2>1. \A y \in Named(H) : /\ H[y].slab \in DOMAIN T /\ H[y].entry < T[H[y].slab].entries
                            /\ H[y].size <= T[H[y].slab].class + 1
    BY <1>1, <1>4, Zenon DEF HandlesHold
  <2> QED BY <1>1, <2>1, Zenon DEF HandlesHold
<1>7. FreeListsHold(T, H)
  <2>1. NamedIn(H, k) = {}
    <3>1. \A e : e \notin NamedIn(H, k)
      <4> SUFFICES ASSUME NEW e, e \in NamedIn(H, k) PROVE FALSE
        BY Zenon
      <4>1. PICK y \in Named(H) : H[y].slab = k
        BY NamedInIs
      <4>2. H[y].slab \in DOMAIN S
        BY <1>1, Zenon DEF HandlesHold
      <4> QED BY <1>4, <4>1, <4>2, Zenon
    <3> QED BY <3>1, Zenon
  <2>2. ASSUME NEW j \in DOMAIN T
        PROVE  /\ T[j].mem \in [0 .. T[j].entries - 1 -> Object \cup Nat]
               /\ Threaded(T[j].entries, T[j].free_head, T[j].mem, NamedIn(H, j))
    <3>1. CASE j = k
      <4>1. T[j] = s /\ NamedIn(H, j) = {}
        BY <2>1, <3>1, <1>4, Zenon
      <4> QED BY <4>1, <1>3, Zenon
    <3>2. CASE j # k
      BY <3>2, <1>1, <1>4, Zenon DEF FreeListsHold
    <3> QED BY <3>1, <3>2, Zenon
  <2> QED BY <2>2, Zenon DEF FreeListsHold
<1>8. q \in Pools
  <2>1. q.partial \in [Class -> Nat]
    BY <1>1, <1>2, <1>4, Zenon
  <2>3. PICK a, b, m, d : /\ q = [slabs |-> a, partial |-> b, objects |-> m, bytes |-> d] /\ a = T
                          /\ b = q.partial /\ m = q.objects /\ d = q.bytes
    BY <1>2, Zenon
  <2> QED BY <1>1, <1>2, <1>4, <2>1, <2>3, Zenon DEF Pools
<1>9. Sound(q, H)
  BY <1>1, <1>2, <1>5, <1>6, <1>7, <1>8, Zenon DEF Sound, T
<1>10. q.partial[c] = k
  BY <1>1, <1>2, Zenon
<1> QED BY <1>4, <1>9, <1>10, Zenon DEF q, S, T, k

----------------------------------------------------------------------------
(* What taking an entry makes of the first slab of the class, and of the   *)
(* pool: the slab is unlinked when that was its last.                      *)
TakenSlab(slab, f) ==
    LET e == slab.free_head IN
    [slab EXCEPT !.free_head = slab.mem[e], !.used = @ + 1, !.mem[e] = f,
                 !.next_partial = IF slab.mem[e] = NoEntry THEN 0 ELSE @]

LEMMA TakenSlabIs ==
    ASSUME NEW slab \in Slab, NEW f
    PROVE  /\ TakenSlab(slab, f).class = slab.class
           /\ TakenSlab(slab, f).entries = slab.entries
           /\ TakenSlab(slab, f).free_head = slab.mem[slab.free_head]
           /\ TakenSlab(slab, f).mem = [slab.mem EXCEPT ![slab.free_head] = f]
           /\ TakenSlab(slab, f).next_partial =
                  IF slab.mem[slab.free_head] = NoEntry THEN 0 ELSE slab.next_partial
           /\ slab.mem[slab.free_head] \in Nat /\ [slab.mem EXCEPT ![slab.free_head] = f] \in Memory
                  => TakenSlab(slab, f) \in Slab
<1> DEFINE s == TakenSlab(slab, f)
           e == slab.free_head
           head == slab.mem[e]
           next == IF head = NoEntry THEN 0 ELSE slab.next_partial
           mem == [slab.mem EXCEPT ![e] = f]
<1>1. s = [slab EXCEPT !.free_head = head, !.used = @ + 1, !.mem = mem, !.next_partial = next]
  BY Zenon DEF TakenSlab
<1>2. next \in Nat
  BY Zenon DEF Slab
<1> HIDE DEF s, head, next, mem
<1>3. /\ s.class = slab.class /\ s.entries = slab.entries
      /\ s.free_head = head /\ s.mem = mem /\ s.next_partial = next
      /\ s = [class |-> slab.class, entries |-> slab.entries, used |-> slab.used + 1, free_head |-> head,
              next_partial |-> next, mem |-> mem]
  BY <1>1, Zenon DEF Slab
<1>4. slab.class \in Class /\ slab.entries \in 1 .. 64 /\ slab.used + 1 \in Int
  BY DEF Slab
<1>5. head \in Nat /\ mem \in Memory => s \in Slab
  BY <1>2, <1>3, <1>4, SMTT(30) DEF Slab
<1> QED BY <1>3, <1>5, Zenon DEF s, head, next, mem

(* partial_remove of the first slab of its class. *)
LEMMA UnlinkedIs ==
    ASSUME NEW S, NEW P, NEW m, NEW b, NEW i \in DOMAIN S, P[S[i].class] = i
    PROVE  partial_remove([slabs |-> S, partial |-> P, objects |-> m, bytes |-> b], i) =
               [slabs |-> [S EXCEPT ![i] = [S[i] EXCEPT !.next_partial = 0]],
                partial |-> [P EXCEPT ![S[i].class] = S[i].next_partial], objects |-> m, bytes |-> b]
<1>1. PICK p, X : p = [slabs |-> S, partial |-> P, objects |-> m, bytes |-> b] /\ X = S[i]
  BY Zenon
<1>2. partial_remove(p, i) = [p EXCEPT !.slabs[i].next_partial = 0, !.partial[X.class] = X.next_partial]
  BY <1>1, Zenon DEF partial_remove
<1>3. partial_remove(p, i) =
               [slabs |-> [S EXCEPT ![i] = [X EXCEPT !.next_partial = 0]],
                partial |-> [P EXCEPT ![X.class] = X.next_partial], objects |-> m, bytes |-> b]
  BY <1>1, <1>2, Zenon
<1> QED BY <1>1, <1>3, Zenon

(* The slab that zpool_store takes an entry of, and the pool before the    *)
(* slab is unlinked.                                                       *)
First(p, f) == p.partial[class_of(SizeOf[f])]
TookSlab(slab, f) ==
    [slab EXCEPT !.free_head = slab.mem[slab.free_head], !.used = @ + 1, !.mem[slab.free_head] = f]
Took(p, f) ==
    [p EXCEPT !.slabs[First(p, f)] = TookSlab(p.slabs[First(p, f)], f),
              !.objects = @ + 1, !.bytes = @ + SizeOf[f]]
Last(slab) == slab.mem[slab.free_head] = NoEntry

LEMMA TakeDef ==
    \A p, f :
        Take(p, f) = [pool |-> IF Last(p.slabs[First(p, f)]) THEN partial_remove(Took(p, f), First(p, f))
                              ELSE Took(p, f),
                      handle |-> [slab |-> First(p, f), entry |-> p.slabs[First(p, f)].free_head,
                                  size |-> SizeOf[f]]]
BY ZenonT(30) DEF Take, First, TookSlab, Took, Last

LEMMA TookSlabIs ==
    ASSUME NEW slab \in Slab, NEW f
    PROVE  /\ TookSlab(slab, f).class = slab.class /\ TookSlab(slab, f).next_partial = slab.next_partial
           /\ Last(slab) => TakenSlab(slab, f) = [TookSlab(slab, f) EXCEPT !.next_partial = 0]
           /\ ~ Last(slab) => TakenSlab(slab, f) = TookSlab(slab, f)
BY Zenon DEF Slab, TookSlab, TakenSlab, Last

LEMMA TookIs ==
    ASSUME NEW p \in Pools, NEW f, First(p, f) \in DOMAIN p.slabs
    PROVE  Took(p, f) = [slabs |-> [p.slabs EXCEPT ![First(p, f)] = TookSlab(p.slabs[First(p, f)], f)],
                         partial |-> p.partial, objects |-> p.objects + 1, bytes |-> p.bytes + SizeOf[f]]
<1> DEFINE i == First(p, f)
           X == TookSlab(p.slabs[i], f)
           n == SizeOf[f]
<1>0. i \in DOMAIN p.slabs
  BY Zenon
<1>1. Took(p, f) = [p EXCEPT !.slabs[i] = X, !.objects = @ + 1, !.bytes = @ + n]
  BY Zenon DEF Took
<1> HIDE DEF i, X, n
<1>2. Took(p, f) = [slabs |-> [p.slabs EXCEPT ![i] = X], partial |-> p.partial,
                    objects |-> p.objects + 1, bytes |-> p.bytes + n]
  BY <1>0, <1>1, Zenon DEF Pools
<1> QED BY <1>2, Zenon DEF i, X, n

LEMMA TakeIs ==
    ASSUME NEW p \in Pools, NEW f, First(p, f) \in DOMAIN p.slabs,
           p.slabs[First(p, f)].class = class_of(SizeOf[f])
    PROVE  /\ Take(p, f).handle = [slab |-> First(p, f), entry |-> p.slabs[First(p, f)].free_head,
                                   size |-> SizeOf[f]]
           /\ Take(p, f).pool =
                  [slabs |-> [p.slabs EXCEPT ![First(p, f)] = TakenSlab(p.slabs[First(p, f)], f)],
                   partial |-> [p.partial EXCEPT ![class_of(SizeOf[f])] =
                                    IF Last(p.slabs[First(p, f)])
                                    THEN p.slabs[First(p, f)].next_partial ELSE @],
                   objects |-> p.objects + 1, bytes |-> p.bytes + SizeOf[f]]
<1> DEFINE i == First(p, f)
           slab == p.slabs[i]
           c == class_of(SizeOf[f])
           X == TookSlab(slab, f)
           q == Took(p, f)
           r == Take(p, f)
<1>1. /\ r.handle = [slab |-> i, entry |-> slab.free_head, size |-> SizeOf[f]]
      /\ r.pool = IF Last(slab) THEN partial_remove(q, i) ELSE q
  BY TakeDef, Zenon
<1>2. slab \in Slab /\ p.slabs \in Seq(Slab) /\ p.partial \in [Class -> Nat]
  BY DEF Pools
<1>3. q = [slabs |-> [p.slabs EXCEPT ![i] = X], partial |-> p.partial,
           objects |-> p.objects + 1, bytes |-> p.bytes + SizeOf[f]]
  BY TookIs, Zenon
<1>4. /\ X.class = c /\ X.next_partial = slab.next_partial
      /\ Last(slab) => TakenSlab(slab, f) = [X EXCEPT !.next_partial = 0]
      /\ ~ Last(slab) => TakenSlab(slab, f) = X
  BY <1>2, TookSlabIs, Zenon
<1>5. CASE Last(slab)
  <2>1. PICK S, Y, n : S = [p.slabs EXCEPT ![i] = X] /\ Y = [X EXCEPT !.next_partial = 0] /\ n = SizeOf[f]
    BY Zenon
  <2>2. i \in DOMAIN S /\ S[i] = X /\ [S EXCEPT ![i] = Y] = [p.slabs EXCEPT ![i] = Y]
    BY <1>2, <2>1, Zenon
  <2>3. p.partial[X.class] = i
    BY <1>4, Zenon DEF First
  <2>4. q = [slabs |-> S, partial |-> p.partial, objects |-> p.objects + 1, bytes |-> p.bytes + n]
    BY <1>3, <2>1, Zenon
  <2> HIDE DEF i, slab, c, X, q, r
  <2>5. partial_remove(q, i) =
            [slabs |-> [S EXCEPT ![i] = Y], partial |-> [p.partial EXCEPT ![X.class] = X.next_partial],
             objects |-> p.objects + 1, bytes |-> p.bytes + n]
    <3>1. i \in DOMAIN S /\ p.partial[S[i].class] = i
      BY <2>2, <2>3, Zenon
    <3>2. partial_remove([slabs |-> S, partial |-> p.partial, objects |-> p.objects + 1,
                          bytes |-> p.bytes + n], i) =
               [slabs |-> [S EXCEPT ![i] = [S[i] EXCEPT !.next_partial = 0]],
                partial |-> [p.partial EXCEPT ![S[i].class] = S[i].next_partial],
                objects |-> p.objects + 1, bytes |-> p.bytes + n]
      BY <3>1, UnlinkedIs
    <3> QED BY <2>1, <2>2, <2>4, <3>2, Zenon
  <2>6. r.pool = [slabs |-> [p.slabs EXCEPT ![i] = TakenSlab(slab, f)],
                  partial |-> [p.partial EXCEPT ![c] = slab.next_partial],
                  objects |-> p.objects + 1, bytes |-> p.bytes + SizeOf[f]]
    BY <1>1, <1>4, <1>5, <2>1, <2>2, <2>5, Zenon
  <2> QED BY <1>1, <1>5, <2>6, Zenon DEF r, i, slab, c
<1>6. CASE ~ Last(slab)
  <2>1. [p.partial EXCEPT ![c] = @] = p.partial
    BY <1>2, Zenon
  <2> QED BY <1>1, <1>3, <1>4, <1>6, <2>1, Zenon
<1> QED BY <1>5, <1>6, Zenon

(* T is S with an entry of slab i, the first of class c, taken. *)
TakenIn(S, T, P, Q, i, c) ==
    /\ c \in Class /\ P \in [Class -> Nat] /\ P[c] = i /\ i # 0
    /\ DOMAIN T = DOMAIN S /\ \A j \in DOMAIN S : j # i => T[j] = S[j]
    /\ T[i].class = S[i].class
    /\ T[i].next_partial = IF T[i].free_head = NoEntry THEN 0 ELSE S[i].next_partial
    /\ Q = [P EXCEPT ![c] = IF T[i].free_head = NoEntry THEN S[i].next_partial ELSE @]

LEMMA PartialListsTaken ==
    ASSUME NEW S, NEW T, NEW P, NEW Q, NEW i, NEW c, TakenIn(S, T, P, Q, i, c), PartialListsHold(S, P)
    PROVE  PartialListsHold(T, Q)
<1>1. i \in Room(S) /\ S[i].class = c /\ c \in Class /\ T[i].class = c
  BY Zenon DEF TakenIn, PartialListsHold
<1>2. \A j \in Room(S) : j # i => j \in DOMAIN S /\ T[j] = S[j]
  BY Zenon DEF Room, TakenIn
<1>3. CASE T[i].free_head # NoEntry
  <2>1. Room(T) = Room(S) /\ \A d \in Class : Q[d] = P[d]
    BY <1>1, <1>3 DEF Room, TakenIn
  <2>2. \A j \in Room(S) : T[j].class = S[j].class /\ T[j].next_partial = S[j].next_partial
    <3>1. T[i].class = S[i].class /\ T[i].next_partial = S[i].next_partial
      BY <1>3, Zenon DEF TakenIn
    <3> QED BY <3>1, <1>2, Zenon
  <2>3. \A d \in Class : Q[d] # 0 => Q[d] \in Room(T) /\ T[Q[d]].class = d
    BY <2>1, <2>2, SMTT(30) DEF PartialListsHold
  <2>4. \A j \in Room(T) : LET n == T[j].next_partial IN
           n # 0 => n \in Room(T) /\ T[n].class = T[j].class /\ n # Q[T[j].class]
    BY <2>1, <2>2 DEF PartialListsHold, TakenIn
  <2>5. \A j, k \in Room(T) : T[j].next_partial # 0 /\ T[j].next_partial = T[k].next_partial => j = k
    BY <2>1, <2>2, Zenon DEF PartialListsHold
  <2> QED BY <2>3, <2>4, <2>5, Zenon DEF PartialListsHold
<1>4. CASE T[i].free_head = NoEntry
  <2>1. Room(T) = Room(S) \ {i}
    BY <1>4, Zenon DEF Room, TakenIn
  <2>2. Q[c] = S[i].next_partial /\ \A d \in Class : d # c => Q[d] = P[d]
    BY <1>4, Zenon DEF TakenIn
  <2>3. P[c] = i
    BY Zenon DEF TakenIn
  <2>4. \A d \in Class : Q[d] # 0 => Q[d] \in Room(T) /\ T[Q[d]].class = d
    <3> SUFFICES ASSUME NEW d \in Class, Q[d] # 0 PROVE Q[d] \in Room(T) /\ T[Q[d]].class = d
      BY Zenon
    <3>1. CASE d = c
      <4>1. Q[d] \in Room(S) /\ S[Q[d]].class = c /\ Q[d] # i
        BY <1>1, <2>2, <2>3, <3>1 DEF PartialListsHold
      <4> QED BY <4>1, <1>2, <2>1, <3>1, Zenon
    <3>2. CASE d # c
      <4>1. Q[d] \in Room(S) /\ S[Q[d]].class = d
        BY <2>2, <3>2, Zenon DEF PartialListsHold
      <4> QED BY <4>1, <1>1, <1>2, <2>1, <3>2, Zenon
    <3> QED BY <3>1, <3>2, Zenon
  <2>5. \A j \in Room(T) : LET n == T[j].next_partial IN
           n # 0 => n \in Room(T) /\ T[n].class = T[j].class /\ n # Q[T[j].class]
    <3> SUFFICES ASSUME NEW j \in Room(T), T[j].next_partial # 0
                 PROVE  /\ T[j].next_partial \in Room(T) /\ T[T[j].next_partial].class = T[j].class
                        /\ T[j].next_partial # Q[T[j].class]
      BY Zenon
    <3>1. j \in Room(S) /\ j # i /\ T[j] = S[j]
      BY <2>1, <1>2, Zenon
    <3>2. PICK n : n = S[j].next_partial
      BY Zenon
    <3>3. n \in Room(S) /\ S[n].class = S[j].class /\ n # P[S[j].class] /\ n # 0
      BY <3>1, <3>2, Zenon DEF PartialListsHold
    <3>4. n # i
      BY <3>3, <1>1, <2>3, Zenon
    <3>5. n # Q[S[j].class]
      <4>1. CASE S[j].class = c
        BY <4>1, <1>1, <2>2, <3>1, <3>2, <3>3, ZenonT(30) DEF PartialListsHold
      <4>2. CASE S[j].class # c
        BY <4>2, <2>2, <3>3 DEF TakenIn
      <4> QED BY <4>1, <4>2, Zenon
    <3> QED BY <3>1, <3>2, <3>3, <3>4, <3>5, <1>2, <2>1, ZenonT(30)
  <2>6. \A j, k \in Room(T) : T[j].next_partial # 0 /\ T[j].next_partial = T[k].next_partial => j = k
    BY <1>2, <2>1, ZenonT(30) DEF PartialListsHold
  <2> QED BY <2>4, <2>5, <2>6, Zenon DEF PartialListsHold
<1> QED BY <1>3, <1>4, Zenon

(* The frame goes where no slot has one. *)
LEMMA TakeSound ==
    ASSUME ZswapConstants, NEW p, NEW H, Sound(p, H), NEW f \in Shrinks,
           First(p, f) # 0, NEW x \in ZSlot, H[x] = Empty
    PROVE  LET r == Take(p, f)
               h == r.handle
           IN
           /\ Sound(r.pool, [H EXCEPT ![x] = h]) /\ Len(r.pool.slabs) = Len(p.slabs)
           /\ h \in Handle /\ r.pool.slabs[h.slab].mem[h.entry] = f
           /\ OthersKept(p.slabs, r.pool.slabs, H, x)
<1> DEFINE r == Take(p, f)
           h == r.handle
           q == r.pool
           K == [H EXCEPT ![x] = h]
           S == p.slabs
           T == q.slabs
           c == class_of(SizeOf[f])
           i == First(p, f)
           slab == S[i]
           e == slab.free_head
           s == TakenSlab(slab, f)
<1>1. /\ p \in Pools /\ S \in Seq(Slab) /\ p.partial \in [Class -> Nat] /\ p.objects \in Int
      /\ p.bytes \in Int /\ HandlesHold(S, H) /\ FreeListsHold(S, H) /\ PartialListsHold(S, p.partial)
      /\ p.objects = Cardinality(Named(H))
  BY Zenon DEF Sound, Pools
<1>2. c \in Class /\ SizeOf[f] \in Nat /\ SizeOf[f] = c + 1 /\ p.partial[c] = i
  <2>1. f \in Object /\ SizeOf[f] \in Nat /\ SizeOf[f] # 0 /\ SizeOf[f] <= ObjectMax /\ ObjectMax \in Nat
    BY SMTT(30) DEF ZswapConstants
  <2> QED BY <2>1 DEF Class, class_of, First
<1> HIDE DEF c, i
<1>3. i \in Room(S) /\ S[i].class = c /\ i \in DOMAIN S /\ e # NoEntry /\ i \in Nat
  BY <1>1, <1>2 DEF PartialListsHold, Room, i
<1>4. slab \in Slab
  BY <1>1, <1>3
<1> HIDE DEF S, slab, e
<1>5. /\ slab.class \in Class /\ slab.entries \in 1 .. 64
      /\ slab.free_head \in Nat /\ slab.next_partial \in Nat /\ slab.used \in Int
  BY <1>4, Zenon DEF Slab
<1>6. /\ slab.mem \in [0 .. slab.entries - 1 -> Object \cup Nat]
      /\ Threaded(slab.entries, e, slab.mem, NamedIn(H, i))
  BY <1>1, <1>3, Zenon DEF FreeListsHold, slab, e
<1>7. e \in 0 .. slab.entries - 1 /\ e \notin NamedIn(H, i) /\ slab.mem[e] \in Nat /\ e \in Nat
  <2>1. e \in (0 .. slab.entries - 1) \ NamedIn(H, i)
    BY <1>3, <1>6, Zenon DEF Threaded
  <2>2. slab.mem[e] \in ((0 .. slab.entries - 1) \ NamedIn(H, i)) \cup {NoEntry}
    BY <1>6, <2>1, Zenon DEF Threaded
  <2> QED BY <2>1, <2>2, <1>5 DEF NoEntry
<1> HIDE DEF s, r, h, q, K, T
<1>8. /\ h = [slab |-> i, entry |-> e, size |-> SizeOf[f]]
      /\ q = [slabs |-> [S EXCEPT ![i] = s],
              partial |-> [p.partial EXCEPT ![c] = IF Last(slab) THEN slab.next_partial ELSE @],
              objects |-> p.objects + 1, bytes |-> p.bytes + SizeOf[f]]
  BY <1>1, <1>3, TakeIs, Zenon DEF r, h, q, S, slab, i, e, s, c
<1>9. /\ h \in Handle /\ h.slab = i /\ h.entry = e /\ h.size = SizeOf[f] /\ h # Empty
  BY <1>2, <1>3, <1>7, <1>8 DEF Handle, ZswapConstants
<1>10. /\ T = [S EXCEPT ![i] = s] /\ q.objects = p.objects + 1 /\ q.bytes = p.bytes + SizeOf[f]
       /\ q.partial = [p.partial EXCEPT ![c] = IF Last(slab) THEN slab.next_partial ELSE @]
  BY <1>8, Zenon DEF T
<1>11. /\ s.class = slab.class /\ s.entries = slab.entries /\ s.free_head = slab.mem[e]
       /\ s.mem = [slab.mem EXCEPT ![e] = f]
       /\ s.next_partial = IF slab.mem[e] = NoEntry THEN 0 ELSE slab.next_partial
       /\ [slab.mem EXCEPT ![e] = f] \in Memory => s \in Slab
  BY <1>4, <1>7, TakenSlabIs, Zenon DEF s, e
<1>12. /\ s.mem \in [0 .. slab.entries - 1 -> Object \cup Nat] /\ s \in Slab
       /\ \A g \in 0 .. slab.entries - 1 : s.mem[g] = IF g = e THEN f ELSE slab.mem[g]
  <2>1. f \in Object \cup Nat
    BY Zenon DEF ZswapConstants
  <2>2. LET new == [slab.mem EXCEPT ![e] = f] IN
        /\ new \in [0 .. slab.entries - 1 -> Object \cup Nat] /\ new \in Memory
        /\ \A g \in 0 .. slab.entries - 1 : new[g] = IF g = e THEN f ELSE slab.mem[g]
    BY <1>5, <1>6, <1>7, <2>1, MemoryUpdate, Zenon
  <2> QED BY <2>2, <1>11, Zenon
<1>13. /\ T \in Seq(Slab) /\ Len(T) = Len(S) /\ DOMAIN T = DOMAIN S
       /\ T[i] = s /\ \A j \in DOMAIN S : j # i => T[j] = S[j]
  <2>1. LET U == [S EXCEPT ![i] = s] IN
        /\ U \in Seq(Slab) /\ Len(U) = Len(S) /\ DOMAIN U = DOMAIN S
        /\ U[i] = s /\ \A j \in DOMAIN S : j # i => U[j] = S[j]
    BY <1>1, <1>3, <1>12, SlabUpdate, Zenon
  <2> QED BY <2>1, <1>10, Zenon
<1>14. K \in [ZSlot -> Handle \cup {Empty}] /\ Named(K) = Named(H) \cup {x} /\ x \notin Named(H)
       /\ K[x] = h /\ \A y \in Named(H) : y # x /\ K[y] = H[y]
  BY <1>1, <1>9, Zenon DEF Named, HandlesHold, K
<1>15. NamedIn(K, i) = NamedIn(H, i) \cup {e} /\ \A j : j # i => NamedIn(K, j) = NamedIn(H, j)
  <2>1. Gains(H, K, x, h)
    BY <1>14, Zenon DEF Gains
  <2> QED BY <2>1, <1>9, NamedInMore
<1>16. HandlesHold(T, K)
  <2>1. \A j \in DOMAIN S : T[j].entries = S[j].entries /\ T[j].class = S[j].class
    BY <1>13, <1>11, Zenon DEF slab
  <2>2. ASSUME NEW y \in Named(K)
        PROVE  /\ K[y].slab \in DOMAIN T /\ K[y].entry < T[K[y].slab].entries
               /\ K[y].size <= T[K[y].slab].class + 1
    <3>1. CASE y = x
      <4>1. T[i].entries = slab.entries /\ T[i].class = c
        BY <1>3, <1>11, <1>13, Zenon DEF slab
      <4>2. e < slab.entries /\ SizeOf[f] <= c + 1
        <5>1. c + 1 \in Int
          BY <1>2
        <5> QED BY <5>1, <1>2, <1>5, <1>7, SMTT(30)
      <4>3. K[y].slab = i /\ K[y].entry = e /\ K[y].size = SizeOf[f]
        BY <1>9, <1>14, <3>1, Zenon
      <4> QED BY <4>1, <4>2, <4>3, <1>3, <1>13, Zenon
    <3>2. CASE y # x
      <4>1. y \in Named(H) /\ K[y] = H[y]
        BY <1>14, <3>2, Zenon
      <4>2. /\ H[y].slab \in DOMAIN S /\ H[y].entry < S[H[y].slab].entries
            /\ H[y].size <= S[H[y].slab].class + 1
        BY <4>1, <1>1, Zenon DEF HandlesHold
      <4> QED BY <4>1, <4>2, <2>1, <1>13, Zenon
    <3> QED BY <3>1, <3>2, Zenon
  <2>3. ASSUME NEW y \in Named(K), NEW z \in Named(K), K[y].slab = K[z].slab, K[y].entry = K[z].entry
        PROVE  y = z
    <3>1. \A w \in Named(H) : ~ (H[w].slab = i /\ H[w].entry = e)
      BY <1>7, NamedInIs, Zenon
    <3>2. \A w \in Named(K) : w = x \/ (w \in Named(H) /\ K[w] = H[w])
      BY <1>14, Zenon
    <3>3. K[x].slab = i /\ K[x].entry = e
      BY <1>9, <1>14, Zenon
    <3>4. CASE y = x \/ z = x
      BY <2>3, <3>1, <3>2, <3>3, <3>4, Zenon
    <3>5. CASE y # x /\ z # x
      BY <2>3, <3>2, <3>5, <1>1, Zenon DEF HandlesHold
    <3> QED BY <3>4, <3>5, Zenon
  <2> QED BY <1>14, <2>2, <2>3, Zenon DEF HandlesHold
<1>17. FreeListsHold(T, K)
  <2>1. Threaded(slab.entries, slab.mem[e], s.mem, NamedIn(H, i) \cup {e})
    BY <1>3, <1>5, <1>6, <1>12, ThreadedTake, Zenon
  <2>2. ASSUME NEW j \in DOMAIN T
        PROVE  /\ T[j].mem \in [0 .. T[j].entries - 1 -> Object \cup Nat]
               /\ Threaded(T[j].entries, T[j].free_head, T[j].mem, NamedIn(K, j))
    <3>1. CASE j = i
      BY <2>1, <3>1, <1>11, <1>12, <1>13, <1>15, Zenon
    <3>2. CASE j # i
      BY <3>2, <1>1, <1>13, <1>15, Zenon DEF FreeListsHold
    <3> QED BY <3>1, <3>2, Zenon
  <2> QED BY <2>2, Zenon DEF FreeListsHold
<1>18. PartialListsHold(T, q.partial)
  <2>1. T[i].class = S[i].class /\ i # 0
    BY <1>11, <1>13, Zenon DEF slab, i
  <2>2. T[i].free_head = NoEntry <=> Last(slab)
    BY <1>11, <1>13, Zenon DEF Last, e
  <2>3. T[i].next_partial = IF T[i].free_head = NoEntry THEN 0 ELSE S[i].next_partial
    BY <1>11, <1>13, Zenon DEF slab
  <2>4. q.partial = [p.partial EXCEPT ![c] = IF T[i].free_head = NoEntry THEN S[i].next_partial ELSE @]
    <3>1. CASE Last(slab)
      BY <1>10, <2>2, <3>1, Zenon DEF slab
    <3>2. CASE ~ Last(slab)
      BY <1>10, <2>2, <3>2, Zenon DEF slab
    <3> QED BY <3>1, <3>2, Zenon
  <2>5. TakenIn(S, T, p.partial, q.partial, i, c)
    BY <1>1, <1>2, <1>13, <2>1, <2>3, <2>4, Zenon DEF TakenIn
  <2> QED BY <1>1, <2>5, PartialListsTaken, Zenon
<1>19. q.objects = Cardinality(Named(K))
  <2>1. IsFiniteSet(Named(H))
    BY FS_Subset, Named(H) \subseteq ZSlot, Zenon DEF Named, ZswapConstants
  <2>2. Cardinality(Named(H) \cup {x}) = Cardinality(Named(H)) + 1
    BY <1>14, <2>1, FS_AddElement, Zenon
  <2> QED BY <2>2, <1>1, <1>10, <1>14, Zenon
<1>20. q \in Pools
  <2>1. [p.partial EXCEPT ![c] = IF Last(slab) THEN slab.next_partial ELSE @] \in [Class -> Nat]
    BY <1>1, <1>5, Zenon
  <2>2. p.objects + 1 \in Int /\ p.bytes + SizeOf[f] \in Int
    BY <1>1, <1>2
  <2>3. [S EXCEPT ![i] = s] \in Seq(Slab)
    BY <1>10, <1>13, Zenon
  <2> QED BY <1>8, <2>1, <2>2, <2>3, Zenon DEF Pools
<1>21. OthersKept(S, T, H, x)
  <2> SUFFICES ASSUME NEW y \in Named(H), y # x
               PROVE  T[H[y].slab].mem[H[y].entry] = S[H[y].slab].mem[H[y].entry]
    BY Zenon DEF OthersKept
  <2>1. /\ H[y].slab \in DOMAIN S /\ H[y].entry < S[H[y].slab].entries
        /\ H[y].entry \in 0 .. S[H[y].slab].entries - 1 /\ H[y].entry \in NamedIn(H, H[y].slab)
    <3>1. H[y].slab \in DOMAIN S /\ H[y].entry < S[H[y].slab].entries
      BY <1>1, Zenon DEF HandlesHold
    <3> QED BY <3>1, <1>1, EntryIs, Zenon
  <2>2. CASE H[y].slab # i
    BY <2>1, <2>2, <1>13, Zenon
  <2>3. CASE H[y].slab = i
    <3>1. H[y].entry # e /\ H[y].entry \in 0 .. slab.entries - 1
      BY <1>7, <2>1, <2>3, Zenon DEF slab
    <3> QED BY <3>1, <2>3, <1>12, <1>13, Zenon DEF slab
  <2> QED BY <2>2, <2>3, Zenon
<1>22. T[h.slab].mem[h.entry] = f
  BY <1>7, <1>9, <1>12, <1>13, Zenon
<1>23. Sound(q, K)
  BY <1>16, <1>17, <1>18, <1>19, <1>20, Zenon DEF Sound, T
<1> QED BY <1>9, <1>13, <1>21, <1>22, <1>23, Zenon DEF r, h, q, K, S, T

----------------------------------------------------------------------------
(* What the slots load.                                                    *)
Loads(S, H) == [x \in ZSlot |-> IF H[x] # Empty THEN S[H[x].slab].mem[H[x].entry] ELSE Empty]

Put(H, x, v) == [H EXCEPT ![x] = v]

LEMMA LoadsLess ==
    ASSUME NEW S, NEW T, NEW H, NEW x \in ZSlot, OthersKept(S, T, H, x), H \in [ZSlot -> Handle \cup {Empty}]
    PROVE  Loads(T, Put(H, x, Empty)) = Put(Loads(S, H), x, Empty)
<1>1. ASSUME NEW y \in ZSlot
      PROVE  Loads(T, [H EXCEPT ![x] = Empty])[y] = IF y = x THEN Empty ELSE Loads(S, H)[y]
  <2>1. CASE y = x
    BY <2>1, Zenon DEF Loads
  <2>2. CASE y # x
    <3>1. [H EXCEPT ![x] = Empty][y] = H[y]
      BY <2>2, Zenon
    <3>2. H[y] # Empty => T[H[y].slab].mem[H[y].entry] = S[H[y].slab].mem[H[y].entry]
      BY <2>2, Zenon DEF OthersKept, Named
    <3> QED BY <2>2, <3>1, <3>2, Zenon DEF Loads
  <2> QED BY <2>1, <2>2, Zenon
<1>2. Loads(T, [H EXCEPT ![x] = Empty]) \in [ZSlot -> {Loads(T, [H EXCEPT ![x] = Empty])[y] : y \in ZSlot}]
  BY Zenon DEF Loads
<1>3. DOMAIN Loads(S, H) = ZSlot /\ DOMAIN Loads(T, [H EXCEPT ![x] = Empty]) = ZSlot
  BY Zenon DEF Loads
<1> QED BY <1>1, <1>2, <1>3, Zenon DEF Loads, Put

LEMMA LoadsMore ==
    ASSUME NEW S, NEW T, NEW H, NEW x \in ZSlot, OthersKept(S, T, H, x), H \in [ZSlot -> Handle \cup {Empty}],
           NEW h \in Handle, Empty \notin Handle, NEW f, T[h.slab].mem[h.entry] = f
    PROVE  Loads(T, Put(H, x, h)) = Put(Loads(S, H), x, f)
<1>1. ASSUME NEW y \in ZSlot
      PROVE  Loads(T, [H EXCEPT ![x] = h])[y] = IF y = x THEN f ELSE Loads(S, H)[y]
  <2>1. CASE y = x
    <3>1. [H EXCEPT ![x] = h][y] = h /\ h # Empty
      BY <2>1, Zenon
    <3> QED BY <2>1, <3>1, Zenon DEF Loads
  <2>2. CASE y # x
    <3>1. [H EXCEPT ![x] = h][y] = H[y]
      BY <2>2, Zenon
    <3>2. H[y] # Empty => T[H[y].slab].mem[H[y].entry] = S[H[y].slab].mem[H[y].entry]
      BY <2>2, Zenon DEF OthersKept, Named
    <3> QED BY <2>2, <3>1, <3>2, Zenon DEF Loads
  <2> QED BY <2>1, <2>2, Zenon
<1>3. DOMAIN Loads(S, H) = ZSlot /\ DOMAIN Loads(T, [H EXCEPT ![x] = h]) = ZSlot
  BY Zenon DEF Loads
<1> QED BY <1>1, <1>3, Zenon DEF Loads, Put

(* zpool_store: refused, or the frame is in the pool, which has grown      *)
(* within its cap.                                                         *)
Within(p) == Len(p.slabs) * ObjectMax <= max_bytes
Stored(p, H, x, f, r) ==
    /\ r.handle \in Handle /\ Sound(r.pool, [H EXCEPT ![x] = r.handle])
    /\ r.pool.slabs[r.handle.slab].mem[r.handle.entry] = f
    /\ OthersKept(p.slabs, r.pool.slabs, H, x)

LEMMA StoreSound ==
    ASSUME ZswapConstants, max_bytes \in Nat, NEW p, NEW H, Sound(p, H), Within(p), NEW f \in Shrinks,
           NEW x \in ZSlot, H[x] = Empty
    PROVE  /\ Within(zpool_store(p, f).pool)
           /\ \/ zpool_store(p, f).handle = Empty /\ zpool_store(p, f).pool = p
              \/ Stored(p, H, x, f, zpool_store(p, f))
<1> DEFINE c == class_of(SizeOf[f])
           n == slab_new(p, c)
<1>1. c \in Class
  <2>1. f \in Object /\ SizeOf[f] \in Nat /\ SizeOf[f] # 0 /\ SizeOf[f] <= ObjectMax /\ ObjectMax \in Nat
    BY SMTT(30) DEF ZswapConstants
  <2> QED BY <2>1 DEF Class, class_of
<1>2. CASE First(p, f) # 0
  <2>1. zpool_store(p, f) = Take(p, f)
    BY <1>2, Zenon DEF zpool_store, First
  <2>2. Stored(p, H, x, f, Take(p, f)) /\ Len(Take(p, f).pool.slabs) = Len(p.slabs)
    BY <1>2, TakeSound, Zenon DEF Stored
  <2> QED BY <2>1, <2>2, Zenon DEF Within
<1>3. CASE First(p, f) = 0 /\ CanGrow(p)
  <2>1. zpool_store(p, f) = Take(n, f)
    BY <1>3, Zenon DEF zpool_store, First
  <2>2. /\ Sound(n, H) /\ Len(n.slabs) = Len(p.slabs) + 1
        /\ \A j \in DOMAIN p.slabs : n.slabs[j] = p.slabs[j]
        /\ n.partial[c] = Len(p.slabs) + 1
    BY <1>1, <1>3, NewSound, Zenon DEF First
  <2>3. Len(p.slabs) \in Nat /\ HandlesHold(p.slabs, H)
    BY DEF Sound, Pools
  <2> HIDE DEF n
  <2>4. First(n, f) # 0
    BY <2>2, <2>3 DEF First
  <2>5. /\ Stored(n, H, x, f, Take(n, f)) /\ Len(Take(n, f).pool.slabs) = Len(p.slabs) + 1
    BY <2>2, <2>4, TakeSound, ZenonT(30) DEF Stored
  <2>6. Within(Take(n, f).pool)
    BY <1>3, <2>3, <2>5 DEF CanGrow, Within, ZswapConstants
  <2>7. ASSUME NEW T, OthersKept(n.slabs, T, H, x) PROVE OthersKept(p.slabs, T, H, x)
    BY <2>2, <2>3, <2>7, Zenon DEF OthersKept, HandlesHold
  <2>8. Stored(p, H, x, f, Take(n, f))
    BY <2>5, <2>7, Zenon DEF Stored
  <2> QED BY <2>1, <2>6, <2>8, Zenon
<1>4. CASE First(p, f) = 0 /\ ~ CanGrow(p)
  BY <1>4, Zenon DEF zpool_store, First
<1> QED BY <1>2, <1>3, <1>4, Zenon

----------------------------------------------------------------------------
(* Everything stored is in a pool that is on, for a slot of the area; the  *)
(* pool is sound and within its cap.                                       *)
ZInv ==
    /\ on \in BOOLEAN /\ max_bytes \in Caps \cup {0} /\ slot_count \in Counts \cup {0}
    /\ Sound(Pool, slots) /\ Within(Pool)
    /\ \A x \in Named(slots) : on /\ x < slot_count

LEMMA PoolIs ==
    Pool.slabs = slabs /\ Pool.partial = partial /\ Pool.objects = objects /\ Pool.bytes = stored_bytes
BY Zenon DEF Pool

LEMMA ZInvTypes ==
    ASSUME ZswapConstants, ZInv
    PROVE  max_bytes \in Nat /\ slots \in [ZSlot -> Handle \cup {Empty}] /\ Empty \notin Handle
BY DEF ZswapConstants, ZInv, Sound, HandlesHold, Handle

LEMMA DecodesIs ==
    ASSUME ZswapConstants, ZInv, NEW x \in ZSlot, slots[x] # Empty
    PROVE  Decodes(slots[x])
<1>1. x \in Named(slots) /\ HandlesHold(slabs, slots) /\ slabs \in Seq(Slab)
  BY PoolIs, Zenon DEF ZInv, Named, Sound, Pools
<1>2. /\ slots[x].slab \in DOMAIN slabs /\ slots[x].entry < slabs[slots[x].slab].entries
      /\ slots[x].size <= slabs[slots[x].slab].class + 1
  BY <1>1, Zenon DEF HandlesHold
<1> QED BY <1>1, <1>2 DEF Decodes

LEMMA LoadsAre ==
    ASSUME ZswapConstants, ZInv
    PROVE  [s \in ZSlot |-> zswap_load(s)] = Loads(slabs, slots)
<1>1. ASSUME NEW x \in ZSlot
      PROVE  zswap_load(x) = IF slots[x] # Empty THEN slabs[slots[x].slab].mem[slots[x].entry] ELSE Empty
  <2>1. CASE slots[x] = Empty
    BY <2>1, Zenon DEF zswap_load, Decodes
  <2>2. CASE slots[x] # Empty
    <3>1. Decodes(slots[x]) /\ on /\ x < slot_count
      BY <2>2, DecodesIs, Zenon DEF ZInv, Named
    <3> QED BY <2>2, <3>1, Zenon DEF zswap_load
  <2> QED BY <2>1, <2>2, Zenon
<1> QED BY <1>1, Zenon DEF Loads

LEMMA TypeOKIs ==
    ASSUME ZswapConstants, ZInv
    PROVE  ZTypeOK
<1>1. partial \in [Class -> 0 .. Len(slabs)]
  <2>1. PartialListsHold(slabs, partial) /\ partial \in [Class -> Nat] /\ slabs \in Seq(Slab)
    BY PoolIs, Zenon DEF ZInv, Sound, Pools
  <2>2. \A c \in Class : partial[c] # 0 => partial[c] \in 1 .. Len(slabs)
    BY <2>1 DEF PartialListsHold, Room
  <2> QED BY <2>1, <2>2
<1>2. Len(slabs) * ObjectMax <= max_bytes
  BY PoolIs, Zenon DEF ZInv, Within
<1> QED BY <1>1, <1>2, DecodesIs, Zenon DEF ZInv, ZTypeOK

(* An empty pool. *)
LEMMA EmptySound ==
    ASSUME ZswapConstants, NEW p, NEW H, H = [s \in ZSlot |-> Empty],
           p = [slabs |-> <<>>, partial |-> [c \in Class |-> 0], objects |-> 0, bytes |-> 0]
    PROVE  Sound(p, H) /\ Len(p.slabs) = 0 /\ Named(H) = {}
<1>1. Named(H) = {}
  BY Zenon DEF Named
<1>2. /\ p.slabs = <<>> /\ p.partial = [c \in Class |-> 0] /\ p.objects = 0 /\ p \in Pools
  BY DEF Pools
<1>3. HandlesHold(<<>>, H)
  BY <1>1, Zenon DEF HandlesHold
<1>4. FreeListsHold(<<>>, H)
  BY DEF FreeListsHold
<1>5. PartialListsHold(<<>>, [c \in Class |-> 0])
  BY DEF PartialListsHold, Room
<1>6. Cardinality(Named(H)) = 0
  BY <1>1, FS_EmptySet, Zenon
<1> QED BY <1>1, <1>2, <1>3, <1>4, <1>5, <1>6, SMTT(30) DEF Sound

LEMMA ZInitInv == ASSUME ZswapConstants, ZInit PROVE ZInv
<1>1. Pool = [slabs |-> <<>>, partial |-> [c \in Class |-> 0], objects |-> 0, bytes |-> 0]
  BY Zenon DEF ZInit, Pool
<1>2. max_bytes \in Nat
  BY Zenon DEF ZInit
<1>3. Sound(Pool, slots) /\ Within(Pool) /\ Named(slots) = {}
  <2>1. Sound(Pool, slots) /\ Len(Pool.slabs) = 0 /\ Named(slots) = {}
    BY <1>1, EmptySound, Zenon DEF ZInit
  <2> QED BY <1>2, <2>1 DEF Within, ZswapConstants
<1> QED BY <1>3, Zenon DEF ZInit, ZInv

(* Steps: what the invariant needs of them, and what they do to the loads. *)
LEMMA SetPoolIs ==
    ASSUME NEW p \in Pools, SetPool(p)
    PROVE  Pool' = p /\ slabs' = p.slabs
BY Zenon DEF Pools, SetPool, Pool

LEMMA ForgetInv ==
    ASSUME ZswapConstants, ZInv, NEW s \in ZSlot, zswap_forget(s)
    PROVE  ZInv' /\ Loads(slabs', slots') = [Loads(slabs, slots) EXCEPT ![s] = Empty]
<1> DEFINE q == zpool_free(Pool, slots[s])
           K == [slots EXCEPT ![s] = Empty]
<1>1. s \in Named(slots) /\ Sound(Pool, slots)
  BY Zenon DEF zswap_forget, Named, ZInv
<1>2. Sound(q, K) /\ Len(q.slabs) = Len(slabs) /\ OthersKept(slabs, q.slabs, slots, s)
  BY <1>1, FreeSound, PoolIs, Zenon
<1> HIDE DEF q
<1>3. q \in Pools /\ SetPool(q) /\ slots' = K
  BY <1>2, Zenon DEF Sound, zswap_forget, q, Emptied
<1>4. Pool' = q /\ slabs' = q.slabs
  BY <1>3, SetPoolIs, Zenon
<1>5. Sound(Pool', slots') /\ Within(Pool)'
  BY <1>2, <1>3, <1>4, PoolIs, SMTT(30) DEF Within, ZInv, zswap_forget
<1>6. \A x \in Named(slots') : x \in Named(slots)
  BY <1>3, ZInvTypes, Zenon DEF Named
<1>7. ZInv'
  BY <1>5, <1>6, Zenon DEF ZInv, zswap_forget
<1>8. slots \in [ZSlot -> Handle \cup {Empty}]
  BY ZInvTypes, Zenon
<1>9. Loads(q.slabs, Put(slots, s, Empty)) = Put(Loads(slabs, slots), s, Empty)
  BY <1>2, <1>8, LoadsLess
<1> QED BY <1>3, <1>4, <1>7, <1>9, Zenon DEF Put

LEMMA StoreInv ==
    ASSUME ZswapConstants, ZInv, NEW s \in ZSlot, NEW f \in Object, zswap_store(s, f)
    PROVE  /\ ZInv'
           /\ \/ Loads(slabs', slots') = [Loads(slabs, slots) EXCEPT ![s] = Empty]
              \/ Loads(slabs', slots') = [Loads(slabs, slots) EXCEPT ![s] = f]
<1> DEFINE p == IF slots[s] # Empty THEN zpool_free(Pool, slots[s]) ELSE Pool
           K == [slots EXCEPT ![s] = Empty]
           r == zpool_store(p, f)
<1>1. Sound(Pool, slots) /\ Within(Pool) /\ max_bytes \in Nat /\ on /\ s < slot_count
  BY ZInvTypes, Zenon DEF ZInv, zswap_store
<1>2. /\ Sound(p, K) /\ Within(p)
      /\ Loads(p.slabs, K) = [Loads(slabs, slots) EXCEPT ![s] = Empty]
  <2>1. CASE slots[s] # Empty
    <3>1. s \in Named(slots)
      BY <2>1, Zenon DEF Named
    <3>2. p = zpool_free(Pool, slots[s])
      BY <2>1, Zenon
    <3>3. Sound(p, K) /\ Len(p.slabs) = Len(slabs) /\ OthersKept(slabs, p.slabs, slots, s)
      BY <1>1, <3>1, <3>2, FreeSound, PoolIs, Zenon
    <3> HIDE DEF p
    <3>4. slots \in [ZSlot -> Handle \cup {Empty}]
      BY ZInvTypes, Zenon
    <3>5. Loads(p.slabs, Put(slots, s, Empty)) = Put(Loads(slabs, slots), s, Empty)
      BY <3>3, <3>4, LoadsLess
    <3>6. Within(p)
      BY <1>1, <3>3, PoolIs, Zenon DEF Within
    <3> QED BY <3>3, <3>5, <3>6, Zenon DEF Put
  <2>2. CASE slots[s] = Empty
    <3>1. p = Pool /\ K = slots
      BY <2>2, ZInvTypes, Zenon
    <3>2. Loads(slabs, slots) = [Loads(slabs, slots) EXCEPT ![s] = Empty]
      BY <2>2, Zenon DEF Loads
    <3> QED BY <1>1, <3>1, <3>2, PoolIs, Zenon
  <2> QED BY <2>1, <2>2, Zenon
<1>3. /\ IF f \notin Shrinks
         THEN SetPool(p) /\ slots' = K
         ELSE SetPool(r.pool) /\ slots' = [K EXCEPT ![s] = IF r.handle = Empty THEN @ ELSE r.handle]
      /\ UNCHANGED <<on, max_bytes, slot_count>>
  BY Zenon DEF zswap_store, Emptied
<1>4. K \in [ZSlot -> Handle \cup {Empty}] /\ K[s] = Empty /\ \A x \in Named(K) : on /\ x < slot_count
  BY ZInvTypes, Zenon DEF ZInv, Named
<1> HIDE DEF p, K, r
<1>5. CASE SetPool(p) /\ slots' = K
  <2>1. Pool' = p /\ slabs' = p.slabs
    BY <1>2, <1>5, SetPoolIs, Zenon DEF Sound
  <2>2. Sound(Pool', slots') /\ Within(Pool)'
    BY <1>2, <1>3, <1>5, <2>1, Zenon DEF Within
  <2>3. ZInv'
    BY <1>3, <1>4, <1>5, <2>2, Zenon DEF ZInv
  <2> QED BY <1>2, <1>5, <2>1, <2>3, Zenon
<1>6. CASE f \in Shrinks
  <2>1. /\ Within(r.pool)
        /\ \/ r.handle = Empty /\ r.pool = p
           \/ Stored(p, K, s, f, r)
    BY <1>1, <1>2, <1>4, <1>6, StoreSound, ZenonT(30) DEF r
  <2>2. SetPool(r.pool) /\ slots' = [K EXCEPT ![s] = IF r.handle = Empty THEN @ ELSE r.handle]
    BY <1>3, <1>6, Zenon
  <2>3. CASE r.handle = Empty /\ r.pool = p
    <3>1. slots' = K
      BY <1>4, <2>2, <2>3, Zenon
    <3> QED BY <1>5, <2>2, <2>3, <3>1, Zenon
  <2>4. CASE Stored(p, K, s, f, r)
    <3>1. slots' = [K EXCEPT ![s] = r.handle] /\ r.handle # Empty
      BY <1>4, <2>2, <2>4, ZInvTypes, Zenon DEF Stored
    <3>2. Pool' = r.pool /\ slabs' = r.pool.slabs
      BY <2>2, <2>4, SetPoolIs, Zenon DEF Stored, Sound
    <3>3. Sound(Pool', slots') /\ Within(Pool)'
      BY <1>3, <2>1, <2>4, <3>1, <3>2, ZenonT(30) DEF Stored, Within
    <3>4. \A x \in Named(slots') : on /\ x < slot_count
      BY <1>1, <1>4, <3>1, Zenon DEF Named
    <3>5. ZInv'
      BY <1>3, <3>3, <3>4, Zenon DEF ZInv
    <3>6. Loads(slabs', slots') = [Loads(p.slabs, K) EXCEPT ![s] = f]
      <4>1. /\ OthersKept(p.slabs, r.pool.slabs, K, s) /\ r.handle \in Handle /\ Empty \notin Handle
            /\ r.pool.slabs[r.handle.slab].mem[r.handle.entry] = f
        BY <2>4, ZInvTypes, ZenonT(30) DEF Stored
      <4>2. Loads(r.pool.slabs, Put(K, s, r.handle)) = Put(Loads(p.slabs, K), s, f)
        BY <1>4, <4>1, LoadsMore, SMTT(30)
      <4> QED BY <3>1, <3>2, <4>2, Zenon DEF Put
    <3>7. Loads(slabs', slots') = [Loads(slabs, slots) EXCEPT ![s] = f]
      <4>1. DOMAIN Loads(slabs, slots) = ZSlot
        BY Zenon DEF Loads
      <4> QED BY <1>2, <3>6, <4>1, Zenon
    <3> QED BY <3>5, <3>7, Zenon
  <2> QED BY <2>1, <2>3, <2>4, Zenon
<1> QED BY <1>3, <1>5, <1>6, Zenon

LEMMA RebuildInv ==
    ASSUME ZswapConstants, ZInv, NEW cap \in Caps \cup {0}, NEW n \in Counts \cup {0}, Rebuild(cap, n)
    PROVE  ZInv' /\ Loads(slabs', slots') = Loads(slabs, slots)
<1>1. Named(slots) = {}
  <2>1. CASE on
    <3>1. Cardinality(Named(slots)) = 0
      BY <2>1, PoolIs, Zenon DEF Rebuild, teardown_ok, ZInv, Sound
    <3>2. IsFiniteSet(Named(slots))
      BY FS_Subset, Named(slots) \subseteq ZSlot, Zenon DEF Named, ZswapConstants
    <3> QED BY <3>1, <3>2, FS_EmptySet, Zenon
  <2>2. CASE ~ on
    BY <2>2, Zenon DEF ZInv
  <2> QED BY <2>1, <2>2, Zenon
<1>2. Sound(Pool', slots') /\ Within(Pool)' /\ Named(slots') = {}
  <2>1. /\ Pool' = [slabs |-> <<>>, partial |-> [c \in Class |-> 0], objects |-> 0, bytes |-> 0]
        /\ slots' = [s \in ZSlot |-> Empty] /\ max_bytes' \in Nat
    BY DEF Rebuild, NewPool, Pool, ZswapConstants
  <2>2. Sound(Pool', slots') /\ Len(Pool'.slabs) = 0 /\ Named(slots') = {}
    BY <2>1, EmptySound, Zenon
  <2>3. 0 * ObjectMax = 0 /\ 0 <= max_bytes'
    BY <2>1, ObjectMax \in 1 .. 64, SMT DEF ZswapConstants
  <2>4. Within(Pool)'
    BY <2>2, <2>3, Zenon DEF Within
  <2> QED BY <2>2, <2>4, Zenon
<1>3. ZInv'
  BY <1>2, Zenon DEF ZInv, Rebuild
<1>4. Loads(slabs', slots') = Loads(slabs, slots)
  BY <1>1, <1>2, Zenon DEF Loads, Named
<1> QED BY <1>3, <1>4, Zenon

----------------------------------------------------------------------------
LEMMA ZNextInv ==
    ASSUME ZswapConstants, ZInv, ZNext
    PROVE  /\ ZInv'
           /\ \/ Loads(slabs', slots') = Loads(slabs, slots)
              \/ \E s \in ZSlot : \/ Loads(slabs', slots') = [Loads(slabs, slots) EXCEPT ![s] = Empty]
                                 \/ \E f \in Object :
                                        Loads(slabs', slots') = [Loads(slabs, slots) EXCEPT ![s] = f]
<1>1. CASE \E s \in ZSlot : zswap_forget(s)
  BY <1>1, ForgetInv, Zenon
<1>2. CASE \E s \in ZSlot, f \in Object : zswap_store(s, f)
  <2>1. PICK s \in ZSlot, f \in Object : zswap_store(s, f)
    BY <1>2, Zenon
  <2>2. /\ ZInv'
        /\ \/ Loads(slabs', slots') = [Loads(slabs, slots) EXCEPT ![s] = Empty]
           \/ Loads(slabs', slots') = [Loads(slabs, slots) EXCEPT ![s] = f]
    BY <2>1, StoreInv, Zenon
  <2> QED BY <2>2, Zenon
<1>3. CASE \E cap \in Caps : zswap_configure(cap)
  <2>1. PICK cap \in Caps : Rebuild(cap, slot_count)
    BY <1>3, Zenon DEF zswap_configure
  <2>2. slot_count \in Counts \cup {0} /\ cap \in Caps \cup {0}
    BY Zenon DEF ZInv
  <2> QED BY <2>1, <2>2, RebuildInv, Zenon
<1>4. CASE \E n \in Counts : zswap_set_slot_geometry(n)
  <2>1. PICK n \in Counts : Rebuild(max_bytes, n)
    BY <1>4, Zenon DEF zswap_set_slot_geometry
  <2>2. max_bytes \in Caps \cup {0} /\ n \in Counts \cup {0}
    BY Zenon DEF ZInv
  <2> QED BY <2>1, <2>2, RebuildInv, Zenon
<1> QED BY <1>1, <1>2, <1>3, <1>4, Zenon DEF ZNext

LEMMA ZStutter ==
    ASSUME ZInv, UNCHANGED zvars
    PROVE  ZInv' /\ Loads(slabs', slots') = Loads(slabs, slots)
BY Zenon DEF zvars, ZInv, Pool, Within

(* The pool is within its cap, and a slot's handle is one it has an entry  *)
(* for, whatever is stored, forgotten or configured (zpool.c:150).         *)
THEOREM PoolWithinCap ==
    ASSUME ZswapConstants
    PROVE  ZSpec => []ZTypeOK
<1>1. ZInit => ZInv
  BY ZInitInv, Zenon
<1>2. ZInv /\ [ZNext]_zvars => ZInv'
  BY ZNextInv, ZStutter, Zenon
<1>3. ZInv => ZTypeOK
  BY TypeOKIs, Zenon
<1> QED BY <1>1, <1>2, <1>3, PTL DEF ZSpec

LoadsExact == [s \in ZSlot |-> zswap_load(s)] = Loads(slabs, slots)

(* A slot loads the frame last stored in it until it is forgotten: no      *)
(* operation on another slot, no reuse of an entry, no growth of the pool  *)
(* and no reconfiguration changes it (zswap.c:91).                         *)
THEOREM TierKeepsFrames ==
    ASSUME ZswapConstants
    PROVE  ZSpec => KeepsFrames
<1>1. ZInit => ZInv
  BY ZInitInv
<1>2. ZInv /\ [ZNext]_zvars => ZInv'
  BY ZNextInv, ZStutter
<1>3. ZInv => LoadsExact
  BY LoadsAre, Zenon DEF LoadsExact
<1>4. ZInit => Tier!Init
  BY Zenon DEF ZInit, Tier!Init, zswap_load
<1>5. ZInv /\ LoadsExact /\ LoadsExact' /\ [ZNext]_zvars => [Tier!Next]_([s \in ZSlot |-> zswap_load(s)])
  <2> SUFFICES ASSUME ZInv, LoadsExact, LoadsExact', [ZNext]_zvars
               PROVE  Tier!Next \/ UNCHANGED [s \in ZSlot |-> zswap_load(s)]
    BY Zenon
  <2> DEFINE was == Loads(slabs, slots)
             is == Loads(slabs', slots')
  <2>1. [s \in ZSlot |-> zswap_load(s)] = was /\ [s \in ZSlot |-> zswap_load(s)]' = is
    BY Zenon DEF LoadsExact
  <2>2. \/ is = was
        \/ \E s \in ZSlot : is = [was EXCEPT ![s] = Empty] \/ \E f \in Object : is = [was EXCEPT ![s] = f]
    BY ZNextInv, ZStutter, Zenon
  <2> HIDE DEF was, is
  <2> QED BY <2>1, <2>2, Zenon DEF Tier!Next, Tier!Clear, Tier!Keep
<1> QED BY <1>1, <1>2, <1>3, <1>4, <1>5, PTL DEF ZSpec, KeepsFrames, Tier!Spec
=============================================================================
