------------------------------- MODULE Zswap -------------------------------
(***************************************************************************)
(* kernel/zpool.c and kernel/zswap.c: the compressed tier of swap.  A slab *)
(* is ObjectMax granules cut into equal entries of one class; its free     *)
(* entries form a list threaded through the entries themselves, and the    *)
(* slabs of a class with a free entry form the class's partial list.  A    *)
(* slot of the swap area names its entry by a handle.  Every operation     *)
(* runs under zswap_lock.  A size is a number of granules, rounded up; a   *)
(* frame that compresses at all, by less than a granule even, is stored.   *)
(***************************************************************************)
EXTENDS Integers, Sequences, FiniteSets

CONSTANTS
    ZSlot,      \* the slots of the swap area, from 0
    Counts,     \* the slot counts an area is built with
    Object,     \* frames to store
    SizeOf,     \* what each compresses to
    Shrinks,    \* the ones whose encoding is shorter than a frame, in bytes
    ObjectMax,  \* the size of a frame, and of a slab
    Caps,       \* the caps, in granules, it is configured with; 0 is off
    Empty

(* What the constants are: a frame is at most ZPOOL_CLASSES granules, and  *)
(* no handle is ZPOOL_HANDLE_NONE.                                         *)
ZswapConstants ==
    /\ ObjectMax \in 1 .. 64
    /\ IsFiniteSet(ZSlot) /\ ZSlot \subseteq Nat
    /\ Counts \subseteq Nat /\ Caps \subseteq Nat
    /\ SizeOf \in [Object -> Nat \ {0}]
    /\ Shrinks \subseteq Object /\ \A f \in Shrinks : SizeOf[f] <= ObjectMax
    /\ Empty \notin [slab : Nat, entry : Nat, size : Nat]

VARIABLES
    on,         \* zswap_pool is there
    max_bytes, slot_count,
    slabs,      \* [class, entries, used, free_head, next_partial, mem]
    partial,    \* the first slab of each class's partial list, or 0
    objects, stored_bytes,
    slots       \* the handle of each slot, or Empty

pool == <<slabs, partial, objects, stored_bytes>>
zvars == <<on, max_bytes, slot_count, slabs, partial, objects, stored_bytes, slots>>

Class == 0 .. ObjectMax - 1
NoEntry == 65535
class_of(size) == size - 1

NewPool ==
    /\ slabs' = <<>> /\ partial' = [c \in Class |-> 0]
    /\ objects' = 0 /\ stored_bytes' = 0

ZInit ==
    /\ on = FALSE /\ max_bytes = 0 /\ slot_count = 0
    /\ slabs = <<>> /\ partial = [c \in Class |-> 0]
    /\ objects = 0 /\ stored_bytes = 0
    /\ slots = [s \in ZSlot |-> Empty]

----------------------------------------------------------------------------
(* handle_decode: a handle the pool has an entry for. *)
Decodes(h) ==
    /\ h # Empty
    /\ h.slab \in 1 .. Len(slabs)
    /\ h.entry < slabs[h.slab].entries
    /\ h.size <= slabs[h.slab].class + 1

(* zswap_load: what a load of the slot finds. *)
zswap_load(s) ==
    IF on /\ s < slot_count /\ Decodes(slots[s])
    THEN slabs[slots[s].slab].mem[slots[s].entry] ELSE Empty

(* The pool as a value, for the operations that take two steps on it. *)
Pool == [slabs |-> slabs, partial |-> partial, objects |-> objects, bytes |-> stored_bytes]
SetPool(p) ==
    slabs' = p.slabs /\ partial' = p.partial /\ objects' = p.objects /\ stored_bytes' = p.bytes

(* slab_new: every entry holds the index of the next free one. *)
slab_new(p, c) ==
    LET n == ObjectMax \div (c + 1)
        slab == [class |-> c, entries |-> n, used |-> 0, free_head |-> 0,
                 next_partial |-> p.partial[c],
                 mem |-> [e \in 0 .. n - 1 |-> IF e + 1 = n THEN NoEntry ELSE e + 1]]
    IN  [p EXCEPT !.slabs = Append(@, slab), !.partial[c] = Len(p.slabs) + 1]

(* Mutant: the slab to be added is not counted. *)
CanGrow_Late(p) == ~ (Len(p.slabs) * ObjectMax > max_bytes)

(* A slab may be added: with it the pool is within its cap. *)
CanGrow(p) == ~ ((Len(p.slabs) + 1) * ObjectMax > max_bytes)

(* partial_remove: unlink i from the list of its class. *)
partial_remove(p, i) ==
    LET c == p.slabs[i].class
        next == p.slabs[i].next_partial
        before == {j \in DOMAIN p.slabs : p.slabs[j].next_partial = i}
    IN  IF p.partial[c] = i
        THEN [p EXCEPT !.slabs[i].next_partial = 0, !.partial[c] = next]
        ELSE IF before = {} THEN p
        ELSE [p EXCEPT !.slabs[i].next_partial = 0,
                       !.slabs[CHOOSE j \in before : TRUE].next_partial = next]

(* zpool_store into a pool whose class has a partial slab. *)
Take(p, f) ==
    LET size == SizeOf[f]
        i == p.partial[class_of(size)]
        slab == p.slabs[i]
        e == slab.free_head
        q == [p EXCEPT !.slabs[i] = [slab EXCEPT !.free_head = slab.mem[e], !.used = @ + 1,
                                                 !.mem[e] = f],
                       !.objects = @ + 1, !.bytes = @ + size]
    IN  [pool |-> IF slab.mem[e] = NoEntry THEN partial_remove(q, i) ELSE q,
         handle |-> [slab |-> i, entry |-> e, size |-> size]]

(* zpool_store: no handle when the pool is at its cap. *)
zpool_store(p, f) ==
    LET c == class_of(SizeOf[f]) IN
    IF p.partial[c] # 0 THEN Take(p, f)
    ELSE IF CanGrow(p) THEN Take(slab_new(p, c), f)
    ELSE [pool |-> p, handle |-> Empty]

(* Mutant: a slab that was full stays off its partial list. *)
zpool_free_Lost(p, h) ==
    LET slab == p.slabs[h.slab] IN
    [p EXCEPT !.slabs[h.slab] = [slab EXCEPT !.free_head = h.entry, !.used = @ - 1,
                                             !.mem[h.entry] = slab.free_head],
              !.objects = @ - 1, !.bytes = @ - h.size]

(* Mutant: the entry does not remember the entry that was free before it. *)
zpool_free_Cut(p, h) ==
    LET slab == p.slabs[h.slab]
        c == slab.class
        full == slab.free_head = NoEntry
    IN  [p EXCEPT !.slabs[h.slab] =
                      [slab EXCEPT !.free_head = h.entry, !.used = @ - 1,
                                   !.mem[h.entry] = NoEntry,
                                   !.next_partial = IF full THEN p.partial[c] ELSE @],
                  !.partial[c] = IF full THEN h.slab ELSE @,
                  !.objects = @ - 1, !.bytes = @ - h.size]

(* zpool_free: a slab that was full is back on the partial list. *)
zpool_free(p, h) ==
    LET slab == p.slabs[h.slab]
        c == slab.class
        full == slab.free_head = NoEntry
    IN  [p EXCEPT !.slabs[h.slab] =
                      [slab EXCEPT !.free_head = h.entry, !.used = @ - 1,
                                   !.mem[h.entry] = slab.free_head,
                                   !.next_partial = IF full THEN p.partial[c] ELSE @],
                  !.partial[c] = IF full THEN h.slab ELSE @,
                  !.objects = @ - 1, !.bytes = @ - h.size]

(* The slots once an old object of s is dropped. *)
Emptied(s) == [slots EXCEPT ![s] = Empty]

(* zswap_store: an old object goes first, whether or not the new one fits. *)
zswap_store(s, f) ==
    /\ on /\ s < slot_count
    /\ LET p == IF slots[s] # Empty THEN zpool_free(Pool, slots[s]) ELSE Pool
           r == zpool_store(p, f)
       IN  IF f \notin Shrinks
           THEN SetPool(p) /\ slots' = Emptied(s)
           ELSE /\ SetPool(r.pool)
                /\ slots' = [Emptied(s) EXCEPT ![s] = IF r.handle = Empty THEN @ ELSE r.handle]
    /\ UNCHANGED <<on, max_bytes, slot_count>>

zswap_forget(s) ==
    /\ on /\ s < slot_count /\ slots[s] # Empty
    /\ SetPool(zpool_free(Pool, slots[s]))
    /\ slots' = Emptied(s)
    /\ UNCHANGED <<on, max_bytes, slot_count>>

(* Mutant: torn down with frames in it. *)
teardown_ok_Always == TRUE

(* zswap_teardown_locked refuses while an object is there. *)
teardown_ok == on => objects = 0

(* zswap_teardown_locked and zswap_build_locked. *)
Rebuild(cap, n) ==
    /\ teardown_ok
    /\ max_bytes' = cap /\ slot_count' = n
    /\ on' = (cap # 0 /\ n # 0)
    /\ NewPool
    /\ slots' = [s \in ZSlot |-> Empty]

zswap_configure(cap) == Rebuild(cap, slot_count)
zswap_set_slot_geometry(n) == Rebuild(max_bytes, n)

ZNext ==
    \/ \E s \in ZSlot : zswap_forget(s) \/ \E f \in Object : zswap_store(s, f)
    \/ \E cap \in Caps : zswap_configure(cap)
    \/ \E n \in Counts : zswap_set_slot_geometry(n)

ZSpec == ZInit /\ [][ZNext]_zvars

----------------------------------------------------------------------------
Handles(i) == {slots[s].entry : s \in {x \in ZSlot : slots[x] # Empty /\ slots[x].slab = i}}

(* The free entries of a slab in the order they would be taken; a list     *)
(* longer than the slab has a cycle in it.                                 *)
FreeList(i) ==
    LET from[k \in 0 .. slabs[i].entries] ==
            IF k = 0 THEN slabs[i].free_head
            ELSE IF from[k - 1] \in DOMAIN slabs[i].mem THEN slabs[i].mem[from[k - 1]] ELSE NoEntry
    IN  [k \in 0 .. slabs[i].entries |-> from[k]]

ZTypeOK ==
    /\ on \in BOOLEAN /\ max_bytes \in Caps \cup {0} /\ slot_count \in Counts \cup {0}
    /\ Len(slabs) * ObjectMax <= max_bytes
    /\ partial \in [Class -> 0 .. Len(slabs)]
    /\ \A s \in ZSlot : slots[s] # Empty => Decodes(slots[s])

(* Entries of a slab are either on its free list, each once, or named by   *)
(* exactly one slot, and used, objects and stored_bytes count the latter   *)
(* (zpool.c:161, 232).                                                     *)
EntriesAccountedFor ==
    /\ \A i \in DOMAIN slabs :
        LET free == {FreeList(i)[k] : k \in DOMAIN FreeList(i)} \ {NoEntry} IN
        /\ FreeList(i)[slabs[i].entries] = NoEntry
        /\ free \cap Handles(i) = {}
        /\ free \cup Handles(i) = 0 .. slabs[i].entries - 1
        /\ slabs[i].used = Cardinality(Handles(i))
    /\ \A s, r \in ZSlot : slots[s] # Empty /\ slots[s] = slots[r] => s = r
    /\ objects = Cardinality({s \in ZSlot : slots[s] # Empty})
    /\ (objects = 0) = (stored_bytes = 0)

(* A slab is on the partial list of its class exactly while it has a free  *)
(* entry, so that no slab is added while one has room (zpool.c:129, 236).  *)
PartialListsExact ==
    LET onList(c) ==
            LET at[k \in 0 .. Len(slabs)] ==
                    IF k = 0 THEN partial[c]
                    ELSE IF at[k - 1] = 0 THEN 0 ELSE slabs[at[k - 1]].next_partial
            IN  [k \in 0 .. Len(slabs) |-> at[k]]
    IN  \A c \in Class :
            /\ onList(c)[Len(slabs)] = 0
            /\ {onList(c)[k] : k \in DOMAIN onList(c)} \ {0} =
                   {i \in DOMAIN slabs : slabs[i].class = c /\ slabs[i].used < slabs[i].entries}

(* The pool is within its cap and accounts for its entries and its slabs.  *)
PoolAccountedFor == ZTypeOK /\ EntriesAccountedFor /\ PartialListsExact

(* The tier implements a store of whole frames by slot: what a slot loads  *)
(* is what was last stored in it, whichever entries were freed, reused or  *)
(* moved to other slabs meanwhile, and reconfiguring it loses nothing      *)
(* (zswap.c:91).                                                           *)
Tier == INSTANCE SlotStore WITH
    Slot <- ZSlot, Frame <- Object, content <- [s \in ZSlot |-> zswap_load(s)]
KeepsFrames == Tier!Spec
=============================================================================
