-------------------------------- MODULE Swap --------------------------------
(***************************************************************************)
(* kernel/swap.c and the pager of emu/memory.c: the frames of one          *)
(* anonymous mapping go out to slots of the swap area and come home, while *)
(* the area is enabled, resized and disabled, address spaces fork, write,  *)
(* move and unmap, and the app quiesces the pager before it is suspended.  *)
(* Each address space has at most one holder of its write lock (op[m]),    *)
(* a step is a hold of swap_lock, of zswap_lock or one transfer.           *)
(* The compressed tier is used as SlotStore promises it.                   *)
(***************************************************************************)
EXTENDS Integers

CONSTANTS
    Mem,        \* address spaces
    Page,       \* the pages of the mapping
    Frame, FrameOf,     \* the host frame each page is in
    Val,        \* what the guest writes
    Sizes,      \* the slot counts an area is enabled with, slot 0 not counted
    Modes,      \* "file", and "ram" for an area with no file
    IoErrors,   \* whether a transfer to or from the file may fail
    Lost        \* bytes that are nobody's

(* What the constants are. *)
SwapConstants ==
    /\ Page \subseteq Nat \ {0} /\ 0 \notin Frame
    /\ FrameOf \in [Page -> Frame] /\ \A f \in Frame : \E p \in Page : FrameOf[p] = f
    /\ Sizes \subseteq Nat \ {0} /\ \E n \in Sizes : \A k \in Sizes : k <= n
    /\ Modes \subseteq {"file", "ram"} /\ IoErrors \in BOOLEAN /\ Lost \notin Val

VARIABLES
    entry,      \* per address space and page: "none", "in" or "out" (swap_state)
    cow, moved, \* P_COW; whether mremap has moved the page away
    host,       \* the bytes of each page in host memory
    frame_slot, \* the slot a frame is out in, or 0
    swap_on,
    area,       \* [mode, count] of the swap area; mode "none" when there is none
    used,       \* the slots whose bit is clear
    tier, file, \* what the compressed tier and the file have for a slot
    op,         \* the holder of each address space's write lock
    conf,       \* the holder of swap_config_lock
    missed,     \* history: the last swapoff passed an address space or a page over
    quiesced, still,    \* the gate; whether swap_quiesce_begin said it drained
    truth       \* history: what each address space last wrote to the page

vars == <<entry, cow, moved, host, frame_slot, swap_on, area, used, tier, file, op, conf,
          missed, quiesced, still, truth>>
mapVars == <<entry, cow, moved, host, truth>>
slotVars == <<swap_on, area, used, file>>

Pages(f) == {p \in Page : FrameOf[p] = f}
Bytes(f) == [p \in Pages(f) |-> host[p]]
Nowhere == <<>>
NoArea == [mode |-> "none", count |-> 0]
Doing(l, f, p, s, w) == [at |-> l, f |-> f, p |-> p, slot |-> s, walk |-> w]
Idle == Doing("idle", 0, 0, 0, FALSE)
Sweeping == Doing("sweep", 0, 0, 0, FALSE)
MaxSlot == CHOOSE n \in Sizes : \A k \in Sizes : k <= n
Slot == 1 .. MaxSlot

Init ==
    /\ entry = [m \in Mem |-> [p \in Page |-> "none"]]
    /\ cow = [m \in Mem |-> [p \in Page |-> FALSE]]
    /\ moved = [m \in Mem |-> [p \in Page |-> FALSE]]
    /\ host = [p \in Page |-> Lost]
    /\ frame_slot = [f \in Frame |-> 0]
    /\ swap_on = FALSE /\ area = NoArea /\ used = {}
    /\ tier = [s \in Slot |-> Nowhere] /\ file = [s \in Slot |-> Nowhere]
    /\ op = [m \in Mem |-> Idle]
    /\ conf = [at |-> "idle", left |-> {}, size |-> 0, mode |-> "none"]
    /\ missed = FALSE /\ quiesced = FALSE /\ still = FALSE
    /\ truth = [m \in Mem |-> [p \in Page |-> Lost]]

----------------------------------------------------------------------------
Mapped(m) == {p \in Page : entry[m][p] # "none"}
Writer(m) == op[m].at = "idle"
Goto(m, l) == op' = [op EXCEPT ![m].at = l]

(* The next thing the holder of m's lock does: the walk, or let go. *)
Walking(p) == Doing("walk", 0, p, 0, TRUE)
Done(m) == op' = [op EXCEPT ![m] = IF op[m].walk THEN Walking(op[m].p) ELSE Idle]

(* Mutant: a stopped pager keeps its area. *)
Drained_Never(u) == FALSE

(* The last slot of a pager that has been stopped comes back. *)
Drained(u) == u = {} /\ ~ swap_on /\ area # NoArea

(* Mutant: the tier is not told that the slot is free. *)
ForgetTier_Not(s) == UNCHANGED tier

ForgetTier(s) == tier' = [tier EXCEPT ![s] = Nowhere]

(* swap_slot_free under swap_lock, with the detach of a drained area. *)
swap_slot_free(s) ==
    LET u == used \ {s} IN
    /\ used' = u
    /\ file' = [file EXCEPT ![s] = Nowhere]
    /\ area' = IF Drained(u) THEN NoArea ELSE area
    /\ UNCHANGED swap_on

----------------------------------------------------------------------------
(* The guest: a new mapping, reads and writes of resident pages, fork,     *)
(* mremap and munmap, each under the lock of its address space.            *)

Map(m) ==
    /\ Writer(m) /\ \A n \in Mem : Mapped(n) = {} /\ Writer(n)
    /\ \E v \in Val :
        /\ host' = [p \in Page |-> v]
        /\ truth' = [truth EXCEPT ![m] = [p \in Page |-> v]]
    /\ entry' = [entry EXCEPT ![m] = [p \in Page |-> "in"]]
    /\ cow' = [cow EXCEPT ![m] = [p \in Page |-> FALSE]]
    /\ moved' = [moved EXCEPT ![m] = [p \in Page |-> FALSE]]
    /\ UNCHANGED <<frame_slot, swap_on, area, used, tier, file, op, conf, quiesced, still, missed>>

(* A write in place. *)
Write(m, p) ==
    /\ Writer(m) /\ entry[m][p] = "in" /\ ~ cow[m][p]
    /\ \E v \in Val : host' = [host EXCEPT ![p] = v] /\ truth' = [truth EXCEPT ![m][p] = v]
    /\ UNCHANGED <<entry, cow, moved, frame_slot, swap_on, area, used, tier, file, op, conf,
                   quiesced, still, missed>>

(* Mutant: the child's entries start resident. *)
Inherited_Resident(m) == [p \in Page |-> IF entry[m][p] = "none" THEN "none" ELSE "in"]

(* What a forked entry says of where its frame is. *)
Inherited(m) == entry[m]

(* pt_copy_on_write: the child gets the parent's entries, swap state       *)
(* included, and both are copy-on-write from now on. *)
Fork(m, c) ==
    /\ Writer(m) /\ Writer(c) /\ Mapped(m) # {} /\ Mapped(c) = {}
    /\ entry' = [entry EXCEPT ![c] = Inherited(m)]
    /\ cow' = [n \in Mem |-> IF n \in {m, c} THEN [p \in Page |-> TRUE] ELSE cow[n]]
    /\ moved' = [moved EXCEPT ![c] = moved[m]]
    /\ truth' = [truth EXCEPT ![c] = truth[m]]
    /\ missed' = (missed \/ conf.at = "walk")
    /\ UNCHANGED <<host, frame_slot, swap_on, area, used, tier, file, op, conf, quiesced, still>>

(* mremap moves the page, which keeps its offset in the mapping. *)
Mremap(m, p) ==
    /\ Writer(m) /\ entry[m][p] # "none" /\ ~ moved[m][p]
    /\ moved' = [moved EXCEPT ![m][p] = TRUE]
    /\ UNCHANGED <<entry, cow, host, truth, frame_slot, swap_on, area, used, tier, file, op, conf,
                   quiesced, still, missed>>

(* munmap, or a copy-on-write break that puts a private copy in the        *)
(* page's place: data_unmap_run_settle takes the slot of a frame that no   *)
(* entry reaches any more. *)
Unmap(m, p) ==
    LET f == FrameOf[p]
        empty == \A n \in Mem, q \in Pages(f) : entry[n][q] = "none" \/ (n = m /\ q = p)
    IN  /\ Writer(m) /\ entry[m][p] # "none"
        /\ entry' = [entry EXCEPT ![m][p] = "none"]
        /\ truth' = [truth EXCEPT ![m][p] = Lost]
        /\ cow' = [cow EXCEPT ![m][p] = FALSE] /\ moved' = [moved EXCEPT ![m][p] = FALSE]
        /\ IF empty /\ frame_slot[f] # 0
           THEN /\ frame_slot' = [frame_slot EXCEPT ![f] = 0]
                /\ op' = [op EXCEPT ![m] = Doing("drop", 0, 0, frame_slot[f], FALSE)]
           ELSE UNCHANGED <<frame_slot, op>>
        /\ UNCHANGED <<host, swap_on, area, used, tier, file, conf, quiesced, still, missed>>

----------------------------------------------------------------------------
(* swap_evict_common asks the switch before it waits for the lock of the   *)
(* address space, so the answer may be stale when the sweep starts.        *)
Sweep(m) ==
    /\ Writer(m)
    /\ op' = [op EXCEPT ![m] = Sweeping]
    /\ UNCHANGED <<mapVars, frame_slot, slotVars, tier, conf, quiesced, still, missed>>

(* Mutant: the frame is not asked whether it is out already. *)
Eligible_Out(m, f) ==
    /\ \A p \in Pages(f) : entry[m][p] # "none" /\ ~ cow[m][p]
    /\ \A p, q \in Pages(f) : moved[m][p] = moved[m][q]
    /\ \A n \in Mem \ {m} : Mapped(n) = {}

(* swap_frame_eligible: every page of the frame is here, side by side, and *)
(* private, and no other address space reaches the mapping.  The frame's   *)
(* slot, not the entries' hints, says whether it is out already.           *)
Eligible(m, f) ==
    /\ \A p \in Pages(f) : entry[m][p] # "none" /\ ~ cow[m][p]
    /\ \A p, q \in Pages(f) : moved[m][p] = moved[m][q]
    /\ \A n \in Mem \ {m} : Mapped(n) = {}
    /\ frame_slot[f] = 0

(* Mutant: the switch is not asked again. *)
CanAlloc_Off == TRUE

(* swap_slot_alloc asks the switch again, under swap_lock. *)
CanAlloc == swap_on

(* swap_slot_alloc for the next frame of the sweep, or the end of it. *)
swap_slot_alloc(m) ==
    /\ op[m].at = "sweep"
    /\ \/ /\ CanAlloc /\ area # NoArea
          /\ \E f \in Frame, s \in (1 .. area.count) \ used :
              /\ Eligible(m, f)
              /\ used' = used \cup {s}
              /\ op' = [op EXCEPT ![m] = Doing("store", f, 0, s, FALSE)]
       \/ op' = [op EXCEPT ![m] = Idle] /\ UNCHANGED used
    /\ UNCHANGED <<mapVars, frame_slot, swap_on, area, file, tier, conf, quiesced, still, missed>>

(* zswap_store takes the frame, or declines it; then an area with no file, *)
(* or a closed gate, refuses it (swap_slot_write). *)
StoreOrClaim(m) ==
    LET o == op[m] IN
    /\ o.at = "store"
    /\ \/ tier' = [tier EXCEPT ![o.slot] = Bytes(o.f)] /\ Goto(m, "publish")
       \/ /\ tier' = [tier EXCEPT ![o.slot] = Nowhere]
          /\ Goto(m, IF area.mode = "file" THEN "gate" ELSE "forget")
    /\ UNCHANGED <<mapVars, frame_slot, slotVars, conf, quiesced, still, missed>>

(* Mutant: a write may start while the pager is quiesced. *)
GateOpen_Always == TRUE

GateOpen == ~ quiesced

Gate(m) ==
    /\ op[m].at = "gate"
    /\ Goto(m, IF GateOpen THEN "write" ELSE "forget")
    /\ UNCHANGED <<mapVars, frame_slot, slotVars, tier, conf, quiesced, still, missed>>

WriteSlot(m) ==
    LET o == op[m] IN
    /\ o.at = "write"
    /\ \/ file' = [file EXCEPT ![o.slot] = Bytes(o.f)] /\ Goto(m, "publish")
       \/ IoErrors /\ Goto(m, "forget") /\ UNCHANGED file
    /\ UNCHANGED <<mapVars, frame_slot, swap_on, area, used, tier, conf, quiesced, still, missed>>

(* The frame records its slot, the entries that they are out, and the host *)
(* has its memory back. *)
Publish(m) ==
    LET o == op[m] IN
    /\ o.at = "publish"
    /\ frame_slot' = [frame_slot EXCEPT ![o.f] = o.slot]
    /\ entry' = [entry EXCEPT ![m] = [p \in Page |-> IF p \in Pages(o.f) THEN "out" ELSE @[p]]]
    /\ host' = [p \in Page |-> IF p \in Pages(o.f) THEN Lost ELSE host[p]]
    /\ op' = [op EXCEPT ![m] = Sweeping]
    /\ UNCHANGED <<cow, moved, truth, slotVars, tier, conf, quiesced, still, missed>>

----------------------------------------------------------------------------
FrameLocked(f) ==
    \E n \in Mem : op[n].at \in {"read", "forget", "free"} /\ op[n].p # 0 /\ op[n].f = f

(* Every entry of the frame that lies beside p, at its own offset. *)
Shown(m, p) ==
    [q \in Page |-> IF FrameOf[q] = FrameOf[p] /\ entry[m][q] = "out" /\ moved[m][q] = moved[m][p]
                    THEN "in" ELSE entry[m][q]]

(* swap_fault_page_locked takes the frame lock and asks the frame where    *)
(* its bytes are; a frame that is home already is only published. *)
FaultStart(m, p, walk) ==
    LET f == FrameOf[p] IN
    /\ entry[m][p] = "out" /\ ~ FrameLocked(f)
    /\ IF frame_slot[f] = 0
       THEN /\ entry' = [entry EXCEPT ![m] = Shown(m, p)]
            /\ UNCHANGED op
       ELSE /\ op' = [op EXCEPT ![m] = Doing("read", f, p, frame_slot[f], walk)]
            /\ UNCHANGED entry
    /\ UNCHANGED <<cow, moved, host, truth, frame_slot, slotVars, tier, conf, quiesced, still,
                   missed>>

(* A guest access to a page that is out. *)
Fault(m, p) == Writer(m) /\ FaultStart(m, p, FALSE)

(* What swap_slot_read finds: the tier's copy, or the file's. *)
Found(s) ==
    IF tier[s] # Nowhere THEN tier[s] ELSE IF area.mode = "file" THEN file[s] ELSE Nowhere

(* swap_slot_read into the frame, which then is home: its slot is cleared  *)
(* under the frame lock.  A read that fails leaves the frame out. *)
ReadSlot(m) ==
    LET o == op[m] IN
    /\ o.at = "read"
    /\ \/ /\ Found(o.slot) # Nowhere
          /\ host' = [p \in Page |-> IF p \in Pages(o.f) THEN Found(o.slot)[p] ELSE host[p]]
          /\ frame_slot' = [frame_slot EXCEPT ![o.f] = 0]
          /\ Goto(m, "forget")
          /\ UNCHANGED missed
       \/ /\ IoErrors \/ Found(o.slot) = Nowhere
          /\ missed' = (missed \/ o.walk)
          /\ Done(m)
          /\ UNCHANGED <<host, frame_slot>>
    /\ UNCHANGED <<entry, cow, moved, truth, slotVars, tier, conf, quiesced, still>>

(* The tier's object goes before the slot's bit is set. *)
Forget(m) ==
    /\ op[m].at \in {"forget", "drop"}
    /\ ForgetTier(op[m].slot)
    /\ Goto(m, "free")
    /\ UNCHANGED <<mapVars, frame_slot, slotVars, conf, quiesced, still, missed>>

(* swap_slot_free: after a fault its entries are published, after a failed *)
(* eviction or an unmap there is nothing to publish. *)
Free(m) ==
    LET o == op[m] IN
    /\ o.at = "free"
    /\ swap_slot_free(o.slot)
    /\ IF o.p # 0 THEN entry' = [entry EXCEPT ![m] = Shown(m, o.p)] ELSE UNCHANGED entry
    /\ IF o.f # 0 /\ o.p = 0 THEN op' = [op EXCEPT ![m] = Sweeping] ELSE Done(m)
    /\ UNCHANGED <<cow, moved, host, truth, frame_slot, tier, conf, quiesced, still, missed>>

----------------------------------------------------------------------------
(* swap_enable_locked: nothing to do, EBUSY while a stopped area drains, a *)
(* disable first when the size differs, or the area is built.              *)
Enable ==
    /\ conf.at = "idle"
    /\ \E n \in Sizes, k \in Modes :
        IF area = NoArea THEN conf' = [at |-> "build", left |-> {}, size |-> n, mode |-> k]
        ELSE /\ swap_on /\ area.count # n
             /\ conf' = [at |-> "off", left |-> Mem, size |-> n, mode |-> k]
    /\ UNCHANGED <<mapVars, frame_slot, slotVars, tier, op, quiesced, still, missed>>

(* The area is published, or EBUSY: the disable left it draining, or the   *)
(* file could not be made.  The tier's geometry changes with the area's:   *)
(* that drops an empty pool, and is refused when it is not empty. *)
Build ==
    /\ conf.at = "build"
    /\ \/ /\ area = NoArea
          /\ area' = [mode |-> conf.mode, count |-> conf.size]
          /\ used' = {} /\ swap_on' = TRUE
       \/ UNCHANGED <<area, used, swap_on>>
    /\ conf' = [at |-> "idle", left |-> {}, size |-> 0, mode |-> "none"]
    /\ UNCHANGED <<mapVars, frame_slot, file, tier, op, quiesced, still, missed>>

Disable ==
    /\ conf.at = "idle" /\ area # NoArea
    /\ conf' = [at |-> "off", left |-> Mem, size |-> 0, mode |-> "none"]
    /\ UNCHANGED <<mapVars, frame_slot, slotVars, tier, op, quiesced, still, missed>>

(* swap_disable_locked: new eviction stops before the walk starts. *)
TurnOff ==
    /\ conf.at = "off"
    /\ swap_on' = FALSE
    /\ missed' = FALSE
    /\ conf' = [conf EXCEPT !.at = "walk"]
    /\ UNCHANGED <<mapVars, frame_slot, area, used, file, tier, op, quiesced, still>>

(* swap_fault_mem_all takes the lock of the next address space, or it is   *)
(* passed over: its task is exiting. *)
WalkMem(m) ==
    /\ conf.at = "walk" /\ m \in conf.left
    /\ \A n \in Mem : ~ op[n].walk
    /\ conf' = [conf EXCEPT !.left = @ \ {m}]
    /\ \/ Writer(m) /\ op' = [op EXCEPT ![m] = Walking(0)]
          /\ UNCHANGED missed
       \/ missed' = TRUE /\ UNCHANGED op
    /\ UNCHANGED <<mapVars, frame_slot, slotVars, tier, quiesced, still>>

(* The pages of m in order: one whose read failed is not tried again.      *)
WalkPage(m) ==
    /\ op[m].at = "walk"
    /\ LET next == {p \in Page : entry[m][p] = "out" /\ p > op[m].p} IN
       IF next = {}
       THEN /\ op' = [op EXCEPT ![m] = Idle]
            /\ UNCHANGED <<mapVars, frame_slot, slotVars, tier, conf, quiesced, still, missed>>
       ELSE \E p \in next : (\A q \in next : p <= q) /\ FaultStart(m, p, TRUE)

(* The area goes if nothing is out; else the last slot to come home takes  *)
(* it along. *)
FinishOff ==
    /\ conf.at = "walk" /\ conf.left = {}
    /\ \A n \in Mem : ~ op[n].walk
    /\ area' = IF used = {} THEN NoArea ELSE area
    /\ conf' = [conf EXCEPT !.at = IF conf.size = 0 THEN "idle" ELSE "build"]
    /\ UNCHANGED <<mapVars, frame_slot, swap_on, used, file, tier, op, quiesced, still, missed>>

(* swap_quiesce_begin closes the gate, and says whether the writes that    *)
(* had started have ended when it returns; swap_quiesce_end opens it.      *)
QuiesceBegin ==
    /\ ~ quiesced /\ quiesced' = TRUE
    /\ UNCHANGED <<mapVars, frame_slot, slotVars, tier, op, conf, still, missed>>

QuiesceReturn ==
    /\ quiesced /\ ~ still
    /\ \A m \in Mem : op[m].at # "write"
    /\ still' = TRUE
    /\ UNCHANGED <<mapVars, frame_slot, slotVars, tier, op, conf, quiesced, missed>>

QuiesceEnd ==
    /\ quiesced /\ quiesced' = FALSE /\ still' = FALSE
    /\ UNCHANGED <<mapVars, frame_slot, slotVars, tier, op, conf, missed>>

Next ==
    \/ \E m \in Mem :
        \/ Map(m) \/ Sweep(m) \/ swap_slot_alloc(m) \/ StoreOrClaim(m) \/ Gate(m) \/ WriteSlot(m)
        \/ Publish(m) \/ ReadSlot(m) \/ Forget(m) \/ Free(m) \/ WalkMem(m) \/ WalkPage(m)
        \/ \E p \in Page : Write(m, p) \/ Mremap(m, p) \/ Unmap(m, p) \/ Fault(m, p)
        \/ \E c \in Mem \ {m} : Fork(m, c)
    \/ Enable \/ Build \/ Disable \/ TurnOff \/ FinishOff
    \/ QuiesceBegin \/ QuiesceReturn \/ QuiesceEnd

Spec == Init /\ [][Next]_vars

----------------------------------------------------------------------------
TypeOK ==
    /\ entry \in [Mem -> [Page -> {"none", "in", "out"}]]
    /\ frame_slot \in [Frame -> 0 .. MaxSlot]
    /\ used \subseteq 1 .. area.count
    /\ host \in [Page -> Val \cup {Lost}]

(* Every page of every address space can be read as it was last written:   *)
(* a page that is in, from host memory; a page that is out, from the       *)
(* frame's slot, or from host memory when a sibling has brought the frame  *)
(* home (emu/memory.c:5593).                                               *)
ReadsBack ==
    \A m \in Mem, p \in Page :
        LET s == frame_slot[FrameOf[p]] IN
        /\ entry[m][p] = "in" => s = 0 /\ host[p] = truth[m][p]
        /\ entry[m][p] = "out" =>
              IF s = 0 THEN host[p] = truth[m][p]
              ELSE Found(s) # Nowhere /\ Found(s)[p] = truth[m][p]

(* The slots in use are those a frame is out in, and those an operation    *)
(* under way has just taken or is about to give back; none has two owners  *)
(* (swap.c:536, 594).                                                      *)
SlotsHaveOneOwner ==
    LET out == {f \in Frame : frame_slot[f] # 0}
        busy == {m \in Mem : op[m].slot # 0 /\ op[m].at # "read"}
    IN
    /\ used = {frame_slot[f] : f \in out} \cup {op[m].slot : m \in busy}
    /\ \A f \in out, m \in busy : frame_slot[f] # op[m].slot
    /\ \A f, g \in out : frame_slot[f] = frame_slot[g] => f = g
    /\ \A m, n \in busy : op[m].slot = op[n].slot => m = n

(* The area stays while a slot is in use, and a stopped pager's area goes  *)
(* with its last slot: "keeping the file open" is temporary (swap.c:620).  *)
DrainedAreaGoes ==
    /\ area = NoArea => used = {} /\ ~ swap_on
    /\ ~ swap_on /\ used = {} /\ conf.at \in {"idle", "build"} => area = NoArea

(* A swapoff that passed over no address space and failed no read, and     *)
(* during which none was forked, leaves nothing out and no area, whatever  *)
(* sweeps it overlapped (swap.c:538, 385).                                 *)
SwapoffBringsHome ==
    conf.at = "idle" /\ ~ swap_on /\ ~ missed => area = NoArea /\ used = {}

(* The tier holds objects only for slots in use, so that a new geometry    *)
(* never finds it occupied and is never refused (swap.c:601, zswap.c:186). *)
TierHoldsUsedSlots == \A s \in Slot : tier[s] # Nowhere => s \in used

(* Slots, owners and the tier agree (swap.c:536, 594, 601). *)
SlotsAccountedFor == SlotsHaveOneOwner /\ TierHoldsUsedSlots

(* An unhindered swapoff leaves nothing out, and a stopped pager's area    *)
(* goes with its last slot and not before (swap.c:385, 538, 620).          *)
SwapoffEnds == SwapoffBringsHome /\ DrainedAreaGoes

(* Once swap_quiesce_begin has answered that the pager is still, it has no *)
(* write to the file under way until swap_quiesce_end (swap.c:685, 736).   *)
(* A guest's own writes to /dev/aokswap0 pass no gate and are left out.    *)
QuiescedIsStill == still => \A m \in Mem : op[m].at # "write"
=============================================================================
