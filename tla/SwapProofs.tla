----------------------------- MODULE SwapProofs -----------------------------
(***************************************************************************)
(* What is true of a frame on its way out and on its way home, and that    *)
(* every step of the pager keeps it so.                                    *)
(***************************************************************************)
EXTENDS Swap, TLAPS

V == Val \cup {Lost}
Stored == {Nowhere} \cup UNION {[Pages(f) -> V] : f \in Frame}
Evicting == {"store", "gate", "write", "publish"}
Ops == [at : {"idle", "sweep", "walk", "read", "forget", "free", "drop"} \cup Evicting,
        f : Frame \cup {0}, p : Page \cup {0}, slot : 0 .. MaxSlot, walk : BOOLEAN]

Types ==
    /\ entry \in [Mem -> [Page -> {"none", "in", "out"}]]
    /\ cow \in [Mem -> [Page -> BOOLEAN]]
    /\ host \in [Page -> V] /\ truth \in [Mem -> [Page -> V]]
    /\ frame_slot \in [Frame -> 0 .. MaxSlot]
    /\ tier \in [Slot -> Stored] /\ file \in [Slot -> Stored]
    /\ area \in [mode : {"none", "file", "ram"}, count : 0 .. MaxSlot]
    /\ op \in [Mem -> Ops]
    /\ conf \in [at : {"idle", "build", "off", "walk"}, left : SUBSET Mem, size : 0 .. MaxSlot,
                 mode : {"none", "file", "ram"}]

(* m's operation is bringing a frame home, under the frame's lock. *)
Faulting(m) == op[m].at \in {"read", "forget", "free"} /\ op[m].p # 0

(* m's operation has a slot that no frame is out in. *)
Busy(m) == op[m].slot # 0 /\ op[m].at # "read"

(* What an operation has of its frame, its page and its slot. *)
Shape(m) ==
    LET o == op[m] IN
    /\ o.at \in {"idle", "sweep", "walk"} => o.f = 0 /\ o.slot = 0
    /\ o.at \in {"idle", "sweep"} => o.p = 0
    /\ o.at \in Evicting => o.f # 0 /\ o.p = 0 /\ o.slot # 0
    /\ o.at = "read" => o.p # 0 /\ o.slot # 0
    /\ o.at \in {"forget", "free", "drop"} => o.slot # 0
    /\ o.at = "drop" => o.p = 0
    /\ o.p # 0 /\ o.at # "walk" => o.f = FrameOf[o.p]

(* A page that two address spaces have is copy-on-write in both. *)
SharedIsCow ==
    \A m, n \in Mem, p \in Page :
        m # n /\ entry[m][p] # "none" /\ entry[n][p] # "none" => cow[m][p]

(* A frame that is out is reached from somewhere. *)
OutIsReached ==
    \A f \in Frame : frame_slot[f] # 0 => \E n \in Mem, q \in Page : FrameOf[q] = f /\ entry[n][q] # "none"

(* All of a frame that is out is in its slot. *)
OutIsWhole ==
    \A f \in Frame : frame_slot[f] # 0 => Found(frame_slot[f]) \in [Pages(f) -> V]

(* No slot has two owners. *)
SlotsDiffer ==
    /\ \A f \in Frame : frame_slot[f] # 0 => frame_slot[f] \in used
    /\ \A f, g \in Frame : frame_slot[f] # 0 /\ frame_slot[f] = frame_slot[g] => f = g
    /\ \A m \in Mem : Busy(m) => op[m].slot \in used
    /\ \A m \in Mem, f \in Frame : Busy(m) => op[m].slot # frame_slot[f]
    /\ \A m, n \in Mem : m # n /\ Busy(m) /\ Busy(n) => op[m].slot # op[n].slot
    /\ used \subseteq 1 .. area.count

(* A frame on its way out is in one address space only, and its bytes stay *)
(* in host memory until they can be found in its slot. *)
OnItsWayOut(m) ==
    LET o == op[m] IN
    o.at \in Evicting =>
        /\ \A p \in Page : FrameOf[p] = o.f => entry[m][p] # "none" /\ ~ cow[m][p]
        /\ \A n \in Mem, p \in Page : n # m => entry[n][p] = "none"
        /\ frame_slot[o.f] = 0
        /\ o.at \in {"gate", "write"} => tier[o.slot] = Nowhere /\ area.mode = "file"
        /\ o.at = "publish" => Found(o.slot) = Bytes(o.f)

(* A frame on its way home is out, or read and not yet published. *)
OnItsWayHome(m) ==
    LET o == op[m] IN
    Faulting(m) => /\ entry[m][o.p] = "out"
                   /\ frame_slot[o.f] = IF o.at = "read" THEN o.slot ELSE 0

FramesLocked ==
    \A m, n \in Mem : m # n /\ Faulting(m) /\ Faulting(n) => op[m].f # op[n].f

(* ReadsBack of one page of one address space. *)
Reads(m, p) ==
    LET s == frame_slot[FrameOf[p]] IN
    /\ entry[m][p] = "in" => s = 0 /\ host[p] = truth[m][p]
    /\ entry[m][p] = "out" => IF s = 0 THEN host[p] = truth[m][p]
                              ELSE Found(s) # Nowhere /\ Found(s)[p] = truth[m][p]

Inv ==
    /\ Types /\ SharedIsCow /\ OutIsReached /\ OutIsWhole /\ SlotsDiffer /\ FramesLocked /\ ReadsBack
    /\ \A m \in Mem : Shape(m) /\ OnItsWayOut(m) /\ OnItsWayHome(m)

----------------------------------------------------------------------------
LEMMA ReadsBackIs == ReadsBack <=> \A m \in Mem, p \in Page : Reads(m, p)
BY Zenon DEF ReadsBack, Reads

LEMMA SlotRange ==
    ASSUME SwapConstants
    PROVE  MaxSlot \in Nat \ {0} /\ \A n \in Sizes : n \in 1 .. MaxSlot
<1>1. MaxSlot \in Sizes /\ \A k \in Sizes : k <= MaxSlot
  BY Zenon DEF SwapConstants, MaxSlot
<1> QED BY <1>1 DEF SwapConstants

LEMMA BytesStored ==
    ASSUME SwapConstants, Types, NEW f \in Frame
    PROVE  /\ Bytes(f) \in Stored /\ Bytes(f) # Nowhere
           /\ \A p \in Page : FrameOf[p] = f => Bytes(f)[p] = host[p]
<1>1. Bytes(f) \in [Pages(f) -> V]
  BY Zenon DEF Bytes, Pages, Types
<1>2. Bytes(f) # Nowhere
  <2>1. PICK p \in Page : FrameOf[p] = f
    BY Zenon DEF SwapConstants
  <2>2. DOMAIN Bytes(f) # {} /\ DOMAIN Nowhere = {}
    BY <2>1 DEF Bytes, Pages, Nowhere
  <2> QED BY <2>2, Zenon
<1> QED BY <1>1, <1>2, Zenon DEF Stored, Bytes, Pages

(* While m evicts, nobody else is evicting or bringing a frame home. *)
LEMMA EvictsAlone ==
    ASSUME SwapConstants, Inv, NEW m \in Mem, op[m].at \in Evicting, NEW n \in Mem, n # m
    PROVE  op[n].at \notin Evicting /\ ~ Faulting(n)
<1>1. \A p \in Page : entry[n][p] = "none"
  BY Zenon DEF Inv, OnItsWayOut
<1>2. op[n] \in Ops
  BY Zenon DEF Inv, Types
<1>3. op[n].at \notin Evicting
  <2> SUFFICES ASSUME op[n].at \in Evicting PROVE FALSE
    BY Zenon
  <2>1. op[n].f \in Frame
    BY <1>2, Zenon DEF Inv, Shape, Ops
  <2>2. PICK p \in Page : FrameOf[p] = op[n].f
    BY <2>1, Zenon DEF SwapConstants
  <2> QED BY <1>1, <2>2, Zenon DEF Inv, OnItsWayOut
<1>4. ~ Faulting(n)
  <2> SUFFICES ASSUME Faulting(n) PROVE FALSE
    BY Zenon
  <2>1. op[n].p \in Page
    BY <1>2, Zenon DEF Faulting, Ops
  <2> QED BY <1>1, <2>1, Zenon DEF Inv, OnItsWayHome
<1> QED BY <1>3, <1>4, Zenon

(* Steps that leave the pages, the frames and the slots alone: an area     *)
(* changes only when no slot is in use, and an operation starts, goes on   *)
(* or ends with no slot of its own.                                        *)
LEMMA QuietInv ==
    ASSUME SwapConstants, Inv,
           UNCHANGED <<entry, cow, host, truth, frame_slot, tier, file, used>>,
           area' \in [mode : {"none", "file", "ram"}, count : 0 .. MaxSlot],
           area' = area \/ used = {},
           conf' \in [at : {"idle", "build", "off", "walk"}, left : SUBSET Mem,
                      size : 0 .. MaxSlot, mode : {"none", "file", "ram"}],
           op' \in [Mem -> Ops],
           \A n \in Mem :
              \/ op'[n] = op[n]
              \/ /\ op'[n].at \in {"idle", "sweep", "walk"}
                 /\ op'[n].f = 0 /\ op'[n].slot = 0 /\ (op'[n].at # "walk" => op'[n].p = 0)
    PROVE  Inv'
<1>1. Types' /\ SharedIsCow' /\ OutIsReached'
  BY DEF Inv, Types, SharedIsCow, OutIsReached
<1>2. \A n \in Mem : /\ Faulting(n)' => Faulting(n) /\ op'[n] = op[n]
                     /\ Busy(n)' => Busy(n) /\ op'[n] = op[n]
                     /\ op'[n].at \in Evicting => op'[n] = op[n]
  BY Zenon DEF Faulting, Busy, Evicting
<1>3. SlotsDiffer' /\ FramesLocked'
  BY <1>2 DEF Inv, SlotsDiffer, FramesLocked
<1>4. ReadsBack' /\ OutIsWhole'
  <2>1. CASE area' = area
    <3>1. \A x : Found(x)' = Found(x)
      BY <2>1, Zenon DEF Found
    <3> QED BY <2>1, <3>1 DEF Inv, ReadsBack, OutIsWhole, Found
  <2>2. CASE used = {}
    <3>1. \A f \in Frame : frame_slot[f] = 0
      BY <2>2, Zenon DEF Inv, SlotsDiffer
    <3>2. \A p \in Page : FrameOf[p] \in Frame
      BY Zenon DEF SwapConstants
    <3> QED BY <3>1, <3>2 DEF Inv, ReadsBack, OutIsWhole
  <2> QED BY <2>1, <2>2, Zenon
<1>5. ASSUME NEW n \in Mem PROVE Shape(n)'
  BY DEF Inv, Shape, Evicting
<1>6. ASSUME NEW n \in Mem PROVE OnItsWayOut(n)'
  <2> SUFFICES ASSUME op'[n].at \in Evicting PROVE OnItsWayOut(n)'
    BY Zenon DEF OnItsWayOut
  <2>1. op'[n] = op[n] /\ op[n].slot # 0 /\ op[n].at # "read"
    BY <1>2, Zenon DEF Inv, Shape, Evicting
  <2>2. area' = area
    BY <2>1, Zenon DEF Inv, SlotsDiffer, Busy
  <2> QED BY <2>1, <2>2 DEF Inv, OnItsWayOut, Found, Bytes
<1>7. ASSUME NEW n \in Mem PROVE OnItsWayHome(n)'
  BY <1>2 DEF Inv, OnItsWayHome
<1> QED BY <1>1, <1>3, <1>4, <1>5, <1>6, <1>7, Zenon DEF Inv

(* Steps of m that touch no slot but the one m's operation has. *)
LEMMA OwnSlotInv ==
    ASSUME SwapConstants, Inv, NEW m \in Mem, Busy(m), NEW l,
           UNCHANGED <<entry, cow, host, truth, frame_slot, used, area, conf>>,
           tier' \in [Slot -> Stored], file' \in [Slot -> Stored],
           \A x \in Slot : x # op[m].slot => tier'[x] = tier[x] /\ file'[x] = file[x],
           op' = [op EXCEPT ![m].at = l], op'[m] \in Ops, l # "read",
           Faulting(m)' => Faulting(m), Shape(m)', OnItsWayOut(m)'
    PROVE  Inv'
<1> DEFINE s == op[m].slot
<1>0. /\ \A n \in Mem : n # m => op'[n] = op[n]
      /\ op'[m].at = l /\ op'[m].f = op[m].f /\ op'[m].p = op[m].p /\ op'[m].slot = s
      /\ op' \in [Mem -> Ops]
  BY Zenon DEF Inv, Types, Ops
<1>1. Types' /\ SharedIsCow' /\ OutIsReached'
  BY <1>0 DEF Inv, Types, SharedIsCow, OutIsReached
<1>2. \A n \in Mem : Busy(n)' <=> Busy(n)
  BY <1>0, Zenon DEF Busy
<1>3. \A n \in Mem : /\ Faulting(n)' => Faulting(n)
                     /\ op'[n].slot = op[n].slot /\ op'[n].f = op[n].f /\ op'[n].p = op[n].p
  BY <1>0, Zenon DEF Faulting
<1>4. SlotsDiffer' /\ FramesLocked'
  BY <1>2, <1>3 DEF Inv, SlotsDiffer, FramesLocked
<1>5. \A f \in Frame : frame_slot[f] # 0 =>
         /\ frame_slot[f] \in Slot /\ frame_slot[f] # s
         /\ Found(frame_slot[f])' = Found(frame_slot[f])
  <2> TAKE f \in Frame
  <2> HAVE frame_slot[f] # 0
  <2>1. frame_slot[f] \in Slot /\ frame_slot[f] # s
    BY SlotRange DEF Inv, Types, SlotsDiffer, Slot
  <2> QED BY <2>1, Zenon DEF Found
<1>6. ReadsBack' /\ OutIsWhole'
  <2>1. \A p \in Page : FrameOf[p] \in Frame
    BY Zenon DEF SwapConstants
  <2> QED BY <1>5, <2>1 DEF Inv, ReadsBack, OutIsWhole
<1>7. ASSUME NEW n \in Mem, n # m PROVE Shape(n)' /\ OnItsWayHome(n)'
  BY <1>0, <1>7, Zenon DEF Inv, Shape, OnItsWayHome, Faulting
<1>8. ASSUME NEW n \in Mem, n # m PROVE OnItsWayOut(n)'
  <2> SUFFICES ASSUME op[n].at \in Evicting PROVE OnItsWayOut(n)'
    BY <1>0, <1>8, Zenon DEF OnItsWayOut
  <2>1. Busy(n) /\ op[n].slot \in Slot
    BY SlotRange DEF Inv, Shape, Busy, Evicting, Types, Ops, Slot
  <2>2. op[n].slot # s /\ op'[n] = op[n]
    BY <1>0, <1>8, <2>1, Zenon DEF Inv, SlotsDiffer
  <2>3. tier'[op[n].slot] = tier[op[n].slot] /\ Found(op[n].slot)' = Found(op[n].slot)
    BY <2>1, <2>2, ZenonT(30) DEF Found
  <2>4. OnItsWayOut(n) /\ \A f : Bytes(f)' = Bytes(f)
    BY Zenon DEF Inv, Bytes
  <2> QED BY <2>2, <2>3, <2>4 DEF OnItsWayOut
<1>9. OnItsWayHome(m)'
  <2> SUFFICES ASSUME Faulting(m)' PROVE OnItsWayHome(m)'
    BY Zenon DEF OnItsWayHome
  <2>1. Faulting(m) /\ op[m].at # "read"
    BY Zenon DEF Busy
  <2> QED BY <1>0, <2>1 DEF Inv, OnItsWayHome
<1> QED BY <1>1, <1>4, <1>6, <1>7, <1>8, <1>9, Zenon DEF Inv

(* m's operation becomes r. *)
LEMMA OpUpdate ==
    ASSUME Types, NEW m \in Mem, NEW r \in Ops, op' = [op EXCEPT ![m] = r]
    PROVE  op' \in [Mem -> Ops] /\ op'[m] = r /\ \A n \in Mem : n # m => op'[n] = op[n]
BY Zenon DEF Types

(* The operations that have no slot. *)
LEMMA IdleShapes ==
    ASSUME SwapConstants
    PROVE  /\ Idle \in Ops /\ Idle.at = "idle" /\ Idle.f = 0 /\ Idle.p = 0 /\ Idle.slot = 0
           /\ Sweeping \in Ops /\ Sweeping.at = "sweep" /\ Sweeping.f = 0 /\ Sweeping.p = 0
           /\ Sweeping.slot = 0
           /\ \A p \in Page \cup {0} : /\ Walking(p) \in Ops /\ Walking(p).at = "walk"
                                       /\ Walking(p).f = 0 /\ Walking(p).slot = 0
<1>1. 0 \in 0 .. MaxSlot
  BY SlotRange
<1>2. /\ Idle \in Ops /\ Idle.at = "idle" /\ Idle.f = 0 /\ Idle.p = 0 /\ Idle.slot = 0
  BY <1>1, Zenon DEF Idle, Doing, Ops
<1>3. /\ Sweeping \in Ops /\ Sweeping.at = "sweep" /\ Sweeping.f = 0 /\ Sweeping.p = 0
      /\ Sweeping.slot = 0
  BY <1>1, Zenon DEF Sweeping, Doing, Ops
<1>4. ASSUME NEW p \in Page \cup {0}
      PROVE  /\ Walking(p) \in Ops /\ Walking(p).at = "walk"
             /\ Walking(p).f = 0 /\ Walking(p).slot = 0
  BY <1>1, Zenon DEF Walking, Doing, Ops
<1> QED BY <1>2, <1>3, <1>4, Zenon

(* Of the operation of m, in the forms the steps below use. *)
LEMMA EvictionFacts ==
    ASSUME SwapConstants, Inv, NEW m \in Mem, op[m].at \in Evicting
    PROVE  /\ Busy(m) /\ op[m].slot \in Slot /\ op[m].f \in Frame /\ op[m].p = 0
           /\ \A p \in Page : FrameOf[p] = op[m].f => entry[m][p] # "none" /\ ~ cow[m][p]
           /\ \A n \in Mem, p \in Page : n # m => entry[n][p] = "none"
           /\ frame_slot[op[m].f] = 0
<1>1. op[m] \in Ops /\ op[m].f # 0 /\ op[m].slot # 0 /\ op[m].p = 0 /\ op[m].at # "read"
  BY Zenon DEF Inv, Types, Shape, Evicting
<1>2. op[m].slot \in Slot /\ op[m].f \in Frame
  BY <1>1, SlotRange DEF Ops, Slot
<1> QED BY <1>1, <1>2, Zenon DEF Inv, OnItsWayOut, Busy, Bytes

(* A frame that is out is whole and reads back while it, its slot and its  *)
(* pages are left alone.                                                   *)
LEMMA StoredKept ==
    ASSUME SwapConstants, OutIsWhole, ReadsBack, UNCHANGED <<entry, host, truth, frame_slot>>,
           \A f \in Frame : frame_slot[f] # 0 => Found(frame_slot[f])' = Found(frame_slot[f])
    PROVE  OutIsWhole' /\ ReadsBack'
<1>1. OutIsWhole'
  <2> SUFFICES ASSUME NEW f \in Frame, frame_slot[f] # 0
               PROVE  Found(frame_slot[f])' \in [Pages(f) -> V]
    BY Zenon DEF OutIsWhole, Pages, V
  <2> QED BY Zenon DEF OutIsWhole
<1>2. ReadsBack'
  <2> SUFFICES ASSUME NEW n \in Mem, NEW p \in Page PROVE Reads(n, p)'
    BY Zenon DEF ReadsBack, Reads
  <2>1. FrameOf[p] \in Frame /\ Reads(n, p)
    BY ReadsBackIs, Zenon DEF SwapConstants
  <2> QED BY <2>1, Zenon DEF Reads
<1> QED BY <1>1, <1>2, Zenon

(* An operation that goes on is where it was, when the pages, the frames   *)
(* and the slots are left alone.                                           *)
LEMMA OperationKept ==
    ASSUME NEW n \in Mem, op'[n] = op[n], Shape(n), OnItsWayOut(n), OnItsWayHome(n),
           UNCHANGED <<entry, cow, host, truth, frame_slot, area, file, tier>>
    PROVE  Shape(n)' /\ OnItsWayOut(n)' /\ OnItsWayHome(n)'
<1>1. Found(op[n].slot)' = Found(op[n].slot) /\ Bytes(op[n].f)' = Bytes(op[n].f)
  BY Zenon DEF Found, Bytes
<1>2. Shape(n)'
  BY Zenon DEF Shape
<1>3. OnItsWayHome(n)'
  BY Zenon DEF OnItsWayHome, Faulting
<1>4. OnItsWayOut(n)'
  BY <1>1, Zenon DEF OnItsWayOut
<1> QED BY <1>2, <1>3, <1>4, Zenon

(* zswap_store, accepted or declined (swap_slot_write, swap.c). *)
LEMMA StoreInv ==
    ASSUME SwapConstants, Inv, NEW m \in Mem, StoreOrClaim(m) PROVE Inv'
<1> DEFINE o == op[m]
<1>0. o.at = "store" /\ o.at \in Evicting /\ o \in Ops /\ op \in [Mem -> Ops]
  BY Zenon DEF StoreOrClaim, Evicting, Inv, Types
<1>1. /\ Busy(m) /\ o.slot \in Slot /\ o.f \in Frame /\ o.p = 0
      /\ \A p \in Page : FrameOf[p] = o.f => entry[m][p] # "none" /\ ~ cow[m][p]
      /\ \A n \in Mem, p \in Page : n # m => entry[n][p] = "none"
      /\ frame_slot[o.f] = 0
  BY <1>0, EvictionFacts, Zenon
<1>2. PICK l \in {"publish", "gate", "forget"} :
        /\ Goto(m, l)
        /\ tier' = [tier EXCEPT ![o.slot] = IF l = "publish" THEN Bytes(o.f) ELSE Nowhere]
        /\ l = "gate" => area.mode = "file"
  <2>1. CASE tier' = [tier EXCEPT ![o.slot] = Bytes(o.f)] /\ Goto(m, "publish")
    BY <2>1, Zenon
  <2>2. CASE /\ tier' = [tier EXCEPT ![o.slot] = Nowhere]
             /\ Goto(m, IF area.mode = "file" THEN "gate" ELSE "forget")
    BY <2>2, Zenon
  <2> QED BY <2>1, <2>2, Zenon DEF StoreOrClaim
<1>3. /\ UNCHANGED <<entry, cow, host, truth, frame_slot, used, area, conf, file>>
      /\ op' = [op EXCEPT ![m].at = l]
  BY <1>2, Zenon DEF StoreOrClaim, mapVars, slotVars, Goto
<1>4. /\ op'[m].at = l /\ op'[m].f = o.f /\ op'[m].p = 0 /\ op'[m].slot = o.slot
      /\ op'[m] \in Ops
  BY <1>0, <1>1, <1>3, Zenon DEF Ops, Evicting
<1>5. Bytes(o.f) \in Stored /\ Bytes(o.f) # Nowhere /\ Nowhere \in Stored
  BY <1>1, BytesStored, Zenon DEF Inv, Stored
<1>6. /\ tier' \in [Slot -> Stored] /\ file' \in [Slot -> Stored]
      /\ \A x \in Slot : x # o.slot => tier'[x] = tier[x] /\ file'[x] = file[x]
      /\ tier'[o.slot] = IF l = "publish" THEN Bytes(o.f) ELSE Nowhere
  BY <1>1, <1>2, <1>3, <1>5, Zenon DEF Inv, Types
<1>7. Shape(m)' /\ ~ Faulting(m)'
  BY <1>0, <1>1, <1>4, SlotRange DEF Shape, Faulting, Evicting, Slot, SwapConstants
<1>8. OnItsWayOut(m)'
  <2>1. Bytes(o.f)' = Bytes(o.f)
    BY <1>3, <1>4, Zenon DEF Bytes
  <2>2. l = "publish" => Found(o.slot)' = Bytes(o.f)
    BY <1>4, <1>5, <1>6, Zenon DEF Found
  <2> QED BY <1>1, <1>2, <1>3, <1>4, <1>6, <2>1, <2>2 DEF OnItsWayOut
<1> QED BY <1>1, <1>3, <1>4, <1>6, <1>7, <1>8, OwnSlotInv, Zenon

LEMMA GateInv ==
    ASSUME SwapConstants, Inv, NEW m \in Mem, Gate(m) PROVE Inv'
<1> DEFINE o == op[m]
<1>0. o.at = "gate" /\ o.at \in Evicting /\ o \in Ops /\ op \in [Mem -> Ops]
  BY Zenon DEF Gate, Evicting, Inv, Types
<1>1. Busy(m) /\ o.slot \in Slot /\ o.f \in Frame /\ o.p = 0
  BY <1>0, EvictionFacts, Zenon
<1>2. PICK l \in {"write", "forget"} : Goto(m, l)
  BY Zenon DEF Gate
<1>3. /\ UNCHANGED <<entry, cow, host, truth, frame_slot, used, area, conf, file, tier>>
      /\ op' = [op EXCEPT ![m].at = l]
  BY <1>2, Zenon DEF Gate, mapVars, slotVars, Goto
<1>4. /\ op'[m].at = l /\ op'[m].f = o.f /\ op'[m].p = 0 /\ op'[m].slot = o.slot
      /\ op'[m] \in Ops
  BY <1>0, <1>1, <1>3, Zenon DEF Ops, Evicting
<1>5. Shape(m)' /\ ~ Faulting(m)'
  BY <1>0, <1>1, <1>4, SlotRange DEF Shape, Faulting, Evicting, Slot, SwapConstants
<1>6. OnItsWayOut(m)'
  BY <1>0, <1>3, <1>4 DEF Inv, OnItsWayOut
<1> QED BY <1>1, <1>3, <1>4, <1>5, <1>6, OwnSlotInv, Zenon DEF Inv, Types

(* The write to the file, which may fail. *)
LEMMA WriteSlotInv ==
    ASSUME SwapConstants, Inv, NEW m \in Mem, WriteSlot(m) PROVE Inv'
<1> DEFINE o == op[m]
<1>0. o.at = "write" /\ o.at \in Evicting /\ o \in Ops /\ op \in [Mem -> Ops]
  BY Zenon DEF WriteSlot, Evicting, Inv, Types
<1>1. Busy(m) /\ o.slot \in Slot /\ o.f \in Frame /\ o.p = 0
  BY <1>0, EvictionFacts, Zenon
<1>2. PICK l \in {"publish", "forget"} :
        /\ Goto(m, l)
        /\ file' = IF l = "publish" THEN [file EXCEPT ![o.slot] = Bytes(o.f)] ELSE file
  <2>1. CASE file' = [file EXCEPT ![o.slot] = Bytes(o.f)] /\ Goto(m, "publish")
    BY <2>1, Zenon
  <2>2. CASE Goto(m, "forget") /\ file' = file
    BY <2>2, Zenon
  <2> QED BY <2>1, <2>2, Zenon DEF WriteSlot
<1>3. /\ UNCHANGED <<entry, cow, host, truth, frame_slot, used, area, conf, tier>>
      /\ op' = [op EXCEPT ![m].at = l]
  BY <1>2, Zenon DEF WriteSlot, mapVars, Goto
<1>4. /\ op'[m].at = l /\ op'[m].f = o.f /\ op'[m].p = 0 /\ op'[m].slot = o.slot
      /\ op'[m] \in Ops
  BY <1>0, <1>1, <1>3, ZenonT(30) DEF Ops, Evicting
<1>5. Bytes(o.f) \in Stored /\ Bytes(o.f) # Nowhere
  BY <1>1, BytesStored, Zenon DEF Inv
<1>6. /\ tier' \in [Slot -> Stored] /\ file' \in [Slot -> Stored]
      /\ \A x \in Slot : x # o.slot => tier'[x] = tier[x] /\ file'[x] = file[x]
      /\ l = "publish" => file'[o.slot] = Bytes(o.f)
  BY <1>1, <1>2, <1>3, <1>5, Zenon DEF Inv, Types
<1>7. Shape(m)' /\ ~ Faulting(m)'
  BY <1>0, <1>1, <1>4, SlotRange DEF Shape, Faulting, Evicting, Slot, SwapConstants
<1>8. OnItsWayOut(m)'
  <2>1. Bytes(o.f)' = Bytes(o.f) /\ tier[o.slot] = Nowhere /\ area.mode = "file"
    BY <1>0, <1>3, <1>4, Zenon DEF Bytes, Inv, OnItsWayOut
  <2>2. l = "publish" => Found(o.slot)' = Bytes(o.f)
    BY <1>3, <1>4, <1>5, <1>6, <2>1, Zenon DEF Found
  <2> QED BY <1>0, <1>3, <1>4, <2>1, <2>2 DEF Inv, OnItsWayOut
<1> QED BY <1>1, <1>3, <1>4, <1>6, <1>7, <1>8, OwnSlotInv, Zenon

(* zswap_forget of a slot that no frame is out in. *)
LEMMA ForgetInv ==
    ASSUME SwapConstants, Inv, NEW m \in Mem, Forget(m) PROVE Inv'
<1> DEFINE o == op[m]
<1>0. o.at \in {"forget", "drop"} /\ o \in Ops /\ op \in [Mem -> Ops]
  BY Zenon DEF Forget, Inv, Types
<1>1. Busy(m) /\ o.slot \in Slot
  BY <1>0, SlotRange DEF Inv, Shape, Busy, Ops, Slot
<1>2. /\ UNCHANGED <<entry, cow, host, truth, frame_slot, used, area, conf, file>>
      /\ op' = [op EXCEPT ![m].at = "free"] /\ tier' = [tier EXCEPT ![o.slot] = Nowhere]
  BY Zenon DEF Forget, mapVars, slotVars, Goto, ForgetTier
<1>3. /\ op'[m].at = "free" /\ op'[m].f = o.f /\ op'[m].p = o.p /\ op'[m].slot = o.slot
      /\ op'[m] \in Ops
  BY <1>0, <1>2, Zenon DEF Ops
<1>4. /\ tier' \in [Slot -> Stored] /\ file' \in [Slot -> Stored]
      /\ \A x \in Slot : x # o.slot => tier'[x] = tier[x] /\ file'[x] = file[x]
  BY <1>1, <1>2, Zenon DEF Inv, Types, Stored
<1>5. Shape(m)' /\ (Faulting(m)' => Faulting(m)) /\ OnItsWayOut(m)'
  BY <1>0, <1>3, Zenon DEF Inv, Shape, Faulting, OnItsWayOut, Evicting
<1> QED BY <1>1, <1>2, <1>3, <1>4, <1>5, OwnSlotInv, Zenon

(* A sweep takes the free slot s for the frame f, that only m has. *)
AllocStep(m, f, s) ==
    /\ s \in (1 .. area.count) \ used /\ used' = used \cup {s}
    /\ op[m].at = "sweep" /\ Eligible(m, f)
    /\ op' \in [Mem -> Ops] /\ \A n \in Mem : n # m => op'[n] = op[n]
    /\ op'[m].at = "store" /\ op'[m].f = f /\ op'[m].p = 0 /\ op'[m].slot = s
    /\ UNCHANGED <<entry, cow, host, truth, frame_slot, area, file, tier, conf>>

LEMMA AllocInv ==
    ASSUME SwapConstants, Inv, NEW m \in Mem, NEW f \in Frame, NEW s, AllocStep(m, f, s)
    PROVE  Inv'
<1>0. /\ s \in 1 .. MaxSlot /\ s \in 1 .. area.count /\ s \notin used /\ used' = used \cup {s}
      /\ f # 0
  BY SlotRange DEF Inv, Types, SwapConstants, AllocStep
<1>1. /\ op' \in [Mem -> Ops] /\ \A n \in Mem : n # m => op'[n] = op[n]
      /\ op'[m].at = "store" /\ op'[m].f = f /\ op'[m].p = 0 /\ op'[m].slot = s
  BY Zenon DEF AllocStep
<1>2. UNCHANGED <<entry, cow, host, truth, frame_slot, area, file, tier, conf>>
  BY Zenon DEF AllocStep
<1>3. Types' /\ SharedIsCow' /\ OutIsReached'
  BY <1>1, <1>2 DEF Inv, Types, SharedIsCow, OutIsReached
<1>4. \A x : Found(x)' = Found(x)
  BY <1>2, Zenon DEF Found
<1>5. OutIsWhole' /\ ReadsBack'
  BY <1>2, <1>4, StoredKept, Zenon DEF Inv
<1>6. \A n \in Mem : n # m => (Busy(n)' <=> Busy(n)) /\ (Faulting(n)' <=> Faulting(n))
  BY <1>1, Zenon DEF Busy, Faulting
<1>7. SlotsDiffer'
  <2>0. SlotsDiffer
    BY Zenon DEF Inv
  <2>1. \A g \in Frame : frame_slot'[g] = frame_slot[g] /\ frame_slot[g] # s
    BY <1>0, <1>2, <2>0, SlotRange DEF SlotsDiffer
  <2>2. \A n \in Mem : n # m /\ Busy(n) => op'[n] = op[n] /\ op[n].slot # s
    BY <1>0, <1>1, <2>0, Zenon DEF SlotsDiffer
  <2>3. \A g \in Frame : frame_slot'[g] # 0 => frame_slot'[g] \in used'
    BY <1>0, <2>0, <2>1, Zenon DEF SlotsDiffer
  <2>4. \A g, h \in Frame : frame_slot'[g] # 0 /\ frame_slot'[g] = frame_slot'[h] => g = h
    BY <2>0, <2>1 DEF SlotsDiffer
  <2>5. \A n \in Mem : Busy(n)' => op'[n].slot \in used'
    BY <1>0, <1>1, <1>6, <2>0, Zenon DEF SlotsDiffer
  <2>6. \A n \in Mem, g \in Frame : Busy(n)' => op'[n].slot # frame_slot'[g]
    BY <1>1, <1>6, <2>0, <2>1 DEF SlotsDiffer
  <2>7. \A n, k \in Mem : n # k /\ Busy(n)' /\ Busy(k)' => op'[n].slot # op'[k].slot
    BY <1>1, <1>6, <2>0, <2>2, ZenonT(30) DEF SlotsDiffer
  <2>8. used' \subseteq 1 .. area'.count
    BY <1>0, <1>2, <2>0, Zenon DEF SlotsDiffer
  <2> QED BY <2>3, <2>4, <2>5, <2>6, <2>7, <2>8, Zenon DEF SlotsDiffer
<1>8. FramesLocked' /\ ~ Faulting(m)'
  BY <1>1, <1>6 DEF Inv, FramesLocked, Faulting
<1>9. ASSUME NEW n \in Mem, n # m PROVE Shape(n)' /\ OnItsWayOut(n)' /\ OnItsWayHome(n)'
  <2>1. op'[n] = op[n]
    BY <1>1, <1>9, Zenon
  <2>2. Shape(n) /\ OnItsWayOut(n) /\ OnItsWayHome(n)
    BY Zenon DEF Inv
  <2> QED BY <1>2, <2>1, <2>2, OperationKept, Zenon
<1>10. Shape(m)' /\ OnItsWayHome(m)'
  BY <1>0, <1>1, <1>8 DEF Shape, OnItsWayHome, Evicting
<1>11. OnItsWayOut(m)'
  <2>1. Eligible(m, f)
    BY Zenon DEF AllocStep
  <2> QED BY <1>1, <1>2, <2>1, Zenon DEF OnItsWayOut, Eligible, Mapped, Pages
<1> QED BY <1>3, <1>5, <1>7, <1>8, <1>9, <1>10, <1>11, Zenon DEF Inv

(* The frame is out once its bytes are in its slot (swap_evict_frame). *)
LEMMA PublishInv ==
    ASSUME SwapConstants, Inv, NEW m \in Mem, Publish(m) PROVE Inv'
<1> DEFINE o == op[m]
           f == o.f
           s == o.slot
<1>0. o.at = "publish" /\ o.at \in Evicting
  BY Zenon DEF Publish, Evicting
<1>1. /\ Busy(m) /\ s \in Slot /\ f \in Frame /\ s # 0
      /\ \A p \in Page : FrameOf[p] = f => entry[m][p] # "none" /\ ~ cow[m][p]
      /\ \A n \in Mem, p \in Page : n # m => entry[n][p] = "none"
      /\ frame_slot[f] = 0 /\ Found(s) = Bytes(f)
  BY <1>0, EvictionFacts, Zenon DEF Inv, OnItsWayOut, Busy
<1>2. \A n \in Mem : n # m => op[n].at \notin Evicting /\ ~ Faulting(n)
  BY <1>0, EvictsAlone, Zenon
<1>3. /\ Bytes(f) \in [Pages(f) -> V] /\ \A p \in Page : FrameOf[p] = f => Bytes(f)[p] = host[p]
  BY <1>1, Zenon DEF Inv, Types, Bytes, Pages
<1>4. /\ UNCHANGED <<cow, truth, used, area, file, tier, conf>>
      /\ frame_slot' = [frame_slot EXCEPT ![f] = s]
      /\ entry' = [entry EXCEPT ![m] = [p \in Page |-> IF FrameOf[p] = f THEN "out" ELSE @[p]]]
      /\ host' = [p \in Page |-> IF FrameOf[p] = f THEN Lost ELSE host[p]]
      /\ op' = [op EXCEPT ![m] = Sweeping]
  BY Zenon DEF Publish, slotVars, Pages
<1>5. /\ \A g \in Frame : frame_slot'[g] = IF g = f THEN s ELSE frame_slot[g]
      /\ \A n \in Mem : n # m => entry'[n] = entry[n]
      /\ \A p \in Page : entry'[m][p] = IF FrameOf[p] = f THEN "out" ELSE entry[m][p]
      /\ \A p \in Page : FrameOf[p] # f => host'[p] = host[p]
  BY <1>1, <1>4, Zenon DEF Inv, Types
<1>6. /\ op' \in [Mem -> Ops] /\ \A n \in Mem : n # m => op'[n] = op[n]
      /\ op'[m].at = "sweep" /\ op'[m].f = 0 /\ op'[m].p = 0 /\ op'[m].slot = 0
  BY <1>4, IdleShapes, OpUpdate, Zenon DEF Inv
<1> HIDE DEF o, f, s
<1>7. Types'
  <2>1. entry' \in [Mem -> [Page -> {"none", "in", "out"}]] /\ host' \in [Page -> V]
    BY <1>4, ZenonT(30) DEF Inv, Types, V
  <2>2. frame_slot' \in [Frame -> 0 .. MaxSlot]
    BY <1>1, <1>4, SlotRange DEF Inv, Types, Slot
  <2> QED BY <1>4, <1>6, <2>1, <2>2, Zenon DEF Inv, Types
<1>8. SharedIsCow'
  BY <1>1, <1>4, <1>5 DEF Inv, SharedIsCow
<1>9. OutIsReached'
  <2>1. \E q \in Page : FrameOf[q] = f
    BY <1>1, Zenon DEF SwapConstants
  <2> QED BY <1>5, <2>1 DEF Inv, OutIsReached
<1>10. \A g \in Frame : Found(frame_slot[g])' = IF g = f THEN Bytes(f) ELSE Found(frame_slot[g])
  BY <1>1, <1>4, <1>5 DEF Found
<1>11. OutIsWhole'
  <2> SUFFICES ASSUME NEW g \in Frame, frame_slot'[g] # 0
               PROVE  Found(frame_slot[g])' \in [Pages(g) -> V]
    BY Zenon DEF OutIsWhole, Pages, V
  <2>1. CASE g = f
    BY <1>3, <1>10, <2>1, Zenon
  <2>2. CASE g # f
    BY <1>5, <1>10, <2>2, Zenon DEF Inv, OutIsWhole
  <2> QED BY <2>1, <2>2, Zenon
<1>12. \A n \in Mem : Busy(n)' => n # m /\ Busy(n) /\ op'[n] = op[n]
  BY <1>6, Zenon DEF Busy
<1>13. SlotsDiffer'
  <2>1. /\ s \in used /\ \A g \in Frame : s # frame_slot[g]
        /\ \A n \in Mem : n # m /\ Busy(n) => op[n].slot # s
    BY <1>1, Zenon DEF Inv, SlotsDiffer, o, s
  <2>2. SlotsDiffer /\ used' = used /\ area' = area
    BY <1>4, Zenon DEF Inv
  <2>3. \A g \in Frame : frame_slot'[g] # 0 => frame_slot'[g] \in used'
    BY <1>5, <2>1, <2>2, ZenonT(30) DEF SlotsDiffer
  <2>4. \A g, h \in Frame : frame_slot'[g] # 0 /\ frame_slot'[g] = frame_slot'[h] => g = h
    BY <1>5, <2>1, <2>2 DEF SlotsDiffer
  <2>5. \A n \in Mem : Busy(n)' => op'[n].slot \in used'
    BY <1>12, <2>2, Zenon DEF SlotsDiffer
  <2>6. \A n \in Mem, g \in Frame : Busy(n)' => op'[n].slot # frame_slot'[g]
    BY <1>5, <1>12, <2>1, <2>2 DEF SlotsDiffer
  <2>7. \A n, k \in Mem : n # k /\ Busy(n)' /\ Busy(k)' => op'[n].slot # op'[k].slot
    BY <1>12, <2>2, Zenon DEF SlotsDiffer
  <2>8. used' \subseteq 1 .. area'.count
    BY <2>2, Zenon DEF SlotsDiffer
  <2> QED BY <2>3, <2>4, <2>5, <2>6, <2>7, <2>8, Zenon DEF SlotsDiffer
<1>14. \A n \in Mem : ~ Faulting(n)' /\ op'[n].at \notin Evicting
  BY <1>2, <1>6, Zenon DEF Faulting, Evicting
<1>15. FramesLocked' /\ \A n \in Mem : OnItsWayOut(n)' /\ OnItsWayHome(n)'
  BY <1>14, Zenon DEF FramesLocked, OnItsWayOut, OnItsWayHome
<1>16. ASSUME NEW n \in Mem PROVE Shape(n)'
  BY <1>6, Zenon DEF Inv, Shape, Evicting
<1>17. ASSUME NEW n \in Mem, NEW p \in Page PROVE Reads(n, p)'
  <2>0. FrameOf[p] \in Frame /\ Reads(n, p)
    BY ReadsBackIs, Zenon DEF SwapConstants, Inv
  <2>1. CASE n # m
    BY <1>1, <1>5, <2>1, ZenonT(30) DEF Reads
  <2>2. CASE n = m /\ FrameOf[p] # f
    BY <1>4, <1>5, <1>10, <2>0, <2>2 DEF Reads
  <2>3. CASE n = m /\ FrameOf[p] = f
    <3>1. entry[m][p] \in {"in", "out"}
      BY <1>1, <2>3 DEF Inv, Types
    <3>2. host[p] = truth[m][p]
      BY <1>1, <2>0, <2>3, <3>1, Zenon DEF Reads
    <3>3. Bytes(f) # Nowhere
      BY <1>1, BytesStored, Zenon DEF Inv
    <3> QED BY <1>1, <1>3, <1>4, <1>5, <1>10, <2>3, <3>2, <3>3 DEF Reads
  <2> QED BY <2>1, <2>2, <2>3, Zenon
<1>18. ReadsBack'
  BY <1>17, Zenon DEF ReadsBack, Reads
<1> QED BY <1>7, <1>8, <1>9, <1>11, <1>13, <1>15, <1>16, <1>18, Zenon DEF Inv

(* Of a frame on its way home. *)
LEMMA FaultFacts ==
    ASSUME SwapConstants, Inv, NEW m \in Mem, Faulting(m)
    PROVE  /\ op[m].p \in Page /\ op[m].f = FrameOf[op[m].p] /\ op[m].f \in Frame
           /\ op[m].slot \in Slot /\ entry[m][op[m].p] = "out"
           /\ frame_slot[op[m].f] = IF op[m].at = "read" THEN op[m].slot ELSE 0
           /\ \A n \in Mem : op[n].at \notin Evicting
<1>1. op[m] \in Ops /\ Shape(m) /\ OnItsWayHome(m)
  BY ZenonT(30) DEF Inv, Types
<1>2. op[m].p \in Page /\ op[m].f = FrameOf[op[m].p] /\ op[m].slot \in Slot
  BY <1>1, SlotRange DEF Ops, Faulting, Shape, Slot
<1>3. op[m].f \in Frame
  BY <1>2, Zenon DEF SwapConstants
<1>4. \A n \in Mem : op[n].at \notin Evicting
  BY EvictsAlone, Zenon DEF Faulting, Evicting
<1> QED BY <1>1, <1>2, <1>3, <1>4, Zenon DEF OnItsWayHome

(* The frame is read from its slot, and is home for everybody who has it   *)
(* (swap_fault_page_locked).                                               *)
LEMMA ReadInv ==
    ASSUME SwapConstants, Inv, NEW m \in Mem, op[m].at = "read", Found(op[m].slot) # Nowhere,
           host' = [p \in Page |-> IF p \in Pages(op[m].f) THEN Found(op[m].slot)[p] ELSE host[p]],
           frame_slot' = [frame_slot EXCEPT ![op[m].f] = 0],
           op' = [op EXCEPT ![m].at = "forget"],
           UNCHANGED <<entry, cow, truth, used, area, file, tier, conf>>
    PROVE  Inv'
<1> DEFINE o == op[m]
           f == o.f
           s == o.slot
<1>0. Faulting(m)
  BY Zenon DEF Faulting, Inv, Shape
<1>1. /\ o.p \in Page /\ f = FrameOf[o.p] /\ f \in Frame /\ s \in Slot /\ s # 0
      /\ entry[m][o.p] = "out" /\ frame_slot[f] = s
      /\ \A n \in Mem : op[n].at \notin Evicting
  BY <1>0, FaultFacts DEF Slot
<1>2. /\ op' \in [Mem -> Ops] /\ \A n \in Mem : n # m => op'[n] = op[n]
      /\ op'[m].at = "forget" /\ op'[m].f = f /\ op'[m].p = o.p /\ op'[m].slot = s
  BY ZenonT(30) DEF Inv, Types, Ops
<1>3. \A g \in Frame : frame_slot'[g] = IF g = f THEN 0 ELSE frame_slot[g]
  BY <1>1, Zenon DEF Inv, Types
<1>4. \A p \in Page : host'[p] = IF FrameOf[p] = f THEN Found(s)[p] ELSE host[p]
  BY Zenon DEF Pages
<1>5. Found(s) \in [Pages(f) -> V]
  BY <1>1, Zenon DEF Inv, OutIsWhole
<1> HIDE DEF o, f, s
<1>6. Types'
  <2>1. host' \in [Page -> V]
    BY <1>4, <1>5, Zenon DEF Inv, Types, Pages, f, o, s
  <2>2. frame_slot' \in [Frame -> 0 .. MaxSlot]
    <3>1. frame_slot \in [Frame -> 0 .. MaxSlot] /\ 0 \in 0 .. MaxSlot
      BY SlotRange DEF Inv, Types
    <3> QED BY <3>1, Zenon
  <2> QED BY <1>2, <2>1, <2>2, Zenon DEF Inv, Types
<1>7. SharedIsCow' /\ OutIsReached'
  BY <1>3 DEF Inv, SharedIsCow, OutIsReached
<1>8. \A g \in Frame : g # f => Found(frame_slot[g])' = Found(frame_slot[g])
  BY <1>3 DEF Found
<1>9. OutIsWhole'
  <2> SUFFICES ASSUME NEW g \in Frame, frame_slot'[g] # 0
               PROVE  Found(frame_slot[g])' \in [Pages(g) -> V]
    BY Zenon DEF OutIsWhole, Pages, V
  <2> QED BY <1>3, <1>8, Zenon DEF Inv, OutIsWhole
<1>10. \A n \in Mem : n # m => (Busy(n)' <=> Busy(n)) /\ (Faulting(n)' <=> Faulting(n))
  BY <1>2, Zenon DEF Busy, Faulting
<1>11. SlotsDiffer'
  <2>1. /\ s \in used /\ \A g \in Frame : g # f => s # frame_slot[g]
        /\ \A n \in Mem : Busy(n) => op[n].slot # s
    BY <1>1, Zenon DEF Inv, SlotsDiffer
  <2> QED BY <1>2, <1>3, <1>10, <2>1 DEF Inv, SlotsDiffer
<1>12. FramesLocked'
  <2>1. \A n \in Mem : /\ Faulting(n)' => Faulting(n)
                       /\ op'[n].f = op[n].f
    BY <1>0, <1>2, <1>10, Zenon DEF o, f
  <2> QED BY <2>1 DEF Inv, FramesLocked
<1>13. ASSUME NEW n \in Mem PROVE OnItsWayOut(n)'
  BY <1>1, <1>2, Zenon DEF OnItsWayOut, Evicting
<1>14. ASSUME NEW n \in Mem PROVE OnItsWayHome(n)'
  <2>1. CASE n = m
    BY <1>1, <1>2, <1>3, <2>1 DEF OnItsWayHome
  <2>2. CASE n # m
    <3> SUFFICES ASSUME Faulting(n)' PROVE OnItsWayHome(n)'
      BY Zenon DEF OnItsWayHome
    <3>1. Faulting(n) /\ op[n].f # f /\ op[n].f \in Frame
      BY <1>0, <1>10, <2>2, FaultFacts, Zenon DEF Inv, FramesLocked, o, f
    <3> QED BY <1>2, <1>3, <2>2, <3>1 DEF Inv, OnItsWayHome
  <2> QED BY <2>1, <2>2, Zenon
<1>15. ASSUME NEW n \in Mem PROVE Shape(n)'
  BY <1>1, <1>2 DEF Inv, Shape, Evicting, Slot
<1>16. ASSUME NEW n \in Mem, NEW p \in Page PROVE Reads(n, p)'
  <2>0. FrameOf[p] \in Frame /\ Reads(n, p)
    BY ReadsBackIs, Zenon DEF SwapConstants, Inv
  <2>1. CASE FrameOf[p] # f
    BY <1>3, <1>4, <1>8, <2>0, <2>1 DEF Reads
  <2>2. CASE FrameOf[p] = f
    BY <1>1, <1>3, <1>4, <2>0, <2>2 DEF Reads
  <2> QED BY <2>1, <2>2, Zenon
<1>17. ReadsBack'
  BY <1>16, Zenon DEF ReadsBack, Reads
<1> QED BY <1>6, <1>7, <1>9, <1>11, <1>12, <1>13, <1>14, <1>15, <1>17, Zenon DEF Inv

(* m shows pages of frames that are home, and may give a slot back: the    *)
(* ends of swap_fault_page_locked and of a failed eviction, swap_slot_free.*)
HomeStep(m, s) ==
    /\ s \in 0 .. MaxSlot
    /\ UNCHANGED <<cow, host, truth, frame_slot, tier, conf>>
    /\ used' = used \ {s} /\ (area' = area \/ (used' = {} /\ area' = NoArea))
    /\ file' \in [Slot -> Stored] /\ \A x \in Slot : x # s => file'[x] = file[x]
    /\ \A f \in Frame : frame_slot[f] # 0 => frame_slot[f] # s
    /\ op' \in [Mem -> Ops] /\ ~ Faulting(m)'
    /\ \A n \in Mem :
          \/ op'[n] = op[n] /\ (Busy(n) => op[n].slot # s)
          \/ /\ op'[n].at \in {"idle", "sweep", "walk"}
             /\ op'[n].f = 0 /\ op'[n].slot = 0 /\ (op'[n].at # "walk" => op'[n].p = 0)
    /\ entry' \in [Mem -> [Page -> {"none", "in", "out"}]]
    /\ \A n \in Mem, p \in Page : entry'[n][p] # entry[n][p] =>
          n = m /\ entry[n][p] = "out" /\ entry'[n][p] = "in" /\ frame_slot[FrameOf[p]] = 0

LEMMA HomeInv ==
    ASSUME SwapConstants, Inv, NEW m \in Mem, NEW s, HomeStep(m, s) PROVE Inv'
<1>1. \A n \in Mem : /\ Faulting(n)' => Faulting(n) /\ op'[n] = op[n] /\ n # m
                     /\ Busy(n)' => Busy(n) /\ op'[n] = op[n] /\ op[n].slot # s
                     /\ op'[n].at \in Evicting => op'[n] = op[n]
  <2> SUFFICES ASSUME NEW n \in Mem
               PROVE  /\ Faulting(n)' => Faulting(n) /\ op'[n] = op[n] /\ n # m
                      /\ Busy(n)' => Busy(n) /\ op'[n] = op[n] /\ op[n].slot # s
                      /\ op'[n].at \in Evicting => op'[n] = op[n]
    BY Zenon
  <2>1. CASE op'[n] = op[n] /\ (Busy(n) => op[n].slot # s)
    <3>1. (Faulting(n)' <=> Faulting(n)) /\ (Busy(n)' <=> Busy(n))
      BY <2>1, Zenon DEF Faulting, Busy
    <3>2. ~ Faulting(m)'
      BY Zenon DEF HomeStep
    <3> QED BY <2>1, <3>1, <3>2, Zenon
  <2>2. CASE op'[n].at \in {"idle", "sweep", "walk"} /\ op'[n].slot = 0
    BY <2>2, Zenon DEF Faulting, Busy, Evicting
  <2> QED BY <2>1, <2>2, Zenon DEF HomeStep
<1>2. /\ UNCHANGED <<cow, host, truth, frame_slot, tier, conf>> /\ used' = used \ {s}
      /\ area' = area \/ (used' = {} /\ area' = NoArea)
  BY Zenon DEF HomeStep
<1>3. /\ entry' \in [Mem -> [Page -> {"none", "in", "out"}]]
      /\ \A n \in Mem, p \in Page : entry'[n][p] # entry[n][p] =>
            n = m /\ entry[n][p] = "out" /\ entry'[n][p] = "in" /\ frame_slot[FrameOf[p]] = 0
  BY Zenon DEF HomeStep
<1>4. \A n \in Mem, p \in Page : entry'[n][p] = "none" <=> entry[n][p] = "none"
  BY <1>3, Zenon
<1>5. Types'
  <2>1. area' \in [mode : {"none", "file", "ram"}, count : 0 .. MaxSlot]
    BY <1>2, SlotRange DEF Inv, Types, NoArea
  <2>2. op' \in [Mem -> Ops] /\ file' \in [Slot -> Stored]
    BY Zenon DEF HomeStep
  <2> QED BY <1>2, <1>3, <2>1, <2>2 DEF Inv, Types
<1>6. SharedIsCow'
  BY <1>2, <1>4 DEF Inv, SharedIsCow
<1>7. OutIsReached'
  BY <1>2, <1>4 DEF Inv, OutIsReached
<1>8. SlotsDiffer'
  <2>1. SlotsDiffer /\ \A g \in Frame : frame_slot'[g] # 0 => frame_slot'[g] # s
    BY <1>2 DEF Inv, HomeStep
  <2>2. used' \subseteq 1 .. area'.count
    BY <1>2, <2>1, Zenon DEF SlotsDiffer
  <2>3. \A g \in Frame : frame_slot'[g] # 0 => frame_slot'[g] \in used'
    BY <1>2, <2>1 DEF SlotsDiffer
  <2>4. \A g, h \in Frame : frame_slot'[g] # 0 /\ frame_slot'[g] = frame_slot'[h] => g = h
    BY <1>2, <2>1, ZenonT(30) DEF SlotsDiffer
  <2>5. \A n \in Mem : Busy(n)' => op'[n].slot \in used'
    BY <1>1, <1>2, <2>1 DEF SlotsDiffer
  <2>6. \A n \in Mem, g \in Frame : Busy(n)' => op'[n].slot # frame_slot'[g]
    BY <1>1, <1>2, <2>1 DEF SlotsDiffer
  <2>7. \A n, k \in Mem : n # k /\ Busy(n)' /\ Busy(k)' => op'[n].slot # op'[k].slot
    BY <1>1, <2>1 DEF SlotsDiffer
  <2> QED BY <2>2, <2>3, <2>4, <2>5, <2>6, <2>7, Zenon DEF SlotsDiffer
<1>9. FramesLocked'
  BY <1>1, Zenon DEF Inv, FramesLocked
<1>10. ASSUME NEW x \in used, x # s PROVE x \in Slot /\ area' = area /\ Found(x)' = Found(x)
  <2>1. x \in Slot
    BY SlotRange DEF Inv, SlotsDiffer, Types, Slot
  <2>2. area' = area /\ tier' = tier
    BY <1>2, <1>10, Zenon
  <2>3. file'[x] = file[x]
    BY <1>10, <2>1, Zenon DEF HomeStep
  <2> QED BY <2>1, <2>2, <2>3, Zenon DEF Found
<1>11. \A f \in Frame : frame_slot[f] # 0 => Found(frame_slot[f])' = Found(frame_slot[f])
  <2> SUFFICES ASSUME NEW f \in Frame, frame_slot[f] # 0
               PROVE  Found(frame_slot[f])' = Found(frame_slot[f])
    BY Zenon
  <2>1. frame_slot[f] \in used /\ frame_slot[f] # s /\ frame_slot' = frame_slot
    BY <1>2, Zenon DEF Inv, SlotsDiffer, HomeStep
  <2>2. area' = area /\ tier' = tier /\ frame_slot[f] \in Slot
    BY <1>2, <1>10, <2>1, Zenon
  <2>3. file'[frame_slot[f]] = file[frame_slot[f]]
    BY <2>1, <2>2, Zenon DEF HomeStep
  <2> QED BY <2>1, <2>2, <2>3, Zenon DEF Found
<1>12. OutIsWhole'
  <2> SUFFICES ASSUME NEW f \in Frame, frame_slot[f] # 0
               PROVE  Found(frame_slot[f])' \in [Pages(f) -> V]
    BY <1>2, Zenon DEF OutIsWhole, Pages, V
  <2> QED BY <1>11, Zenon DEF Inv, OutIsWhole
<1>13. ReadsBack'
  <2> SUFFICES ASSUME NEW n \in Mem, NEW p \in Page PROVE Reads(n, p)'
    BY Zenon DEF ReadsBack, Reads
  <2>1. FrameOf[p] \in Frame /\ Reads(n, p)
    BY ReadsBackIs, Zenon DEF SwapConstants, Inv
  <2>2. entry[n][p] \in {"none", "in", "out"} /\ entry'[n][p] \in {"none", "in", "out"}
    BY <1>3 DEF Inv, Types
  <2>3. CASE entry'[n][p] = entry[n][p]
    BY <1>2, <1>11, <2>1, <2>3, Zenon DEF Reads
  <2>4. CASE entry'[n][p] # entry[n][p]
    BY <1>2, <1>3, <2>1, <2>4 DEF Reads
  <2> QED BY <2>3, <2>4, Zenon
<1>14. ASSUME NEW n \in Mem PROVE Shape(n)'
  <2>1. Shape(n)
    BY Zenon DEF Inv
  <2>2. CASE op'[n] = op[n]
    BY <2>1, <2>2, Zenon DEF Shape
  <2>3. CASE /\ op'[n].at \in {"idle", "sweep", "walk"}
             /\ op'[n].f = 0 /\ op'[n].slot = 0 /\ (op'[n].at # "walk" => op'[n].p = 0)
    BY <2>3, ZenonT(30) DEF Shape, Evicting
  <2> QED BY <2>2, <2>3, Zenon DEF HomeStep
<1>15. ASSUME NEW n \in Mem PROVE OnItsWayOut(n)'
  <2> SUFFICES ASSUME op'[n].at \in Evicting PROVE OnItsWayOut(n)'
    BY Zenon DEF OnItsWayOut
  <2>1. op'[n] = op[n] /\ OnItsWayOut(n)
    BY <1>1, Zenon DEF Inv
  <2>2. Busy(n) /\ Busy(n)'
    BY <2>1, EvictionFacts, Zenon DEF Busy
  <2>3. op[n].slot \in used /\ op[n].slot # s
    BY <1>1, <2>2, Zenon DEF Inv, SlotsDiffer
  <2>4. area' = area /\ Found(op[n].slot)' = Found(op[n].slot)
    <3>1. area' = area /\ tier' = tier /\ op[n].slot \in Slot
      BY <1>2, <1>10, <2>3, Zenon
    <3>2. file'[op[n].slot] = file[op[n].slot]
      BY <2>3, <3>1, Zenon DEF HomeStep
    <3> QED BY <2>1, <3>1, <3>2, Zenon DEF Found
  <2>5. /\ \A p \in Page : FrameOf[p] = op[n].f => entry'[n][p] # "none" /\ ~ cow'[n][p]
        /\ \A k \in Mem, p \in Page : k # n => entry'[k][p] = "none"
    <3>1. /\ \A p \in Page : FrameOf[p] = op[n].f => entry[n][p] # "none" /\ ~ cow[n][p]
          /\ \A k \in Mem, p \in Page : k # n => entry[k][p] = "none"
      BY <2>1, EvictionFacts, Zenon
    <3> QED BY <1>2, <1>4, <3>1, Zenon
  <2>6. Bytes(op[n].f)' = Bytes(op[n].f)
    BY <1>2, <2>1, Zenon DEF Bytes
  <2> QED BY <1>2, <2>1, <2>4, <2>5, <2>6 DEF OnItsWayOut
<1>16. ASSUME NEW n \in Mem PROVE OnItsWayHome(n)'
  <2> SUFFICES ASSUME Faulting(n)' PROVE OnItsWayHome(n)'
    BY Zenon DEF OnItsWayHome
  <2>1. Faulting(n) /\ op'[n] = op[n] /\ n # m
    BY <1>1, Zenon
  <2>2. op[n].p \in Page
    BY <2>1, FaultFacts, Zenon
  <2>3. entry'[n][op[n].p] = entry[n][op[n].p]
    BY <1>3, <2>1, <2>2, Zenon
  <2> QED BY <1>2, <2>1, <2>3 DEF Inv, OnItsWayHome
<1> QED BY <1>5, <1>6, <1>7, <1>8, <1>9, <1>12, <1>13, <1>14, <1>15, <1>16 DEF Inv

(* What Shown changes. *)
LEMMA ShownFacts ==
    ASSUME SwapConstants, Inv, NEW m \in Mem, NEW p \in Page, frame_slot[FrameOf[p]] = 0,
           entry' = [entry EXCEPT ![m] = Shown(m, p)]
    PROVE  /\ entry' \in [Mem -> [Page -> {"none", "in", "out"}]]
           /\ \A n \in Mem, q \in Page : entry'[n][q] # entry[n][q] =>
                 n = m /\ entry[n][q] = "out" /\ entry'[n][q] = "in" /\ frame_slot[FrameOf[q]] = 0
<1>1. entry \in [Mem -> [Page -> {"none", "in", "out"}]]
  BY Zenon DEF Inv, Types
<1>2. /\ Shown(m, p) \in [Page -> {"none", "in", "out"}]
      /\ \A q \in Page : Shown(m, p)[q] # entry[m][q] =>
            entry[m][q] = "out" /\ Shown(m, p)[q] = "in" /\ FrameOf[q] = FrameOf[p]
  BY <1>1, Zenon DEF Shown
<1>3. entry' \in [Mem -> [Page -> {"none", "in", "out"}]]
  BY <1>1, <1>2, Zenon
<1>4. \A n \in Mem : entry'[n] = IF n = m THEN Shown(m, p) ELSE entry[n]
  BY <1>1, Zenon
<1> QED BY <1>2, <1>3, <1>4

(* What an operation that ends becomes. *)
LEMMA DoneFacts ==
    ASSUME SwapConstants, Inv, NEW m \in Mem, Done(m) \/ op' = [op EXCEPT ![m] = Sweeping]
    PROVE  /\ op' \in [Mem -> Ops] /\ \A n \in Mem : n # m => op'[n] = op[n]
           /\ op'[m].at \in {"idle", "sweep", "walk"} /\ op'[m].f = 0 /\ op'[m].slot = 0
           /\ op'[m].at # "walk" => op'[m].p = 0
<1>1. op[m].p \in Page \cup {0}
  BY Zenon DEF Inv, Types, Ops
<1>2. PICK r \in Ops : /\ op' = [op EXCEPT ![m] = r]
                       /\ r.at \in {"idle", "sweep", "walk"} /\ r.f = 0 /\ r.slot = 0
                       /\ r.at # "walk" => r.p = 0
  <2>1. CASE Done(m) /\ op[m].walk
    BY <1>1, <2>1, IdleShapes, Zenon DEF Done
  <2>2. CASE Done(m) /\ ~ op[m].walk
    BY <2>2, IdleShapes, Zenon DEF Done
  <2>3. CASE op' = [op EXCEPT ![m] = Sweeping]
    BY <2>3, IdleShapes, Zenon
  <2> QED BY <2>1, <2>2, <2>3, Zenon
<1> QED BY <1>2, OpUpdate, Zenon DEF Inv

(* swap_slot_read, done or failed. *)
LEMMA ReadSlotInv ==
    ASSUME SwapConstants, Inv, NEW m \in Mem, ReadSlot(m) PROVE Inv'
<1>1. op[m].at = "read" /\ UNCHANGED <<entry, cow, truth, used, area, file, tier, conf>>
  BY Zenon DEF ReadSlot, slotVars
<1>2. CASE /\ Found(op[m].slot) # Nowhere
           /\ host' = [p \in Page |-> IF p \in Pages(op[m].f) THEN Found(op[m].slot)[p]
                                      ELSE host[p]]
           /\ frame_slot' = [frame_slot EXCEPT ![op[m].f] = 0]
           /\ Goto(m, "forget")
  BY <1>1, <1>2, ReadInv, ZenonT(30) DEF Goto
<1>3. CASE Done(m) /\ UNCHANGED <<host, frame_slot>>
  <2>1. /\ op' \in [Mem -> Ops] /\ \A n \in Mem : n # m => op'[n] = op[n]
        /\ op'[m].at \in {"idle", "sweep", "walk"} /\ op'[m].f = 0 /\ op'[m].slot = 0
        /\ op'[m].at # "walk" => op'[m].p = 0
    BY <1>3, DoneFacts, Zenon
  <2> QED BY <1>1, <1>3, <2>1, QuietInv DEF Inv, Types
<1> QED BY <1>2, <1>3, Zenon DEF ReadSlot

(* swap_slot_free, and the entries of a frame that has come home. *)
LEMMA FreeInv ==
    ASSUME SwapConstants, Inv, NEW m \in Mem, Free(m) PROVE Inv'
<1> DEFINE o == op[m]
           s == o.slot
<1>1. /\ o.at = "free" /\ swap_slot_free(s)
      /\ UNCHANGED <<cow, host, truth, frame_slot, tier, conf>>
      /\ Done(m) \/ op' = [op EXCEPT ![m] = Sweeping]
  BY Zenon DEF Free
<1>2. s \in Slot /\ s # 0 /\ Busy(m) /\ o \in Ops
  BY <1>1, SlotRange DEF Inv, Types, Ops, Shape, Slot, Busy
<1>3. /\ op' \in [Mem -> Ops] /\ \A n \in Mem : n # m => op'[n] = op[n]
      /\ op'[m].at \in {"idle", "sweep", "walk"} /\ op'[m].f = 0 /\ op'[m].slot = 0
      /\ op'[m].at # "walk" => op'[m].p = 0
  BY <1>1, DoneFacts, Zenon
<1>4. ~ Faulting(m)'
  BY <1>3, Zenon DEF Faulting
<1>5. /\ used' = used \ {s} /\ (area' = area \/ (used' = {} /\ area' = NoArea))
      /\ file' = [file EXCEPT ![s] = Nowhere]
  BY <1>1, Zenon DEF swap_slot_free, Drained
<1>6. file' \in [Slot -> Stored] /\ \A x \in Slot : x # s => file'[x] = file[x]
  <2>1. file \in [Slot -> Stored] /\ Nowhere \in Stored
    BY Zenon DEF Inv, Types, Stored
  <2> QED BY <1>5, <2>1, Zenon
<1>7. /\ \A f \in Frame : frame_slot[f] # 0 => frame_slot[f] # s
      /\ \A n \in Mem : n # m => (Busy(n) => op[n].slot # s)
  BY <1>2, Zenon DEF Inv, SlotsDiffer
<1>8. /\ entry' \in [Mem -> [Page -> {"none", "in", "out"}]]
      /\ \A n \in Mem, p \in Page : entry'[n][p] # entry[n][p] =>
            n = m /\ entry[n][p] = "out" /\ entry'[n][p] = "in" /\ frame_slot[FrameOf[p]] = 0
  <2>1. CASE o.p = 0
    BY <2>1, Zenon DEF Free, Inv, Types
  <2>2. CASE o.p # 0
    <3>1. entry' = [entry EXCEPT ![m] = Shown(m, o.p)]
      BY <2>2, Zenon DEF Free
    <3>2. Faulting(m)
      BY <1>1, <2>2, Zenon DEF Faulting
    <3>3. o.p \in Page /\ frame_slot[FrameOf[o.p]] = 0
      BY <1>1, <3>2, FaultFacts, Zenon
    <3> QED BY <3>1, <3>3, ShownFacts, ZenonT(30)
  <2> QED BY <2>1, <2>2, Zenon
<1>9. s \in 0 .. MaxSlot
  BY <1>2, SlotRange DEF Slot
<1> HIDE DEF o, s
<1>10. \A n \in Mem :
          \/ op'[n] = op[n] /\ (Busy(n) => op[n].slot # s)
          \/ /\ op'[n].at \in {"idle", "sweep", "walk"}
             /\ op'[n].f = 0 /\ op'[n].slot = 0 /\ (op'[n].at # "walk" => op'[n].p = 0)
  BY <1>3, <1>7, Zenon
<1>11. /\ UNCHANGED <<cow, host, truth, frame_slot, tier, conf>>
       /\ op' \in [Mem -> Ops] /\ \A f \in Frame : frame_slot[f] # 0 => frame_slot[f] # s
       /\ used' = used \ {s} /\ (area' = area \/ (used' = {} /\ area' = NoArea))
  BY <1>1, <1>3, <1>5, <1>7, Zenon
<1>12. HomeStep(m, s)
  BY <1>4, <1>6, <1>8, <1>9, <1>10, <1>11, Zenon DEF HomeStep
<1> QED BY <1>12, HomeInv, Zenon

(* The fault starts: m takes the lock of a frame that is out. *)
ReadStep(m, p) ==
    /\ op[m].at \in {"idle", "walk"} /\ entry[m][p] = "out" /\ ~ FrameLocked(FrameOf[p])
    /\ frame_slot[FrameOf[p]] # 0
    /\ op' \in [Mem -> Ops] /\ \A n \in Mem : n # m => op'[n] = op[n]
    /\ op'[m].at = "read" /\ op'[m].f = FrameOf[p] /\ op'[m].p = p
    /\ op'[m].slot = frame_slot[FrameOf[p]]
    /\ UNCHANGED <<entry, cow, host, truth, frame_slot, used, area, file, tier, conf>>

LEMMA StartInv ==
    ASSUME SwapConstants, Inv, NEW m \in Mem, NEW p \in Page, ReadStep(m, p)
    PROVE  Inv'
<1>1. /\ op' \in [Mem -> Ops] /\ \A n \in Mem : n # m => op'[n] = op[n]
      /\ op'[m].at = "read" /\ op'[m].f = FrameOf[p] /\ op'[m].p = p
      /\ op'[m].slot = frame_slot[FrameOf[p]]
  BY Zenon DEF ReadStep
<1>2. UNCHANGED <<entry, cow, host, truth, frame_slot, used, area, file, tier, conf>>
  BY Zenon DEF ReadStep
<1>3. /\ p # 0 /\ FrameOf[p] \in Frame /\ entry[m][p] = "out" /\ frame_slot[FrameOf[p]] # 0
      /\ op[m].at \in {"idle", "walk"}
  BY ZenonT(30) DEF SwapConstants, ReadStep
<1>4. Types' /\ SharedIsCow' /\ OutIsReached'
  BY <1>1, <1>2 DEF Inv, Types, SharedIsCow, OutIsReached
<1>5. ReadsBack' /\ OutIsWhole'
  <2>1. \A f \in Frame : frame_slot[f] # 0 => Found(frame_slot[f])' = Found(frame_slot[f])
    BY <1>2, Zenon DEF Found
  <2> QED BY <1>2, <2>1, StoredKept, Zenon DEF Inv
<1>6. \A n \in Mem : /\ Busy(n)' => Busy(n) /\ op'[n] = op[n]
                     /\ Faulting(n)' /\ n # m => Faulting(n) /\ op'[n] = op[n]
  <2>1. ~ Busy(m)'
    BY <1>1, Zenon DEF Busy
  <2>2. \A n \in Mem : n # m => (Busy(n)' <=> Busy(n)) /\ (Faulting(n)' <=> Faulting(n))
    BY <1>1, ZenonT(30) DEF Busy, Faulting
  <2> QED BY <1>1, <2>1, <2>2, Zenon
<1>7. SlotsDiffer'
  <2>1. SlotsDiffer
    BY ZenonT(30) DEF Inv
  <2> QED BY <1>2, <1>6, <2>1 DEF SlotsDiffer
<1>8. FramesLocked'
  <2>1. \A n \in Mem : Faulting(n) => op[n].f # FrameOf[p]
    BY Zenon DEF Faulting, FrameLocked, ReadStep
  <2>2. FramesLocked
    BY Zenon DEF Inv
  <2> QED BY <1>1, <1>6, <2>1, <2>2 DEF FramesLocked
<1>9. Shape(m)' /\ OnItsWayOut(m)' /\ OnItsWayHome(m)'
  BY <1>1, <1>2, <1>3, Zenon DEF Shape, OnItsWayOut, OnItsWayHome, Evicting
<1>10. ASSUME NEW n \in Mem, n # m PROVE Shape(n)' /\ OnItsWayOut(n)' /\ OnItsWayHome(n)'
  <2>1. op'[n] = op[n] /\ Shape(n) /\ OnItsWayOut(n) /\ OnItsWayHome(n)
    BY <1>1, <1>10, Zenon DEF Inv
  <2> QED BY <1>2, <2>1, OperationKept, Zenon
<1> QED BY <1>4, <1>5, <1>7, <1>8, <1>9, <1>10 DEF Inv

(* swap_fault_page_locked from its start. *)
LEMMA FaultStartInv ==
    ASSUME SwapConstants, Inv, NEW m \in Mem, NEW p \in Page, NEW w \in BOOLEAN,
           op[m].at \in {"idle", "walk"}, FaultStart(m, p, w)
    PROVE  Inv'
<1>1. /\ entry[m][p] = "out" /\ ~ FrameLocked(FrameOf[p])
      /\ UNCHANGED <<cow, host, truth, frame_slot, used, area, file, tier, conf>>
  BY Zenon DEF FaultStart, slotVars
<1>2. CASE frame_slot[FrameOf[p]] = 0
  <2>1. entry' = [entry EXCEPT ![m] = Shown(m, p)] /\ op' = op
    BY <1>2, Zenon DEF FaultStart
  <2>2. /\ entry' \in [Mem -> [Page -> {"none", "in", "out"}]]
        /\ \A n \in Mem, q \in Page : entry'[n][q] # entry[n][q] =>
              n = m /\ entry[n][q] = "out" /\ entry'[n][q] = "in" /\ frame_slot[FrameOf[q]] = 0
    BY <1>2, <2>1, ShownFacts, Zenon
  <2>3. 0 \in 0 .. MaxSlot /\ used' = used \ {0}
    BY <1>1, SlotRange DEF Inv, SlotsDiffer, Types
  <2>4. ~ Faulting(m)' /\ \A n \in Mem : Busy(n) => op[n].slot # 0
    BY <2>1, Zenon DEF Faulting, Busy
  <2>5. file' \in [Slot -> Stored] /\ op' \in [Mem -> Ops]
    BY <1>1, <2>1, Zenon DEF Inv, Types
  <2>6. HomeStep(m, 0)
    BY <1>1, <2>1, <2>2, <2>3, <2>4, <2>5, Zenon DEF HomeStep
  <2> QED BY <2>6, HomeInv, Zenon
<1>3. CASE frame_slot[FrameOf[p]] # 0
  <2>1. PICK r \in Ops : /\ r.at = "read" /\ r.f = FrameOf[p] /\ r.p = p
                         /\ r.slot = frame_slot[FrameOf[p]]
                         /\ op' = [op EXCEPT ![m] = r]
    <3>1. FrameOf[p] \in Frame /\ frame_slot[FrameOf[p]] \in 0 .. MaxSlot
      BY Zenon DEF Inv, Types, SwapConstants
    <3>2. op' = [op EXCEPT ![m] = [at |-> "read", f |-> FrameOf[p], p |-> p,
                                   slot |-> frame_slot[FrameOf[p]], walk |-> w]]
      BY <1>3, Zenon DEF FaultStart, Doing
    <3>3. [at |-> "read", f |-> FrameOf[p], p |-> p, slot |-> frame_slot[FrameOf[p]], walk |-> w]
             \in Ops
      BY <3>1, Zenon DEF Ops
    <3> QED BY <3>2, <3>3, Zenon
  <2>2. entry' = entry
    BY <1>3, Zenon DEF FaultStart
  <2>3. op' \in [Mem -> Ops] /\ op'[m] = r /\ \A n \in Mem : n # m => op'[n] = op[n]
    BY <2>1, OpUpdate, Zenon DEF Inv
  <2>4. /\ op'[m].at = "read" /\ op'[m].f = FrameOf[p] /\ op'[m].p = p
        /\ op'[m].slot = frame_slot[FrameOf[p]]
    BY <2>1, <2>3, Zenon
  <2>5. ReadStep(m, p)
    BY <1>1, <1>3, <2>2, <2>3, <2>4, Zenon DEF ReadStep
  <2> QED BY <2>5, StartInv, Zenon
<1> QED BY <1>2, <1>3, Zenon
=============================================================================
