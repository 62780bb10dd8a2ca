-------------------------- MODULE SwapGuestProofs ---------------------------
(***************************************************************************)
(* For any number of address spaces, pages, frames and slots, and any way  *)
(* of cutting pages into frames: what a guest wrote is what it reads back, *)
(* wherever the pager has put the frame; a pager that is reported still    *)
(* writes nothing; a slot in use has one owner; and a swapoff that nothing *)
(* hindered leaves nothing out.                                            *)
(***************************************************************************)
EXTENDS SwapProofs

(* While m is not evicting and has a page, nobody evicts. *)
LEMMA NobodyEvicts ==
    ASSUME SwapConstants, Inv, NEW m \in Mem, op[m].at \notin Evicting,
           NEW p \in Page, entry[m][p] # "none"
    PROVE  \A n \in Mem : op[n].at \notin Evicting
BY EvictionFacts, Zenon

(* A new mapping. *)
LEMMA MapInv ==
    ASSUME SwapConstants, Inv, NEW m \in Mem, Map(m) PROVE Inv'
<1>1. PICK v \in Val : /\ host' = [p \in Page |-> v]
                       /\ truth' = [truth EXCEPT ![m] = [p \in Page |-> v]]
  BY Zenon DEF Map
<1>2. /\ entry' = [entry EXCEPT ![m] = [p \in Page |-> "in"]]
      /\ cow' = [cow EXCEPT ![m] = [p \in Page |-> FALSE]]
      /\ UNCHANGED <<frame_slot, area, used, tier, file, op, conf>>
  BY Zenon DEF Map
<1>3. /\ \A n \in Mem, p \in Page : entry[n][p] = "none"
      /\ \A n \in Mem : op[n].at = "idle"
  BY Zenon DEF Map, Mapped, Writer
<1>4. \A f \in Frame : frame_slot[f] = 0
  BY <1>3 DEF Inv, OutIsReached
<1>5. Types'
  <2>1. entry' \in [Mem -> [Page -> {"none", "in", "out"}]]
    BY <1>2, Zenon DEF Inv, Types
  <2>2. cow' \in [Mem -> [Page -> BOOLEAN]]
    BY <1>2, Zenon DEF Inv, Types
  <2>3. host' \in [Page -> V] /\ truth' \in [Mem -> [Page -> V]]
    BY <1>1, Zenon DEF Inv, Types, V
  <2> QED BY <1>2, <2>1, <2>2, <2>3, Zenon DEF Inv, Types
<1>6. \A n \in Mem, p \in Page : entry'[n][p] = IF n = m THEN "in" ELSE "none"
  BY <1>2, <1>3 DEF Inv, Types
<1>7. \A p \in Page : host'[p] = v /\ truth'[m][p] = v
  BY <1>1, Zenon DEF Inv, Types
<1>8. \A n \in Mem : ~ Faulting(n) /\ op[n].at \notin Evicting
  BY <1>3, Zenon DEF Faulting, Evicting
<1>9. SharedIsCow' /\ OutIsReached' /\ OutIsWhole'
  BY <1>2, <1>4, <1>6 DEF SharedIsCow, OutIsReached, OutIsWhole
<1>10. SlotsDiffer' /\ FramesLocked'
  BY <1>2 DEF Inv, SlotsDiffer, FramesLocked, Busy, Faulting
<1>11. ReadsBack'
  <2>1. \A p \in Page : frame_slot'[FrameOf[p]] = 0
    BY <1>2, <1>4, ZenonT(30) DEF SwapConstants
  <2> QED BY <1>6, <1>7, <2>1, Zenon DEF ReadsBack
<1>12. \A n \in Mem : Shape(n)' /\ OnItsWayOut(n)' /\ OnItsWayHome(n)'
  BY <1>2, <1>8 DEF Inv, Shape, OnItsWayOut, OnItsWayHome, Faulting
<1> QED BY <1>5, <1>9, <1>10, <1>11, <1>12, Zenon DEF Inv

(* A write in place: the page is nobody else's. *)
LEMMA WriteInv ==
    ASSUME SwapConstants, Inv, NEW m \in Mem, NEW p \in Page, Write(m, p) PROVE Inv'
<1>1. PICK v \in Val : host' = [host EXCEPT ![p] = v] /\ truth' = [truth EXCEPT ![m][p] = v]
  BY Zenon DEF Write
<1>2. /\ op[m].at = "idle" /\ entry[m][p] = "in" /\ ~ cow[m][p]
      /\ UNCHANGED <<entry, cow, frame_slot, area, used, tier, file, op, conf>>
  BY Zenon DEF Write, Writer
<1>3. \A n \in Mem : n # m => entry[n][p] = "none"
  BY <1>2, Zenon DEF Inv, SharedIsCow
<1>4. Types'
  <2>1. host' \in [Page -> V]
    BY <1>1, Zenon DEF Inv, Types, V
  <2>2. truth' \in [Mem -> [Page -> V]]
    BY <1>1, Zenon DEF Inv, Types, V
  <2> QED BY <1>2, <2>1, <2>2 DEF Inv, Types
<1>5. \A q \in Page : host'[q] = IF q = p THEN v ELSE host[q]
  BY <1>1, Zenon DEF Inv, Types
<1>6. \A n \in Mem, q \in Page : truth'[n][q] = IF n = m /\ q = p THEN v ELSE truth[n][q]
  BY <1>1, Zenon DEF Inv, Types
<1>7. \A n \in Mem : op[n].at \notin Evicting
  BY <1>2, NobodyEvicts DEF Evicting
<1>8. SharedIsCow' /\ OutIsReached' /\ SlotsDiffer' /\ FramesLocked'
  BY <1>2 DEF Inv, SharedIsCow, OutIsReached, SlotsDiffer, FramesLocked, Busy, Faulting
<1>9. OutIsWhole'
  BY <1>2, Zenon DEF Inv, OutIsWhole, Found, Pages, V
<1>10. ReadsBack'
  <2> SUFFICES ASSUME NEW n \in Mem, NEW q \in Page PROVE Reads(n, q)'
    BY Zenon DEF ReadsBack, Reads
  <2>1. Reads(n, q)
    BY ReadsBackIs, Zenon DEF Inv
  <2>2. Found(frame_slot[FrameOf[q]])' = Found(frame_slot[FrameOf[q]])
    BY <1>2, Zenon DEF Found
  <2>3. CASE q = p
    BY <1>2, <1>3, <1>5, <1>6, <2>1, <2>3, Zenon DEF Reads
  <2>4. CASE q # p
    BY <1>2, <1>5, <1>6, <2>1, <2>2, <2>4, ZenonT(30) DEF Reads
  <2> QED BY <2>3, <2>4, Zenon
<1>11. \A n \in Mem : Shape(n)' /\ OnItsWayHome(n)' /\ OnItsWayOut(n)'
  BY <1>2, <1>7 DEF Inv, Shape, OnItsWayHome, OnItsWayOut, Faulting
<1> QED BY <1>4, <1>8, <1>9, <1>10, <1>11 DEF Inv

(* pt_copy_on_write: the child reaches what the parent reaches. *)
LEMMA ForkInv ==
    ASSUME SwapConstants, Inv, NEW m \in Mem, NEW c \in Mem \ {m}, Fork(m, c) PROVE Inv'
<1>1. /\ op[m].at = "idle" /\ op[c].at = "idle" /\ Mapped(m) # {}
      /\ \A p \in Page : entry[c][p] = "none"
      /\ UNCHANGED <<host, frame_slot, area, used, tier, file, op, conf>>
  BY Zenon DEF Fork, Writer, Mapped
<1>2. Types'
  <2>1. entry' \in [Mem -> [Page -> {"none", "in", "out"}]]
    BY Zenon DEF Fork, Inherited, Inv, Types
  <2>2. cow' \in [Mem -> [Page -> BOOLEAN]]
    BY Zenon DEF Fork, Inv, Types
  <2>3. truth' \in [Mem -> [Page -> V]]
    BY Zenon DEF Fork, Inv, Types
  <2> QED BY <1>1, <2>1, <2>2, <2>3 DEF Inv, Types
<1>3. \A n \in Mem : /\ entry'[n] = IF n = c THEN entry[m] ELSE entry[n]
                     /\ truth'[n] = IF n = c THEN truth[m] ELSE truth[n]
  BY Zenon DEF Fork, Inherited, Inv, Types
<1>4. \A n \in Mem, p \in Page : cow'[n][p] <=> n \in {m, c} \/ cow[n][p]
  BY Zenon DEF Fork
<1>5. \A n \in Mem : op[n].at \notin Evicting
  <2>1. PICK p \in Page : entry[m][p] # "none"
    BY <1>1, Zenon DEF Mapped
  <2> QED BY <1>1, <2>1, NobodyEvicts, Zenon DEF Evicting
<1>6. SharedIsCow'
  BY <1>1, <1>3, <1>4 DEF Inv, SharedIsCow
<1>7. OutIsReached'
  <2> SUFFICES ASSUME NEW f \in Frame, frame_slot[f] # 0
               PROVE  \E n \in Mem, q \in Page : FrameOf[q] = f /\ entry'[n][q] # "none"
    BY <1>1, Zenon DEF OutIsReached
  <2>1. PICK n \in Mem, q \in Page : FrameOf[q] = f /\ entry[n][q] # "none"
    BY Zenon DEF Inv, OutIsReached
  <2>2. n # c
    BY <1>1, <2>1, Zenon
  <2> QED BY <1>3, <2>1, <2>2
<1>8. SlotsDiffer' /\ FramesLocked'
  BY <1>1 DEF Inv, SlotsDiffer, FramesLocked, Busy, Faulting
<1>9. OutIsWhole'
  BY <1>1, Zenon DEF Inv, OutIsWhole, Found, Pages, V
<1>10. ReadsBack'
  <2> SUFFICES ASSUME NEW n \in Mem, NEW q \in Page PROVE Reads(n, q)'
    BY Zenon DEF ReadsBack, Reads
  <2>1. Reads(n, q) /\ Reads(m, q)
    BY ReadsBackIs, Zenon DEF Inv
  <2>2. Found(frame_slot[FrameOf[q]])' = Found(frame_slot[FrameOf[q]])
    BY <1>1, Zenon DEF Found
  <2> QED BY <1>1, <1>3, <2>1, <2>2 DEF Reads
<1>11. ASSUME NEW n \in Mem PROVE OnItsWayHome(n)'
  <2>1. CASE n = c
    BY <1>1, <2>1, Zenon DEF OnItsWayHome, Faulting
  <2>2. CASE n # c
    <3>1. OnItsWayHome(n) /\ op' = op /\ frame_slot' = frame_slot /\ \A q : entry'[n][q] = entry[n][q]
      BY <1>1, <1>3, <2>2, Zenon DEF Inv
    <3> QED BY <3>1, Zenon DEF OnItsWayHome, Faulting
  <2> QED BY <2>1, <2>2, Zenon
<1>12. \A n \in Mem : Shape(n)' /\ OnItsWayOut(n)'
  BY <1>1, <1>5 DEF Inv, Shape, OnItsWayOut
<1> QED BY <1>2, <1>6, <1>7, <1>8, <1>9, <1>10, <1>11, <1>12 DEF Inv

(* data_unmap_run_settle: the slot of a frame that nobody reaches becomes  *)
(* the operation's.                                                        *)
LEMMA UnmapInv ==
    ASSUME SwapConstants, Inv, NEW m \in Mem, NEW p \in Page, Unmap(m, p) PROVE Inv'
<1> DEFINE f == FrameOf[p]
           s == frame_slot[f]
           Empty == \A n \in Mem, q \in Page :
                       FrameOf[q] = f => entry[n][q] = "none" \/ (n = m /\ q = p)
<1>1. /\ op[m].at = "idle" /\ entry[m][p] # "none"
      /\ entry' = [entry EXCEPT ![m][p] = "none"] /\ truth' = [truth EXCEPT ![m][p] = Lost]
      /\ cow' = [cow EXCEPT ![m][p] = FALSE]
      /\ UNCHANGED <<host, area, used, tier, file, conf>>
  BY Zenon DEF Unmap, Writer
<1>2. IF Empty /\ s # 0
      THEN /\ frame_slot' = [frame_slot EXCEPT ![f] = 0]
           /\ op' = [op EXCEPT ![m] = [at |-> "drop", f |-> 0, p |-> 0, slot |-> s,
                                       walk |-> FALSE]]
      ELSE UNCHANGED <<frame_slot, op>>
  BY Zenon DEF Unmap, Pages, Doing
<1>3. f \in Frame /\ s \in 0 .. MaxSlot
  BY DEF SwapConstants, Inv, Types
<1>4. /\ entry' \in [Mem -> [Page -> {"none", "in", "out"}]]
      /\ cow' \in [Mem -> [Page -> BOOLEAN]] /\ truth' \in [Mem -> [Page -> V]]
  <2>1. entry' \in [Mem -> [Page -> {"none", "in", "out"}]]
    BY <1>1, Zenon DEF Inv, Types
  <2>2. cow' \in [Mem -> [Page -> BOOLEAN]]
    BY <1>1, Zenon DEF Inv, Types
  <2>3. truth' \in [Mem -> [Page -> V]]
    BY <1>1, Zenon DEF Inv, Types, V
  <2> QED BY <2>1, <2>2, <2>3
<1>5. \A n \in Mem, q \in Page : entry'[n][q] = IF n = m /\ q = p THEN "none" ELSE entry[n][q]
  BY <1>1, Zenon DEF Inv, Types
<1>6. \A n \in Mem, q \in Page : ~ (n = m /\ q = p) =>
         truth'[n][q] = truth[n][q] /\ cow'[n][q] = cow[n][q]
  BY <1>1, Zenon DEF Inv, Types
<1>7. \A n \in Mem : op[n].at \notin Evicting
  BY <1>1, NobodyEvicts, Zenon DEF Evicting
<1>8. SharedIsCow'
  <2>1. SharedIsCow
    BY Zenon DEF Inv
  <2> QED BY <1>5, <1>6, <2>1 DEF SharedIsCow
<1>9. CASE ~ (Empty /\ s # 0)
  <2>1. frame_slot' = frame_slot /\ op' = op
    BY <1>2, <1>9, Zenon
  <2>2. Types'
    BY <1>1, <1>4, <2>1, Zenon DEF Inv, Types
  <2>3. OutIsReached'
    <3> SUFFICES ASSUME NEW g \in Frame, frame_slot[g] # 0
                 PROVE  \E n \in Mem, q \in Page : FrameOf[q] = g /\ entry'[n][q] # "none"
      BY <2>1, Zenon DEF OutIsReached
    <3>1. PICK n \in Mem, q \in Page :
             FrameOf[q] = g /\ entry[n][q] # "none" /\ ~ (n = m /\ q = p)
      <4>1. CASE g = f
        BY <1>9, <4>1, Zenon
      <4>2. CASE g # f
        BY <4>2 DEF Inv, OutIsReached
      <4> QED BY <4>1, <4>2, Zenon
    <3> QED BY <1>5, <3>1
  <2>4. SlotsDiffer' /\ FramesLocked'
    BY <1>1, <2>1 DEF Inv, SlotsDiffer, FramesLocked, Busy, Faulting
  <2>5. OutIsWhole'
    BY <1>1, <2>1, Zenon DEF Inv, OutIsWhole, Found, Pages, V
  <2>6. ReadsBack'
    <3> SUFFICES ASSUME NEW n \in Mem, NEW q \in Page PROVE Reads(n, q)'
      BY Zenon DEF ReadsBack, Reads
    <3>1. Reads(n, q)
      BY ReadsBackIs, Zenon DEF Inv
    <3>2. Found(frame_slot[FrameOf[q]])' = Found(frame_slot[FrameOf[q]])
      BY <1>1, <2>1, Zenon DEF Found
    <3> QED BY <1>1, <1>5, <1>6, <2>1, <3>1, <3>2 DEF Reads
  <2>7. ASSUME NEW n \in Mem PROVE OnItsWayHome(n)'
    <3>1. CASE n = m
      BY <1>1, <2>1, <3>1, Zenon DEF OnItsWayHome, Faulting
    <3>2. CASE n # m
      <4> SUFFICES ASSUME Faulting(n) PROVE OnItsWayHome(n)'
        BY <2>1, Zenon DEF OnItsWayHome, Faulting
      <4>1. op[n].p \in Page
        BY FaultFacts, ZenonT(30)
      <4> QED BY <1>5, <2>1, <3>2, <4>1, Zenon DEF Inv, OnItsWayHome
    <3> QED BY <3>1, <3>2, Zenon
  <2>8. \A n \in Mem : Shape(n)' /\ OnItsWayOut(n)'
    BY <1>7, <2>1 DEF Inv, Shape, OnItsWayOut
  <2> QED BY <1>8, <2>2, <2>3, <2>4, <2>5, <2>6, <2>7, <2>8, Zenon DEF Inv
<1>10. CASE Empty /\ s # 0
  <2>1. PICK r \in Ops : /\ r.at = "drop" /\ r.f = 0 /\ r.p = 0 /\ r.slot = s
                         /\ op' = [op EXCEPT ![m] = r]
    <3>1. [at |-> "drop", f |-> 0, p |-> 0, slot |-> s, walk |-> FALSE] \in Ops
      BY <1>3, Zenon DEF Ops
    <3> QED BY <1>2, <1>10, <3>1, Zenon
  <2>2. op' \in [Mem -> Ops] /\ op'[m] = r /\ \A n \in Mem : n # m => op'[n] = op[n]
    BY <2>1, OpUpdate, Zenon DEF Inv
  <2>3. /\ frame_slot' \in [Frame -> 0 .. MaxSlot]
        /\ \A g \in Frame : frame_slot'[g] = IF g = f THEN 0 ELSE frame_slot[g]
    <3>1. frame_slot \in [Frame -> 0 .. MaxSlot] /\ 0 \in 0 .. MaxSlot
      BY SlotRange DEF Inv, Types
    <3> QED BY <1>2, <1>3, <1>10, <3>1
  <2>4. Types'
    BY <1>1, <1>4, <2>2, <2>3, Zenon DEF Inv, Types
  <2>5. \A n \in Mem, q \in Page : FrameOf[q] = f => entry'[n][q] = "none"
    BY <1>5, <1>10
  <2>6. OutIsReached'
    <3> SUFFICES ASSUME NEW g \in Frame, frame_slot'[g] # 0
                 PROVE  \E n \in Mem, q \in Page : FrameOf[q] = g /\ entry'[n][q] # "none"
      BY Zenon DEF OutIsReached
    <3>1. g # f /\ frame_slot[g] # 0
      BY <2>3, Zenon
    <3>2. PICK n \in Mem, q \in Page : FrameOf[q] = g /\ entry[n][q] # "none"
      BY <3>1, Zenon DEF Inv, OutIsReached
    <3> QED BY <1>5, <3>1, <3>2
  <2>7. \A n \in Mem : /\ Busy(n)' /\ n # m => Busy(n) /\ op'[n] = op[n]
                       /\ Faulting(n)' => Faulting(n) /\ op'[n] = op[n] /\ n # m
    BY <2>1, <2>2, Zenon DEF Busy, Faulting
  <2>8. SlotsDiffer'
    <3>1. SlotsDiffer
      BY Zenon DEF Inv
    <3>2. /\ s \in used /\ \A g \in Frame : g # f => s # frame_slot[g]
          /\ \A n \in Mem : Busy(n) => op[n].slot # s
      BY <1>3, <1>10, <3>1, Zenon DEF SlotsDiffer
    <3> HIDE DEF s, f, Empty
    <3>3. op'[m].slot = s
      BY <2>1, <2>2, Zenon
    <3> QED BY <1>1, <2>3, <2>7, <3>1, <3>2, <3>3 DEF SlotsDiffer
  <2>9. FramesLocked'
    BY <2>7, Zenon DEF Inv, FramesLocked
  <2>10. \A g \in Frame : g # f => Found(frame_slot[g])' = Found(frame_slot[g])
    BY <1>1, <2>3, Zenon DEF Found
  <2>11. OutIsWhole'
    <3> SUFFICES ASSUME NEW g \in Frame, frame_slot'[g] # 0
                 PROVE  Found(frame_slot[g])' \in [Pages(g) -> V]
      BY Zenon DEF OutIsWhole, Pages, V
    <3> QED BY <2>3, <2>10, Zenon DEF Inv, OutIsWhole
  <2>12. ReadsBack'
    <3> SUFFICES ASSUME NEW n \in Mem, NEW q \in Page PROVE Reads(n, q)'
      BY Zenon DEF ReadsBack, Reads
    <3>1. Reads(n, q) /\ FrameOf[q] \in Frame
      BY ReadsBackIs, Zenon DEF Inv, SwapConstants
    <3>2. CASE FrameOf[q] = f
      BY <2>5, <3>2, Zenon DEF Reads
    <3>3. CASE FrameOf[q] # f
      BY <1>1, <1>5, <1>6, <2>3, <2>10, <3>1, <3>3 DEF Reads
    <3> QED BY <3>2, <3>3, Zenon
  <2>13. ASSUME NEW n \in Mem PROVE OnItsWayHome(n)'
    <3> SUFFICES ASSUME Faulting(n)' PROVE OnItsWayHome(n)'
      BY Zenon DEF OnItsWayHome
    <3>1. Faulting(n) /\ op'[n] = op[n] /\ n # m
      BY <2>7, Zenon
    <3>2. /\ op[n].p \in Page /\ op[n].f = FrameOf[op[n].p] /\ op[n].f \in Frame
          /\ entry[n][op[n].p] = "out"
      BY <3>1, FaultFacts, Zenon
    <3>3. op[n].f # f
      BY <1>10, <3>1, <3>2, Zenon
    <3> QED BY <1>5, <2>3, <3>1, <3>2, <3>3 DEF Inv, OnItsWayHome
  <2>14. ASSUME NEW n \in Mem PROVE Shape(n)' /\ OnItsWayOut(n)'
    <3>1. CASE n = m
      BY <1>10, <2>1, <2>2, <3>1, ZenonT(30) DEF Shape, OnItsWayOut, Evicting
    <3>2. CASE n # m
      BY <1>7, <2>2, <3>2 DEF Inv, Shape, OnItsWayOut
    <3> QED BY <3>1, <3>2, Zenon
  <2> QED BY <1>8, <2>4, <2>6, <2>8, <2>9, <2>11, <2>12, <2>13, <2>14, Zenon DEF Inv
<1> QED BY <1>9, <1>10, Zenon

----------------------------------------------------------------------------
(* Steps that only start or end an operation, or move swap_config_lock's   *)
(* holder on.                                                              *)
LEMMA OnlyOp ==
    ASSUME SwapConstants, Inv, NEW m \in Mem,
           UNCHANGED <<entry, cow, host, truth, frame_slot, tier, file, used, area>>,
           conf' \in [at : {"idle", "build", "off", "walk"}, left : SUBSET Mem,
                      size : 0 .. MaxSlot, mode : {"none", "file", "ram"}],
           \/ op' = op \/ op' = [op EXCEPT ![m] = Idle] \/ op' = [op EXCEPT ![m] = Sweeping]
           \/ op' = [op EXCEPT ![m] = Walking(0)]
    PROVE  Inv'
<1>1. CASE op' = op
  BY <1>1, QuietInv, ZenonT(30) DEF Inv, Types
<1>2. CASE op' # op
  <2>1. PICK r \in Ops : /\ op' = [op EXCEPT ![m] = r]
                         /\ r.at \in {"idle", "sweep", "walk"} /\ r.f = 0 /\ r.slot = 0
                         /\ r.at # "walk" => r.p = 0
    BY <1>2, IdleShapes
  <2>2. op' \in [Mem -> Ops] /\ op'[m] = r /\ \A n \in Mem : n # m => op'[n] = op[n]
    BY <2>1, OpUpdate, Zenon DEF Inv
  <2> QED BY <2>1, <2>2, QuietInv DEF Inv, Types
<1> QED BY <1>1, <1>2, Zenon

(* The sweep and its steps. *)
LEMMA SweepInv ==
    ASSUME SwapConstants, Inv, NEW m \in Mem, Sweep(m) PROVE Inv'
BY OnlyOp, Zenon DEF Sweep, mapVars, slotVars, Inv, Types

LEMMA SlotAllocInv ==
    ASSUME SwapConstants, Inv, NEW m \in Mem, swap_slot_alloc(m) PROVE Inv'
<1>1. op[m].at = "sweep" /\ UNCHANGED <<entry, cow, host, truth, frame_slot, area, file, tier, conf>>
  BY Zenon DEF swap_slot_alloc, mapVars
<1>2. CASE op' = [op EXCEPT ![m] = Idle] /\ UNCHANGED used
  BY <1>1, <1>2, OnlyOp, Zenon DEF Inv, Types
<1>3. ASSUME NEW f \in Frame, NEW s \in (1 .. area.count) \ used, Eligible(m, f),
             used' = used \cup {s}, op' = [op EXCEPT ![m] = Doing("store", f, 0, s, FALSE)]
      PROVE  Inv'
  <2>1. [at |-> "store", f |-> f, p |-> 0, slot |-> s, walk |-> FALSE] \in Ops
    BY SlotRange DEF Ops, Evicting, Inv, Types
  <2>2. PICK r \in Ops : /\ r.at = "store" /\ r.f = f /\ r.p = 0 /\ r.slot = s
                         /\ op' = [op EXCEPT ![m] = r]
    BY <1>3, <2>1, Zenon DEF Doing
  <2>3. op' \in [Mem -> Ops] /\ op'[m] = r /\ \A n \in Mem : n # m => op'[n] = op[n]
    BY <2>2, OpUpdate, Zenon DEF Inv
  <2>4. op'[m].at = "store" /\ op'[m].f = f /\ op'[m].p = 0 /\ op'[m].slot = s
    BY <2>2, <2>3, Zenon
  <2>5. AllocStep(m, f, s)
    BY <1>1, <1>3, <2>3, <2>4, Zenon DEF AllocStep
  <2> QED BY <2>5, AllocInv, Zenon
<1> QED BY <1>2, <1>3, Zenon DEF swap_slot_alloc

(* The walk of a swapoff. *)
LEMMA WalkInv ==
    ASSUME SwapConstants, Inv, NEW m \in Mem, WalkMem(m) \/ WalkPage(m) PROVE Inv'
<1>1. CASE WalkMem(m)
  <2>1. conf' \in [at : {"idle", "build", "off", "walk"}, left : SUBSET Mem,
                   size : 0 .. MaxSlot, mode : {"none", "file", "ram"}]
    BY <1>1, Zenon DEF WalkMem, Inv, Types
  <2> QED BY <1>1, <2>1, OnlyOp DEF WalkMem, mapVars, slotVars
<1>2. CASE WalkPage(m)
  <2> DEFINE next == {p \in Page : entry[m][p] = "out" /\ p > op[m].p}
  <2>1. op[m].at = "walk"
    BY <1>2, Zenon DEF WalkPage
  <2>2. CASE next = {}
    BY <1>2, <2>2, OnlyOp, Zenon DEF WalkPage, mapVars, slotVars, Inv, Types
  <2>3. CASE next # {}
    <3>1. PICK p \in Page : FaultStart(m, p, TRUE)
      BY <1>2, <2>3, Zenon DEF WalkPage
    <3> QED BY <2>1, <3>1, FaultStartInv, Zenon
  <2> QED BY <2>2, <2>3, Zenon
<1> QED BY <1>1, <1>2, Zenon

(* The holder of swap_config_lock. *)
LEMMA ConfInv ==
    ASSUME SwapConstants, Inv, Enable \/ Build \/ Disable \/ TurnOff \/ FinishOff PROVE Inv'
<1> DEFINE Conf == [at : {"idle", "build", "off", "walk"}, left : SUBSET Mem,
                    size : 0 .. MaxSlot, mode : {"none", "file", "ram"}]
           Area == [mode : {"none", "file", "ram"}, count : 0 .. MaxSlot]
<1>1. conf \in Conf /\ area \in Area /\ op \in [Mem -> Ops] /\ 0 \in 0 .. MaxSlot
  BY SlotRange DEF Inv, Types
<1>2. UNCHANGED <<entry, cow, host, truth, frame_slot, tier, file, op>>
  BY Zenon DEF Enable, Build, Disable, TurnOff, FinishOff, mapVars, slotVars
<1>3. conf' \in Conf
  <2>1. CASE Enable
    <3>1. PICK n \in Sizes, k \in Modes :
             \/ conf' = [at |-> "build", left |-> {}, size |-> n, mode |-> k]
             \/ conf' = [at |-> "off", left |-> Mem, size |-> n, mode |-> k]
      BY <2>1, Zenon DEF Enable
    <3>2. n \in 0 .. MaxSlot /\ k \in {"none", "file", "ram"}
      BY SlotRange DEF SwapConstants
    <3> QED BY <3>1, <3>2
  <2>2. CASE Build
    BY <1>1, <2>2, Zenon DEF Build
  <2>3. CASE Disable
    BY <1>1, <2>3, Zenon DEF Disable
  <2>4. CASE TurnOff
    BY <1>1, <2>4, Zenon DEF TurnOff
  <2>5. CASE FinishOff
    BY <1>1, <2>5, Zenon DEF FinishOff
  <2> QED BY <2>1, <2>2, <2>3, <2>4, <2>5, Zenon
<1>4. area' \in Area /\ used' = used /\ (area' = area \/ used = {})
  <2>1. CASE Enable \/ Disable \/ TurnOff
    BY <1>1, <2>1, Zenon DEF Enable, Disable, TurnOff, slotVars
  <2>2. CASE FinishOff
    BY <1>1, <2>2, Zenon DEF FinishOff, NoArea
  <2>3. CASE Build
    <3>1. CASE area = NoArea /\ area' = [mode |-> conf.mode, count |-> conf.size] /\ used' = {}
      <4>1. used = {}
        BY <3>1 DEF NoArea, Inv, SlotsDiffer
      <4> QED BY <1>1, <3>1, <4>1, Zenon
    <3>2. CASE UNCHANGED <<area, used>>
      BY <1>1, <3>2, Zenon
    <3> QED BY <2>3, <3>1, <3>2, Zenon DEF Build
  <2> QED BY <2>1, <2>2, <2>3, Zenon
<1> QED BY <1>1, <1>2, <1>3, <1>4, QuietInv

----------------------------------------------------------------------------
LEMMA InitInv == ASSUME SwapConstants, Init PROVE Inv
<1>1. 0 \in 0 .. MaxSlot /\ Nowhere \in Stored
  BY SlotRange DEF Stored
<1>2. /\ \A m \in Mem : op[m] = Idle
      /\ \A m \in Mem, p \in Page : entry[m][p] = "none"
      /\ \A f \in Frame : frame_slot[f] = 0
      /\ used = {}
  BY Zenon DEF Init
<1>3. \A m \in Mem : /\ op[m].at = "idle" /\ op[m].f = 0 /\ op[m].p = 0 /\ op[m].slot = 0
                     /\ ~ Faulting(m) /\ ~ Busy(m) /\ op[m].at \notin Evicting
  BY <1>2, IdleShapes, Zenon DEF Faulting, Busy, Evicting
<1>4. Types
  <2>1. op \in [Mem -> Ops]
    BY IdleShapes, Zenon DEF Init
  <2>2. entry \in [Mem -> [Page -> {"none", "in", "out"}]] /\ cow \in [Mem -> [Page -> BOOLEAN]]
    BY Zenon DEF Init
  <2>3. host \in [Page -> V] /\ truth \in [Mem -> [Page -> V]]
    BY Zenon DEF Init, V
  <2>4. /\ frame_slot \in [Frame -> 0 .. MaxSlot]
        /\ tier \in [Slot -> Stored] /\ file \in [Slot -> Stored]
    BY <1>1, Zenon DEF Init
  <2>5. area \in [mode : {"none", "file", "ram"}, count : 0 .. MaxSlot]
    BY <1>1, Zenon DEF Init, NoArea
  <2>6. conf \in [at : {"idle", "build", "off", "walk"}, left : SUBSET Mem,
                  size : 0 .. MaxSlot, mode : {"none", "file", "ram"}]
    BY <1>1, Zenon DEF Init
  <2> QED BY <2>1, <2>2, <2>3, <2>4, <2>5, <2>6, Zenon DEF Types
<1>5. SharedIsCow /\ OutIsReached /\ OutIsWhole /\ ReadsBack
  BY <1>2, Zenon DEF SharedIsCow, OutIsReached, OutIsWhole, ReadsBack
<1>6. SlotsDiffer /\ FramesLocked
  BY <1>2, <1>3, Zenon DEF SlotsDiffer, FramesLocked
<1>7. \A m \in Mem : Shape(m) /\ OnItsWayOut(m) /\ OnItsWayHome(m)
  BY <1>3, Zenon DEF Shape, OnItsWayOut, OnItsWayHome
<1> QED BY <1>4, <1>5, <1>6, <1>7, Zenon DEF Inv

LEMMA NextInv == ASSUME SwapConstants, Inv, [Next]_vars PROVE Inv'
<1>1. CASE UNCHANGED vars \/ QuiesceBegin \/ QuiesceReturn \/ QuiesceEnd
  <2>1. UNCHANGED <<entry, cow, host, truth, frame_slot, tier, file, used, area, op, conf>>
    BY <1>1, Zenon DEF vars, QuiesceBegin, QuiesceReturn, QuiesceEnd, mapVars, slotVars
  <2> QED BY <2>1, QuietInv, Zenon DEF Inv, Types
<1>2. ASSUME NEW m \in Mem,
             \/ Map(m) \/ Sweep(m) \/ swap_slot_alloc(m) \/ StoreOrClaim(m) \/ Gate(m)
             \/ WriteSlot(m) \/ Publish(m) \/ ReadSlot(m) \/ Forget(m) \/ Free(m)
             \/ WalkMem(m) \/ WalkPage(m)
      PROVE  Inv'
  BY <1>2, MapInv, SweepInv, SlotAllocInv, StoreInv, GateInv, WriteSlotInv, PublishInv,
     ReadSlotInv, ForgetInv, FreeInv, WalkInv, Zenon
<1>3. ASSUME NEW m \in Mem, NEW p \in Page,
             Write(m, p) \/ Mremap(m, p) \/ Unmap(m, p) \/ Fault(m, p)
      PROVE  Inv'
  <2>1. CASE Mremap(m, p)
    BY <2>1, OnlyOp, Zenon DEF Mremap, Inv, Types
  <2>2. CASE Fault(m, p)
    BY <2>2, FaultStartInv, Zenon DEF Fault, Writer
  <2> QED BY <1>3, <2>1, <2>2, WriteInv, UnmapInv, Zenon
<1>4. ASSUME NEW m \in Mem, NEW c \in Mem \ {m}, Fork(m, c) PROVE Inv'
  BY <1>4, ForkInv, Zenon
<1>5. CASE Enable \/ Build \/ Disable \/ TurnOff \/ FinishOff
  BY <1>5, ConfInv, Zenon
<1> QED BY <1>1, <1>2, <1>3, <1>4, <1>5 DEF Next

(* What an address space last wrote to a page is what it reads back: from  *)
(* host memory while the page is in, from the tier or the file while it is *)
(* out, whatever sweeps, faults, forks, unmaps, swapons and swapoffs came  *)
(* between (swap_evict_common, swap_fault_page_locked).                    *)
THEOREM PagesReadBack == ASSUME SwapConstants PROVE Spec => []ReadsBack
<1>1. Init => Inv
  BY InitInv, Zenon
<1>2. Inv /\ [Next]_vars => Inv'
  BY NextInv, Zenon
<1>3. Inv => ReadsBack
  BY Zenon DEF Inv
<1> QED BY <1>1, <1>2, <1>3, PTL DEF Spec

----------------------------------------------------------------------------
(* How a step changes the operation of one address space. *)
Moves(m) ==
    \/ op' = op
    \/ \E l \in {"publish", "gate", "forget"} : op' = [op EXCEPT ![m].at = l]
    \/ \E r \in Ops : r.at \notin {"write", "free"} /\ op' = [op EXCEPT ![m] = r]

LEMMA MovesFacts ==
    ASSUME Types, NEW m \in Mem, Moves(m)
    PROVE  \A n \in Mem :
              /\ op'[n].at = "write" => op[n].at = "write"
              /\ op'[n].at = "free" => op[n].at = "free" /\ op'[n] = op[n]
<1>1. CASE op' = op
  BY <1>1, Zenon
<1>2. ASSUME NEW l \in {"publish", "gate", "forget"}, op' = [op EXCEPT ![m].at = l]
      PROVE  /\ op'[m].at = l
             /\ \A n \in Mem : n # m => op'[n] = op[n]
  BY <1>2 DEF Types, Ops
<1>3. ASSUME NEW r \in Ops, r.at \notin {"write", "free"}, op' = [op EXCEPT ![m] = r]
      PROVE  /\ op'[m] = r
             /\ \A n \in Mem : n # m => op'[n] = op[n]
  BY <1>3, OpUpdate, Zenon
<1> QED BY <1>1, <1>2, <1>3 DEF Moves

(* Every step but the gate and the forgetting of a slot moves one.         *)
LEMMA NextMoves ==
    ASSUME SwapConstants, Inv, Next
    PROVE  \/ \E m \in Mem : Moves(m)
           \/ op' = op
           \/ \E m \in Mem : Gate(m) \/ Forget(m)
<1>1. /\ Idle \in Ops /\ Idle.at = "idle" /\ Sweeping \in Ops /\ Sweeping.at = "sweep"
      /\ Walking(0) \in Ops /\ Walking(0).at = "walk"
  BY IdleShapes, Zenon
<1>2. ASSUME NEW m \in Mem, Sweep(m) \/ Publish(m) \/ WalkMem(m) PROVE Moves(m)
  BY <1>1, <1>2 DEF Sweep, Publish, WalkMem, Moves
<1>3. ASSUME NEW m \in Mem, StoreOrClaim(m) \/ WriteSlot(m) PROVE Moves(m)
  BY <1>3, Zenon DEF StoreOrClaim, WriteSlot, Moves, Goto
<1>4. ASSUME NEW m \in Mem, Done(m) \/ op' = [op EXCEPT ![m] = Sweeping] PROVE Moves(m)
  <2>1. op[m].p \in Page \cup {0}
    BY Zenon DEF Inv, Types, Ops
  <2>2. Walking(op[m].p) \in Ops /\ Walking(op[m].p).at = "walk"
    BY <2>1, IdleShapes
  <2>3. CASE Done(m) /\ op[m].walk
    BY <2>2, <2>3, Zenon DEF Done, Moves
  <2>4. CASE Done(m) /\ ~ op[m].walk
    BY <1>1, <2>4, Zenon DEF Done, Moves
  <2>5. CASE op' = [op EXCEPT ![m] = Sweeping]
    BY <1>1, <2>5, Zenon DEF Moves
  <2> QED BY <1>4, <2>3, <2>4, <2>5
<1>5. ASSUME NEW m \in Mem, Free(m) PROVE Moves(m)
  BY <1>4, <1>5, Zenon DEF Free
<1>6. ASSUME NEW m \in Mem, ReadSlot(m) PROVE Moves(m)
  <2>1. CASE Goto(m, "forget")
    BY <2>1, Zenon DEF Goto, Moves
  <2>2. CASE Done(m)
    BY <1>4, <2>2, Zenon
  <2> QED BY <1>6, <2>1, <2>2 DEF ReadSlot
<1>7. ASSUME NEW m \in Mem, swap_slot_alloc(m) PROVE Moves(m)
  <2>1. ASSUME NEW f \in Frame, NEW s \in (1 .. area.count) \ used,
               op' = [op EXCEPT ![m] = Doing("store", f, 0, s, FALSE)]
        PROVE  Moves(m)
    <3>1. [at |-> "store", f |-> f, p |-> 0, slot |-> s, walk |-> FALSE] \in Ops
      BY SlotRange DEF Ops, Evicting, Inv, Types
    <3> QED BY <2>1, <3>1, Zenon DEF Doing, Moves
  <2>2. CASE op' = [op EXCEPT ![m] = Idle]
    BY <1>1, <2>2, Zenon DEF Moves
  <2> QED BY <1>7, <2>1, <2>2, Zenon DEF swap_slot_alloc
<1>8. ASSUME NEW m \in Mem, NEW p \in Page, NEW w \in BOOLEAN, FaultStart(m, p, w)
      PROVE  Moves(m)
  <2>1. [at |-> "read", f |-> FrameOf[p], p |-> p, slot |-> frame_slot[FrameOf[p]], walk |-> w]
           \in Ops
    BY DEF Ops, Inv, Types, SwapConstants
  <2>2. \/ op' = op
        \/ op' = [op EXCEPT ![m] = [at |-> "read", f |-> FrameOf[p], p |-> p,
                                    slot |-> frame_slot[FrameOf[p]], walk |-> w]]
    BY <1>8, Zenon DEF FaultStart, Doing
  <2> QED BY <2>1, <2>2, Zenon DEF Moves
<1>9. ASSUME NEW m \in Mem, WalkPage(m) PROVE Moves(m)
  <2> DEFINE next == {p \in Page : entry[m][p] = "out" /\ p > op[m].p}
  <2>1. CASE next = {}
    BY <1>1, <1>9, <2>1, Zenon DEF WalkPage, Moves
  <2>2. CASE next # {}
    <3>1. PICK p \in Page : FaultStart(m, p, TRUE)
      BY <1>9, <2>2, Zenon DEF WalkPage
    <3> QED BY <1>8, <3>1, Zenon
  <2> QED BY <2>1, <2>2, Zenon
<1>10. ASSUME NEW m \in Mem, NEW p \in Page, Unmap(m, p) PROVE Moves(m)
  <2>1. [at |-> "drop", f |-> 0, p |-> 0, slot |-> frame_slot[FrameOf[p]], walk |-> FALSE] \in Ops
    BY Zenon DEF Ops, Inv, Types, SwapConstants
  <2>2. \/ op' = op
        \/ op' = [op EXCEPT ![m] = [at |-> "drop", f |-> 0, p |-> 0,
                                    slot |-> frame_slot[FrameOf[p]], walk |-> FALSE]]
    BY <1>10, Zenon DEF Unmap, Doing
  <2> QED BY <2>1, <2>2, Zenon DEF Moves
<1>11. ASSUME NEW m \in Mem, NEW p \in Page, Write(m, p) \/ Mremap(m, p) \/ Fault(m, p)
       PROVE  Moves(m)
  <2>1. CASE Fault(m, p)
    BY <1>8, <2>1, Zenon DEF Fault
  <2> QED BY <1>11, <2>1, Zenon DEF Write, Mremap, Moves
<1>12. ASSUME NEW m \in Mem, Map(m) \/ \E c \in Mem \ {m} : Fork(m, c) PROVE op' = op
  BY <1>12, Zenon DEF Map, Fork
<1>13. CASE \/ Enable \/ Build \/ Disable \/ TurnOff \/ FinishOff
            \/ QuiesceBegin \/ QuiesceReturn \/ QuiesceEnd
  BY <1>13, Zenon DEF Enable, Build, Disable, TurnOff, FinishOff, QuiesceBegin, QuiesceReturn, QuiesceEnd
<1> QED BY <1>2, <1>3, <1>5, <1>6, <1>7, <1>9, <1>10, <1>11, <1>12, <1>13 DEF Next

(* A pager that is still, and the gate that keeps it so. *)
Shut == (still => quiesced) /\ QuiescedIsStill

LEMMA NextShut == ASSUME SwapConstants, Inv, Shut, [Next]_vars PROVE Shut'
<1>1. CASE UNCHANGED vars
  BY <1>1, Zenon DEF vars, Shut, QuiescedIsStill
<1>2. CASE QuiesceBegin \/ QuiesceReturn \/ QuiesceEnd
  BY <1>2 DEF QuiesceBegin, QuiesceReturn, QuiesceEnd, Shut, QuiescedIsStill
<1>3. CASE Next /\ UNCHANGED <<still, quiesced>>
  <2>1. ASSUME NEW m \in Mem, Gate(m), still PROVE \A n \in Mem : op'[n].at # "write"
    <3>1. op' = [op EXCEPT ![m].at = "forget"]
      BY <2>1, Zenon DEF Gate, GateOpen, Goto, Shut
    <3> QED BY <2>1, <3>1 DEF Shut, QuiescedIsStill, Inv, Types, Ops
  <2>2. ASSUME NEW m \in Mem, Forget(m), still PROVE \A n \in Mem : op'[n].at # "write"
    <3>1. op' = [op EXCEPT ![m].at = "free"]
      BY <2>2, Zenon DEF Forget, Goto
    <3> QED BY <2>2, <3>1 DEF Shut, QuiescedIsStill, Inv, Types, Ops
  <2>3. ASSUME NEW m \in Mem, Moves(m), still PROVE \A n \in Mem : op'[n].at # "write"
    BY <2>3, MovesFacts, Zenon DEF Shut, QuiescedIsStill, Inv
  <2>4. ASSUME op' = op, still PROVE \A n \in Mem : op'[n].at # "write"
    BY <2>4, Zenon DEF Shut, QuiescedIsStill
  <2>5. still => \A n \in Mem : op'[n].at # "write"
    BY <1>3, <2>1, <2>2, <2>3, <2>4, NextMoves
  <2> QED BY <1>3, <2>5, Zenon DEF Shut, QuiescedIsStill
<1>4. Next => \/ QuiesceBegin \/ QuiesceReturn \/ QuiesceEnd
              \/ UNCHANGED <<still, quiesced>>
  <2>1. ASSUME NEW m \in Mem,
               \/ Map(m) \/ Sweep(m) \/ swap_slot_alloc(m) \/ StoreOrClaim(m) \/ Gate(m)
               \/ WriteSlot(m) \/ Publish(m) \/ ReadSlot(m) \/ Forget(m) \/ Free(m)
               \/ WalkMem(m)
        PROVE  UNCHANGED <<still, quiesced>>
    BY <2>1, Zenon DEF Map, Sweep, swap_slot_alloc, StoreOrClaim, Gate, WriteSlot, Publish,
       ReadSlot, Forget, Free, WalkMem
  <2>2. ASSUME NEW m \in Mem, NEW p, NEW w, FaultStart(m, p, w) PROVE UNCHANGED <<still, quiesced>>
    BY <2>2, Zenon DEF FaultStart
  <2>3. ASSUME NEW m \in Mem, WalkPage(m) PROVE UNCHANGED <<still, quiesced>>
    BY <2>2, <2>3, Zenon DEF WalkPage
  <2>4. ASSUME NEW m \in Mem, NEW p \in Page,
               Write(m, p) \/ Mremap(m, p) \/ Unmap(m, p) \/ Fault(m, p)
        PROVE  UNCHANGED <<still, quiesced>>
    BY <2>2, <2>4, Zenon DEF Write, Mremap, Unmap, Fault
  <2>5. ASSUME NEW m \in Mem, NEW c \in Mem \ {m}, Fork(m, c) PROVE UNCHANGED <<still, quiesced>>
    BY <2>5, Zenon DEF Fork
  <2>6. CASE Enable \/ Build \/ Disable \/ TurnOff \/ FinishOff
    BY <2>6, Zenon DEF Enable, Build, Disable, TurnOff, FinishOff
  <2> QED BY <2>1, <2>3, <2>4, <2>5, <2>6, Zenon DEF Next
<1> QED BY <1>1, <1>2, <1>3, <1>4

(* After swap_quiesce_begin has answered that the pager is still, no write *)
(* to the file starts before swap_quiesce_end (swap_slot_write's gate).    *)
THEOREM StillUntilEnd == ASSUME SwapConstants PROVE Spec => []QuiescedIsStill
<1>1. Init => Inv /\ Shut
  BY InitInv, Zenon DEF Init, Shut, QuiescedIsStill
<1>2. (Inv /\ Shut) /\ [Next]_vars => (Inv /\ Shut)'
  BY NextInv, NextShut, Zenon
<1>3. Inv /\ Shut => QuiescedIsStill
  BY Zenon DEF Shut
<1> QED BY <1>1, <1>2, <1>3, PTL DEF Spec

(* The tier's objects are of slots in use; a slot about to be given back   *)
(* has none any more. *)
TierInv ==
    /\ TierHoldsUsedSlots
    /\ \A m \in Mem : op[m].at = "free" => tier[op[m].slot] = Nowhere

LEMMA NextTier == ASSUME SwapConstants, Inv, TierInv, [Next]_vars PROVE TierInv'
<1>1. CASE UNCHANGED vars
  BY <1>1, Zenon DEF vars, TierInv, TierHoldsUsedSlots
<1>2. ASSUME NEW m \in Mem, Forget(m) PROVE TierInv'
  <2>1. /\ tier' = [tier EXCEPT ![op[m].slot] = Nowhere] /\ used' = used
        /\ op' = [op EXCEPT ![m].at = "free"]
    BY <1>2, Zenon DEF Forget, ForgetTier, Goto, slotVars
  <2>2. op[m].slot \in Slot /\ tier \in [Slot -> Stored] /\ op \in [Mem -> Ops]
    BY <1>2, SlotRange DEF Forget, Inv, Types, Ops, Shape, Slot
  <2>3. \A x \in Slot : tier'[x] = IF x = op[m].slot THEN Nowhere ELSE tier[x]
    BY <2>1, <2>2, Zenon
  <2>4. /\ op'[m].slot = op[m].slot /\ \A n \in Mem : n # m => op'[n] = op[n]
    BY <2>1, <2>2, Zenon DEF Ops
  <2>5. ASSUME NEW n \in Mem, op'[n].at = "free" PROVE tier'[op'[n].slot] = Nowhere
    <3>1. CASE n = m
      BY <2>2, <2>3, <2>4, <3>1, Zenon
    <3>2. CASE n # m
      <4>1. op[n].slot \in Slot /\ op'[n] = op[n]
        BY <2>4, <2>5, <3>2, SlotRange DEF Inv, Types, Ops, Shape, Slot
      <4> QED BY <2>3, <2>5, <4>1, ZenonT(30) DEF TierInv
    <3> QED BY <3>1, <3>2, Zenon
  <2> QED BY <2>1, <2>3, <2>5, Zenon DEF TierInv, TierHoldsUsedSlots
<1>3. ASSUME NEW m \in Mem, StoreOrClaim(m) PROVE TierInv'
  <2>1. PICK b : tier' = [tier EXCEPT ![op[m].slot] = b] /\ used' = used
    BY <1>3, Zenon DEF StoreOrClaim, slotVars
  <2>2. /\ op[m].at \in Evicting /\ Busy(m) /\ op[m].slot \in Slot /\ op[m].slot \in used
        /\ tier \in [Slot -> Stored]
    BY <1>3, EvictionFacts, Zenon DEF StoreOrClaim, Evicting, Inv, SlotsDiffer, Types
  <2>3. \A x \in Slot : x # op[m].slot => tier'[x] = tier[x]
    BY <2>1, <2>2, Zenon
  <2>4. \A n \in Mem : op'[n].at = "free" => op[n].at = "free" /\ op'[n] = op[n]
    <3>1. Moves(m)
      BY <1>3, Zenon DEF StoreOrClaim, Moves, Goto
    <3> QED BY <3>1, MovesFacts, Zenon DEF Inv
  <2>5. ASSUME NEW n \in Mem, op'[n].at = "free" PROVE tier'[op'[n].slot] = Nowhere
    <3>1. op[n].at = "free" /\ op'[n] = op[n] /\ n # m
      BY <1>3, <2>4, <2>5, ZenonT(30) DEF StoreOrClaim
    <3>2. Busy(n) /\ op[n].slot \in Slot
      BY <3>1, SlotRange DEF Busy, Inv, Types, Ops, Shape, Slot
    <3>3. op[n].slot # op[m].slot
      BY <2>2, <3>1, <3>2, Zenon DEF Inv, SlotsDiffer
    <3> QED BY <2>3, <3>1, <3>2, <3>3 DEF TierInv
  <2> QED BY <2>1, <2>2, <2>3, <2>5, Zenon DEF TierInv, TierHoldsUsedSlots
<1>4. ASSUME NEW m \in Mem, Free(m) PROVE TierInv'
  <2>1. tier' = tier /\ used' = used \ {op[m].slot} /\ op[m].at = "free"
    BY <1>4, Zenon DEF Free, swap_slot_free
  <2>2. \A n \in Mem : op'[n].at = "free" => op[n].at = "free" /\ op'[n] = op[n]
    <3>1. /\ op'[m].at \in {"idle", "sweep", "walk"} /\ \A n \in Mem : n # m => op'[n] = op[n]
      BY <1>4, DoneFacts, Zenon DEF Free
    <3> QED BY <3>1, Zenon
  <2> QED BY <2>1, <2>2, Zenon DEF TierInv, TierHoldsUsedSlots
<1>5. ASSUME Next, tier' = tier, used \subseteq used', \A m \in Mem : ~ Forget(m) PROVE TierInv'
  <2>1. ASSUME NEW m \in Mem, Gate(m), NEW n \in Mem, op'[n].at = "free"
        PROVE  op[n].at = "free" /\ op'[n] = op[n]
    BY <2>1 DEF Gate, Goto, Inv, Types, Ops
  <2>2. \A n \in Mem : op'[n].at = "free" => op[n].at = "free" /\ op'[n] = op[n]
    BY <1>5, <2>1, NextMoves, MovesFacts, Zenon DEF Inv
  <2> QED BY <1>5, <2>2, Zenon DEF TierInv, TierHoldsUsedSlots
<1>6. Next => \/ \E m \in Mem : Forget(m) \/ StoreOrClaim(m) \/ Free(m)
              \/ tier' = tier /\ (used \subseteq used' \/ Build)
  <2>1. ASSUME NEW m \in Mem,
               \/ Map(m) \/ Sweep(m) \/ swap_slot_alloc(m) \/ Gate(m) \/ WriteSlot(m)
               \/ Publish(m) \/ ReadSlot(m) \/ WalkMem(m)
        PROVE  tier' = tier /\ used \subseteq used'
    BY <2>1, Zenon DEF Map, Sweep, swap_slot_alloc, Gate, WriteSlot, Publish, ReadSlot, WalkMem, slotVars
  <2>2. ASSUME NEW m \in Mem, NEW p, NEW w, FaultStart(m, p, w)
        PROVE  tier' = tier /\ used \subseteq used'
    BY <2>2, Zenon DEF FaultStart, slotVars
  <2>3. ASSUME NEW m \in Mem, WalkPage(m) PROVE tier' = tier /\ used \subseteq used'
    BY <2>2, <2>3, Zenon DEF WalkPage, slotVars
  <2>4. ASSUME NEW m \in Mem, NEW p \in Page,
               Write(m, p) \/ Mremap(m, p) \/ Unmap(m, p) \/ Fault(m, p)
        PROVE  tier' = tier /\ used \subseteq used'
    BY <2>2, <2>4, Zenon DEF Write, Mremap, Unmap, Fault
  <2>5. ASSUME NEW m \in Mem, NEW c \in Mem \ {m}, Fork(m, c)
        PROVE  tier' = tier /\ used \subseteq used'
    BY <2>5, Zenon DEF Fork
  <2>6. CASE \/ Enable \/ Disable \/ TurnOff \/ FinishOff
             \/ QuiesceBegin \/ QuiesceReturn \/ QuiesceEnd
    BY <2>6, Zenon DEF Enable, Disable, TurnOff, FinishOff, QuiesceBegin, QuiesceReturn,
       QuiesceEnd, slotVars
  <2>7. CASE Build
    BY <2>7, ZenonT(30) DEF Build
  <2> QED BY <2>1, <2>3, <2>4, <2>5, <2>6, <2>7, Zenon DEF Next
<1>7. Build => used \subseteq used'
  BY DEF Build, Inv, SlotsDiffer, NoArea
<1> QED BY <1>1, <1>2, <1>3, <1>4, <1>5, <1>6, <1>7

LEMMA InitTier == ASSUME SwapConstants, Init PROVE TierInv
<1>1. \A m \in Mem : op[m].at = "idle"
  BY IdleShapes, Zenon DEF Init
<1>2. \A s \in Slot : tier[s] = Nowhere
  BY Zenon DEF Init
<1> QED BY <1>1, <1>2, Zenon DEF TierInv, TierHoldsUsedSlots

----------------------------------------------------------------------------
(* What a step does to the slots, the operations and the switch: one       *)
(* predicate per kind of step, for the invariants below.                   *)
Kept == UNCHANGED <<swap_on, area, conf>>
Alone(m) == \A n \in Mem : n # m => op'[n] = op[n]
Fewer == \A n \in Mem, q \in Page : entry'[n][q] = "out" => entry[n][q] = "out"

Rests == Kept /\ Fewer /\ UNCHANGED <<op, frame_slot, used, missed>>

Forked == Kept /\ UNCHANGED <<op, frame_slot, used>> /\ missed' = (missed \/ conf.at = "walk")

(* A slot that is an operation's stays so. *)
Steps(m) ==
    /\ Kept /\ Alone(m) /\ UNCHANGED <<entry, frame_slot, used, missed>>
    /\ op[m].at \in Evicting \cup {"forget", "drop"}
    /\ op'[m].slot = op[m].slot /\ op'[m].p = op[m].p /\ op'[m].walk = op[m].walk
    /\ op'[m].at \in Evicting \cup {"forget", "free"}
    /\ op[m].at \notin Evicting => op'[m].at = "free"

(* A sweep starts or ends, or a walk ends. *)
Turns(m) ==
    /\ Kept /\ Alone(m) /\ UNCHANGED <<entry, frame_slot, used, missed>>
    /\ op[m].at \in {"idle", "sweep", "walk"} /\ op'[m].at \in {"idle", "sweep"}
    /\ op'[m].slot = 0 /\ ~ op'[m].walk
    /\ op[m].at = "walk" => \A q \in Page : entry[m][q] = "out" => q <= op[m].p

(* A sweep takes a slot. *)
Takes(m) ==
    /\ Kept /\ Alone(m) /\ UNCHANGED <<entry, frame_slot, missed>>
    /\ swap_on /\ op[m].at = "sweep" /\ op'[m].at = "store" /\ ~ op'[m].walk
    /\ used' = used \cup {op'[m].slot} /\ op'[m].slot # 0

(* The frame has the slot. *)
Publishes(m) ==
    /\ Kept /\ Alone(m) /\ UNCHANGED <<used, missed>>
    /\ op[m].at = "publish" /\ op'[m].at = "sweep" /\ op'[m].slot = 0 /\ ~ op'[m].walk
    /\ frame_slot' = [frame_slot EXCEPT ![op[m].f] = op[m].slot]
    /\ \A n \in Mem : n # m => entry'[n] = entry[n]

(* A frame that is out is asked for. *)
Asks(m) ==
    /\ Kept /\ Alone(m) /\ UNCHANGED <<entry, frame_slot, used, missed>>
    /\ op[m].at \in {"idle", "walk"} /\ op'[m].at = "read" /\ op'[m].p \in Page
    /\ entry[m][op'[m].p] = "out" /\ frame_slot[FrameOf[op'[m].p]] # 0
    /\ op'[m].walk = (op[m].at = "walk")
    /\ op'[m].walk => \A q \in Page : entry[m][q] = "out" /\ q < op'[m].p => q <= op[m].p

(* Its bytes are home, or cannot be had. *)
Comes(m) ==
    /\ Kept /\ Alone(m) /\ UNCHANGED <<entry, used, missed>>
    /\ op[m].at = "read" /\ op'[m].at = "forget"
    /\ op'[m].slot = op[m].slot /\ op'[m].p = op[m].p /\ op'[m].walk = op[m].walk
    /\ frame_slot' = [frame_slot EXCEPT ![op[m].f] = 0]

Fails(m) ==
    /\ Kept /\ Alone(m) /\ UNCHANGED <<entry, frame_slot, used>>
    /\ op[m].at = "read" /\ op'[m].at = (IF op[m].walk THEN "walk" ELSE "idle")
    /\ op'[m].slot = 0 /\ op'[m].walk = op[m].walk
    /\ missed' = (missed \/ op[m].walk)

(* The slot goes back, and the area of a stopped pager with the last. *)
Frees(m) ==
    /\ Alone(m) /\ Fewer /\ UNCHANGED <<frame_slot, missed, swap_on, conf>>
    /\ op[m].at = "free" /\ op'[m].slot = 0
    /\ used' = used \ {op[m].slot}
    /\ area' = IF used' = {} /\ ~ swap_on /\ area # NoArea THEN NoArea ELSE area
    /\ \/ /\ op'[m].at = (IF op[m].walk THEN "walk" ELSE "idle") /\ op'[m].walk = op[m].walk
          /\ op[m].walk => op'[m].p = op[m].p
       \/ op[m].p = 0 /\ op'[m].at = "sweep" /\ ~ op'[m].walk

(* The last entry of a frame that is out goes. *)
Drops(m, p) ==
    /\ Kept /\ Alone(m) /\ Fewer /\ UNCHANGED <<used, missed>>
    /\ op[m].at = "idle" /\ op'[m].at = "drop" /\ ~ op'[m].walk
    /\ entry[m][p] # "none" /\ frame_slot[FrameOf[p]] # 0
    /\ op'[m].slot = frame_slot[FrameOf[p]]
    /\ frame_slot' = [frame_slot EXCEPT ![FrameOf[p]] = 0]

Step ==
    \/ Rests \/ Forked
    \/ \E m \in Mem : \/ Steps(m) \/ Turns(m) \/ Takes(m) \/ Publishes(m) \/ Asks(m)
                      \/ Comes(m) \/ Fails(m) \/ Frees(m) \/ WalkMem(m)
                      \/ \E p \in Page : Drops(m, p)
    \/ Enable \/ Build \/ Disable \/ TurnOff \/ FinishOff

----------------------------------------------------------------------------
LEMMA GotoFacts ==
    ASSUME Types, NEW m \in Mem, NEW l, op' = [op EXCEPT ![m].at = l]
    PROVE  /\ op'[m].at = l /\ op'[m].f = op[m].f /\ op'[m].p = op[m].p
           /\ op'[m].slot = op[m].slot /\ op'[m].walk = op[m].walk
           /\ Alone(m)
BY DEF Types, Ops, Alone

LEMMA Records ==
    /\ Idle.at = "idle" /\ Idle.slot = 0 /\ ~ Idle.walk
    /\ Sweeping.at = "sweep" /\ Sweeping.slot = 0 /\ ~ Sweeping.walk
    /\ Idle.walk = FALSE
    /\ \A p : /\ Walking(p).at = "walk" /\ Walking(p).p = p /\ Walking(p).slot = 0
             /\ Walking(p).walk = TRUE
BY Zenon DEF Idle, Sweeping, Walking, Doing

LEMMA LetsGo ==
    ASSUME Types, NEW m \in Mem, Done(m)
    PROVE  /\ op'[m].at = (IF op[m].walk THEN "walk" ELSE "idle")
           /\ op'[m].slot = 0 /\ op'[m].walk = op[m].walk
           /\ op[m].walk => op'[m].p = op[m].p
           /\ Alone(m)
<1>1. op[m].walk \in BOOLEAN
  BY DEF Types, Ops
<1>2. op'[m] = (IF op[m].walk THEN Walking(op[m].p) ELSE Idle) /\ Alone(m)
  BY Zenon DEF Done, Types, Alone
<1>4. CASE op[m].walk
  <2>1. op'[m] = Walking(op[m].p) /\ op[m].walk = TRUE
    BY <1>1, <1>2, <1>4, Zenon
  <2> QED BY <1>2, <1>4, <2>1, Records, ZenonT(30)
<1>5. CASE ~ op[m].walk
  <2>1. op'[m] = Idle /\ op[m].walk = FALSE
    BY <1>1, <1>2, <1>5, Zenon
  <2> QED BY <1>2, <1>5, <2>1, Records, Zenon
<1> QED BY <1>4, <1>5, Zenon

LEMMA EvictionSteps ==
    ASSUME Types, NEW m \in Mem, StoreOrClaim(m) \/ Gate(m) \/ WriteSlot(m) \/ Forget(m)
    PROVE  Steps(m)
<1>1. Kept /\ UNCHANGED <<entry, frame_slot, used, missed>>
  BY ZenonT(30) DEF StoreOrClaim, Gate, WriteSlot, Forget, Kept, mapVars, slotVars
<1>2. \/ \E l \in Evicting \cup {"forget", "free"} : Goto(m, l) /\ op[m].at \in Evicting
      \/ Goto(m, "free") /\ op[m].at \in {"forget", "drop"}
  BY DEF StoreOrClaim, Gate, WriteSlot, Forget, Evicting
<1>3. ASSUME NEW l, Goto(m, l)
      PROVE  /\ op'[m].at = l /\ op'[m].p = op[m].p /\ op'[m].slot = op[m].slot
             /\ op'[m].walk = op[m].walk /\ Alone(m)
  BY <1>3, GotoFacts, Zenon DEF Goto
<1>4. CASE Goto(m, "free") /\ op[m].at \in {"forget", "drop"}
  BY <1>1, <1>3, <1>4, Zenon DEF Steps
<1>5. ASSUME NEW l \in Evicting \cup {"forget", "free"}, Goto(m, l), op[m].at \in Evicting
      PROVE  Steps(m)
  BY <1>1, <1>3, <1>5, Zenon DEF Steps
<1> QED BY <1>2, <1>4, <1>5, Zenon

LEMMA SweepSteps ==
    ASSUME SwapConstants, Types, NEW m \in Mem, Sweep(m) \/ swap_slot_alloc(m) \/ Publish(m)
    PROVE  Turns(m) \/ Takes(m) \/ Publishes(m)
<1>1. CASE Sweep(m)
  <2>1. op'[m].at = "sweep" /\ op'[m].slot = 0 /\ ~ op'[m].walk /\ Alone(m)
    <3>1. op'[m] = Sweeping /\ Alone(m)
      BY <1>1, Zenon DEF Types, Alone, Sweep
    <3> QED BY <3>1, Records, Zenon
  <2> QED BY <1>1, <2>1, Zenon DEF Sweep, Writer, Turns, Kept, mapVars, slotVars
<1>2. CASE op[m].at = "sweep" /\ op' = [op EXCEPT ![m] = Idle] /\ UNCHANGED used /\ swap_slot_alloc(m)
  <2>1. op'[m].at = "idle" /\ op'[m].slot = 0 /\ ~ op'[m].walk /\ Alone(m)
    <3>1. op'[m] = Idle /\ Alone(m)
      BY <1>2, Zenon DEF Types, Alone
    <3> QED BY <3>1, Records, Zenon
  <2> QED BY <1>2, <2>1, Zenon DEF swap_slot_alloc, Turns, Kept, mapVars
<1>3. ASSUME swap_slot_alloc(m), CanAlloc, NEW f \in Frame, NEW s \in (1 .. area.count) \ used,
             used' = used \cup {s}, op' = [op EXCEPT ![m] = Doing("store", f, 0, s, FALSE)]
      PROVE  Takes(m)
  <2>1. op'[m].at = "store" /\ op'[m].slot = s /\ ~ op'[m].walk /\ Alone(m)
    <3>1. op'[m] = Doing("store", f, 0, s, FALSE) /\ Alone(m)
      BY <1>3, Zenon DEF Types, Alone
    <3>2. /\ Doing("store", f, 0, s, FALSE).at = "store"
          /\ Doing("store", f, 0, s, FALSE).p = 0
          /\ Doing("store", f, 0, s, FALSE).slot = s
          /\ ~ Doing("store", f, 0, s, FALSE).walk
      BY Zenon DEF Doing
    <3> QED BY <3>1, <3>2, Zenon
  <2>2. s # 0
    BY DEF Types
  <2> QED BY <1>3, <2>1, <2>2, Zenon DEF swap_slot_alloc, Takes, Kept, mapVars, CanAlloc
<1>4. CASE Publish(m)
  <2>1. op'[m].at = "sweep" /\ op'[m].slot = 0 /\ ~ op'[m].walk /\ Alone(m)
    <3>1. op'[m] = Sweeping /\ Alone(m)
      BY <1>4, Zenon DEF Types, Alone, Publish
    <3> QED BY <3>1, Records, Zenon
  <2>2. \A n \in Mem : n # m => entry'[n] = entry[n]
    BY <1>4, Zenon DEF Publish, Types
  <2> QED BY <1>4, <2>1, <2>2, Zenon DEF Publish, Publishes, Kept, slotVars
<1> QED BY <1>1, <1>2, <1>3, <1>4, Zenon DEF swap_slot_alloc

LEMMA HomeSteps ==
    ASSUME SwapConstants, Inv, NEW m \in Mem, ReadSlot(m) \/ Free(m)
    PROVE  Comes(m) \/ Fails(m) \/ Frees(m)
<1>0. Types
  BY Zenon DEF Inv
<1>1. CASE ReadSlot(m) /\ Goto(m, "forget") /\ frame_slot' = [frame_slot EXCEPT ![op[m].f] = 0]
           /\ UNCHANGED missed
  <2>1. /\ op'[m].at = "forget" /\ op'[m].p = op[m].p /\ op'[m].slot = op[m].slot
        /\ op'[m].walk = op[m].walk /\ Alone(m)
    BY <1>0, <1>1, GotoFacts, Zenon DEF Goto
  <2> QED BY <1>1, <2>1, Zenon DEF ReadSlot, Comes, Kept, slotVars
<1>2. CASE ReadSlot(m) /\ Done(m) /\ missed' = (missed \/ op[m].walk) /\ UNCHANGED frame_slot
  <2>1. /\ op'[m].at = (IF op[m].walk THEN "walk" ELSE "idle")
        /\ op'[m].slot = 0 /\ op'[m].walk = op[m].walk /\ Alone(m)
    BY <1>0, <1>2, LetsGo, Zenon
  <2> QED BY <1>2, <2>1, Zenon DEF ReadSlot, Fails, Kept, slotVars
<1>3. CASE Free(m)
  <2>1. /\ UNCHANGED <<frame_slot, missed, swap_on, conf>> /\ op[m].at = "free"
        /\ used' = used \ {op[m].slot}
        /\ area' = IF used' = {} /\ ~ swap_on /\ area # NoArea THEN NoArea ELSE area
    BY <1>3, Zenon DEF Free, swap_slot_free, Drained
  <2>2. Fewer
    <3>1. CASE op[m].p # 0
      <4>1. Faulting(m)
        BY <2>1, <3>1, ZenonT(30) DEF Faulting
      <4>2. op[m].p \in Page /\ frame_slot[FrameOf[op[m].p]] = 0
        BY <2>1, <4>1, FaultFacts DEF Shape
      <4>3. entry' = [entry EXCEPT ![m] = Shown(m, op[m].p)]
        BY <1>3, <3>1, Zenon DEF Free
      <4> QED BY <4>2, <4>3, ShownFacts, Zenon DEF Fewer
    <3>2. CASE op[m].p = 0
      BY <1>3, <3>2, Zenon DEF Free, Fewer
    <3> QED BY <3>1, <3>2, Zenon
  <2>3. CASE op[m].p = 0 /\ op' = [op EXCEPT ![m] = Sweeping]
    <3>1. op'[m].at = "sweep" /\ op'[m].slot = 0 /\ ~ op'[m].walk /\ Alone(m)
      <4>1. op'[m] = Sweeping /\ Alone(m)
        BY <1>0, <2>3, Zenon DEF Types, Alone
      <4> QED BY <4>1, Records, Zenon
    <3> QED BY <2>1, <2>2, <2>3, <3>1, Zenon DEF Frees
  <2>4. CASE Done(m)
    <3>1. /\ op'[m].at = (IF op[m].walk THEN "walk" ELSE "idle") /\ op'[m].walk = op[m].walk
          /\ op'[m].slot = 0 /\ (op[m].walk => op'[m].p = op[m].p) /\ Alone(m)
      BY <1>0, <2>4, LetsGo, Zenon
    <3> QED BY <2>1, <2>2, <3>1, Zenon DEF Frees
  <2> QED BY <1>3, <2>3, <2>4, Zenon DEF Free
<1> QED BY <1>1, <1>2, <1>3, Zenon DEF ReadSlot

LEMMA AskSteps ==
    ASSUME SwapConstants, Inv, NEW m \in Mem, NEW p \in Page, NEW w \in BOOLEAN, FaultStart(m, p, w),
           op[m].at = (IF w THEN "walk" ELSE "idle"),
           w => \A q \in Page : entry[m][q] = "out" /\ q < p => q <= op[m].p
    PROVE  Rests \/ Asks(m)
<1>0. Types
  BY Zenon DEF Inv
<1>1. entry[m][p] = "out" /\ UNCHANGED <<frame_slot, used, missed>> /\ Kept
  BY Zenon DEF FaultStart, slotVars, Kept
<1>2. CASE frame_slot[FrameOf[p]] = 0
  <2>1. entry' = [entry EXCEPT ![m] = Shown(m, p)] /\ op' = op
    BY <1>2, Zenon DEF FaultStart
  <2>2. Fewer
    BY <1>2, <2>1, ShownFacts, ZenonT(30) DEF Fewer
  <2> QED BY <1>1, <2>1, <2>2, Zenon DEF Rests
<1>3. CASE frame_slot[FrameOf[p]] # 0
  <2>1. /\ op' = [op EXCEPT ![m] = Doing("read", FrameOf[p], p, frame_slot[FrameOf[p]], w)]
        /\ entry' = entry
    BY <1>3, Zenon DEF FaultStart
  <2>2. op'[m].at = "read" /\ op'[m].p = p /\ op'[m].walk = w /\ Alone(m)
    <3>1. op'[m] = Doing("read", FrameOf[p], p, frame_slot[FrameOf[p]], w) /\ Alone(m)
      BY <1>0, <2>1, Zenon DEF Types, Alone
    <3>2. /\ Doing("read", FrameOf[p], p, frame_slot[FrameOf[p]], w).at = "read"
          /\ Doing("read", FrameOf[p], p, frame_slot[FrameOf[p]], w).p = p
          /\ Doing("read", FrameOf[p], p, frame_slot[FrameOf[p]], w).slot = frame_slot[FrameOf[p]]
          /\ Doing("read", FrameOf[p], p, frame_slot[FrameOf[p]], w).walk = w
      BY Zenon DEF Doing
    <3> QED BY <3>1, <3>2, Zenon
  <2> QED BY <1>1, <1>3, <2>1, <2>2 DEF Asks
<1> QED BY <1>2, <1>3, Zenon

LEMMA WalkSteps ==
    ASSUME SwapConstants, Inv, NEW m \in Mem, WalkPage(m)
    PROVE  Rests \/ Asks(m) \/ Turns(m)
<1> DEFINE next == {q \in Page : entry[m][q] = "out" /\ q > op[m].p}
<1>0. Types /\ op[m].p \in Nat /\ (\A q \in Page : q \in Nat) /\ op[m].at = "walk"
  <2>1. \A q \in Page : q \in Nat
    BY DEF SwapConstants
  <2>2. op[m].p \in Page \cup {0} /\ op[m].at = "walk" /\ Types
    BY Zenon DEF Inv, Types, Ops, WalkPage
  <2>3. op[m].p \in Nat
    <3>1. CASE op[m].p \in Page
      BY <2>1, <3>1, Zenon
    <3> QED BY <2>2, <3>1
  <2> QED BY <2>1, <2>2, <2>3, Zenon
<1>1. CASE next = {}
  <2>1. /\ op' = [op EXCEPT ![m] = Idle] /\ Kept /\ UNCHANGED <<entry, frame_slot, used, missed>>
    BY <1>1, Zenon DEF WalkPage, Kept, mapVars, slotVars
  <2>2. op'[m].at = "idle" /\ op'[m].slot = 0 /\ ~ op'[m].walk /\ Alone(m)
    <3>1. op'[m] = Idle /\ Alone(m)
      BY <1>0, <2>1, Zenon DEF Types, Alone
    <3> QED BY <3>1, Records, Zenon
  <2>3. \A q \in Page : entry[m][q] = "out" => q <= op[m].p
    BY <1>0, <1>1
  <2> QED BY <1>0, <2>1, <2>2, <2>3, Zenon DEF Turns
<1>2. CASE next # {}
  <2>1. PICK p \in next : (\A q \in next : p <= q) /\ FaultStart(m, p, TRUE)
    BY <1>2, Zenon DEF WalkPage
  <2>2. \A q \in Page : entry[m][q] = "out" /\ q < p => q <= op[m].p
    BY <1>0, <2>1
  <2> QED BY <1>0, <2>1, <2>2, AskSteps, Zenon
<1> QED BY <1>1, <1>2, Zenon

LEMMA UnmapSteps ==
    ASSUME SwapConstants, Inv, NEW m \in Mem, NEW p \in Page, Unmap(m, p)
    PROVE  Rests \/ Drops(m, p)
<1>0. Types
  BY Zenon DEF Inv
<1>1. /\ op[m].at = "idle" /\ entry[m][p] # "none" /\ entry' = [entry EXCEPT ![m][p] = "none"]
      /\ UNCHANGED <<used, missed>> /\ Kept
  BY Zenon DEF Unmap, Writer, Kept
<1>2. Fewer
  BY <1>0, <1>1 DEF Types, Fewer
<1>3. CASE UNCHANGED <<frame_slot, op>>
  BY <1>1, <1>2, <1>3, Zenon DEF Rests
<1>4. CASE /\ frame_slot[FrameOf[p]] # 0 /\ frame_slot' = [frame_slot EXCEPT ![FrameOf[p]] = 0]
           /\ op' = [op EXCEPT ![m] = Doing("drop", 0, 0, frame_slot[FrameOf[p]], FALSE)]
  <2>1. /\ op'[m].at = "drop" /\ op'[m].slot = frame_slot[FrameOf[p]] /\ ~ op'[m].walk /\ Alone(m)
    <3>1. op'[m] = Doing("drop", 0, 0, frame_slot[FrameOf[p]], FALSE) /\ Alone(m)
      BY <1>0, <1>4, Zenon DEF Types, Alone
    <3>2. /\ Doing("drop", 0, 0, frame_slot[FrameOf[p]], FALSE).at = "drop"
          /\ Doing("drop", 0, 0, frame_slot[FrameOf[p]], FALSE).p = 0
          /\ Doing("drop", 0, 0, frame_slot[FrameOf[p]], FALSE).slot = frame_slot[FrameOf[p]]
          /\ ~ Doing("drop", 0, 0, frame_slot[FrameOf[p]], FALSE).walk
      BY Zenon DEF Doing
    <3> QED BY <3>1, <3>2, Zenon
  <2> QED BY <1>1, <1>2, <1>4, <2>1, Zenon DEF Drops
<1> QED BY <1>3, <1>4, Zenon DEF Unmap

LEMMA NextSteps == ASSUME SwapConstants, Inv, [Next]_vars PROVE Step
<1>0. Types
  BY Zenon DEF Inv
<1>1. CASE UNCHANGED vars
  BY <1>1, Zenon DEF vars, Step, Rests, Kept, Fewer
<1>2. ASSUME NEW m \in Mem, Map(m) PROVE Rests
  BY <1>0, <1>2 DEF Map, Types, Rests, Kept, Fewer
<1>3. ASSUME NEW m \in Mem, NEW p \in Page, Write(m, p) \/ Mremap(m, p) PROVE Rests
  BY <1>3, Zenon DEF Write, Mremap, Rests, Kept, Fewer
<1>4. CASE QuiesceBegin \/ QuiesceReturn \/ QuiesceEnd
  BY <1>4, Zenon DEF QuiesceBegin, QuiesceReturn, QuiesceEnd, Step, Rests, Kept, Fewer, mapVars,
     slotVars
<1>5. ASSUME NEW m \in Mem, NEW c \in Mem \ {m}, Fork(m, c) PROVE Forked
  BY <1>5, Zenon DEF Fork, Forked, Kept
<1>6. ASSUME NEW m \in Mem, NEW p \in Page, Fault(m, p) PROVE Rests \/ Asks(m)
  BY <1>6, AskSteps, Zenon DEF Fault, Writer
<1>7. ASSUME NEW m \in Mem,
             \/ StoreOrClaim(m) \/ Gate(m) \/ WriteSlot(m) \/ Forget(m) \/ Sweep(m)
             \/ swap_slot_alloc(m) \/ Publish(m) \/ ReadSlot(m) \/ Free(m) \/ WalkPage(m)
      PROVE  \/ Rests \/ Steps(m) \/ Turns(m) \/ Takes(m) \/ Publishes(m) \/ Asks(m)
             \/ Comes(m) \/ Fails(m) \/ Frees(m)
  BY <1>0, <1>7, EvictionSteps, SweepSteps, HomeSteps, WalkSteps, Zenon
<1>8. CASE Next
  <2>1. ASSUME NEW m \in Mem,
               \/ Map(m) \/ Sweep(m) \/ swap_slot_alloc(m) \/ StoreOrClaim(m) \/ Gate(m)
               \/ WriteSlot(m) \/ Publish(m) \/ ReadSlot(m) \/ Forget(m) \/ Free(m)
               \/ WalkMem(m) \/ WalkPage(m)
        PROVE  Step
    BY <1>2, <1>7, <2>1, Zenon DEF Step
  <2>2. ASSUME NEW m \in Mem, NEW p \in Page,
               Write(m, p) \/ Mremap(m, p) \/ Unmap(m, p) \/ Fault(m, p)
        PROVE  Step
    BY <1>3, <1>6, <2>2, UnmapSteps, Zenon DEF Step
  <2>3. ASSUME NEW m \in Mem, NEW c \in Mem \ {m}, Fork(m, c) PROVE Step
    BY <1>5, <2>3, Zenon DEF Step
  <2>4. CASE Enable \/ Build \/ Disable \/ TurnOff \/ FinishOff
    BY <2>4, Zenon DEF Step
  <2> QED BY <1>4, <1>8, <2>1, <2>2, <2>3, <2>4, Zenon DEF Next
<1> QED BY <1>1, <1>8, Zenon

----------------------------------------------------------------------------
(* The switch, the area and the reconfiguration under way. *)
Switch ==
    /\ conf.at \in {"walk", "build"} => ~ swap_on
    /\ area = NoArea => ~ swap_on
    /\ ~ swap_on /\ used = {} /\ conf.at \in {"idle", "build"} => area = NoArea
    /\ ~ swap_on /\ ~ missed /\ conf.at \in {"idle", "build"} => used = {}
    /\ conf.at = "off" => conf.left = Mem
    /\ conf.at = "build" => conf.size # 0

(* An operation of the walk is in an address space the walk has reached. *)
Walkers ==
    \A m \in Mem :
        /\ op[m].at = "walk" => op[m].walk
        /\ op[m].at = "idle" => ~ op[m].walk
        /\ op[m].walk => /\ conf.at = "walk" /\ m \notin conf.left
                         /\ op[m].at \in {"walk", "read", "forget", "free"}
                         /\ op[m].at # "walk" => op[m].p # 0

(* The walk has been at page q of m. *)
Behind(m, q) == ~ op[m].walk \/ q < op[m].p \/ (q = op[m].p /\ op[m].at = "walk")

(* What m has of the pages the walk has been at is home, and nothing of it *)
(* is on its way. *)
Walked(m) ==
    /\ ~ op[m].walk => op[m].slot = 0
    /\ \A q \in Page : entry[m][q] = "out" /\ Behind(m, q) => frame_slot[FrameOf[q]] = 0

WalkBrings == conf.at = "walk" /\ ~ missed => \A m \in Mem \ conf.left : Walked(m)

(* Every slot in use is a frame's, or an operation's. *)
Owned ==
    \A s \in used : (\E f \in Frame : frame_slot[f] = s) \/ (\E m \in Mem : Busy(m) /\ op[m].slot = s)

OffInv == Owned /\ Switch /\ Walkers /\ WalkBrings

----------------------------------------------------------------------------
LEMMA StepOwned == ASSUME SwapConstants, Inv, Owned, Step PROVE Owned'
<1>0. Types /\ (\A m \in Mem : Shape(m)) /\ SlotsDiffer
  BY Zenon DEF Inv
<1>1. ASSUME frame_slot' = frame_slot, used' \subseteq used,
             \A m \in Mem : Busy(m) => Busy(m)' /\ op'[m].slot = op[m].slot
      PROVE  Owned'
  BY <1>1, Zenon DEF Owned
<1>2. ASSUME NEW m \in Mem, frame_slot' = frame_slot, used' \subseteq used, Alone(m),
             ~ Busy(m) \/ (op'[m].slot = op[m].slot /\ op'[m].at # "read")
      PROVE  Owned'
  <2>1. \A n \in Mem : Busy(n) => Busy(n)' /\ op'[n].slot = op[n].slot
    BY <1>2, Zenon DEF Busy, Alone
  <2> QED BY <1>1, <1>2, <2>1, Zenon
<1>3. CASE UNCHANGED <<op, frame_slot>> /\ used' \subseteq used
  BY <1>1, <1>3, Zenon DEF Busy
<1>4. ASSUME NEW m \in Mem, Turns(m) \/ Asks(m) \/ Fails(m) PROVE Owned'
  <2>1. ~ Busy(m)
    BY <1>0, <1>4, Zenon DEF Turns, Asks, Fails, Busy, Shape
  <2> QED BY <1>2, <1>4, <2>1, Zenon DEF Turns, Asks, Fails
<1>5. ASSUME NEW m \in Mem, Steps(m) PROVE Owned'
  BY <1>2, <1>5, Zenon DEF Steps, Evicting
<1>6. ASSUME NEW m \in Mem, WalkMem(m) PROVE Owned'
  <2>1. frame_slot' = frame_slot /\ used' = used
    BY <1>6, Zenon DEF WalkMem, slotVars
  <2>2. CASE op' = op
    BY <1>3, <2>1, <2>2, Zenon
  <2>3. CASE Writer(m) /\ op' = [op EXCEPT ![m] = Walking(0)]
    <3>1. ~ Busy(m) /\ Alone(m)
      BY <1>0, <2>3, Zenon DEF Writer, Shape, Busy, Types, Alone
    <3> QED BY <1>2, <2>1, <3>1, Zenon
  <2> QED BY <1>6, <2>2, <2>3, Zenon DEF WalkMem
<1>7. ASSUME NEW m \in Mem, Takes(m) PROVE Owned'
  <2>1. Busy(m)' /\ ~ Busy(m)
    BY <1>0, <1>7, Zenon DEF Takes, Busy, Shape
  <2>2. \A n \in Mem : n # m => (Busy(n)' <=> Busy(n)) /\ op'[n].slot = op[n].slot
    BY <1>7, Zenon DEF Takes, Alone, Busy
  <2> SUFFICES ASSUME NEW s \in used'
               PROVE  \/ \E f \in Frame : frame_slot'[f] = s
                      \/ \E n \in Mem : Busy(n)' /\ op'[n].slot = s
    BY Zenon DEF Owned
  <2>3. CASE s \in used
    <3>1. ASSUME NEW n \in Mem, Busy(n), op[n].slot = s PROVE Busy(n)' /\ op'[n].slot = s
      BY <2>1, <2>2, <3>1, Zenon
    <3>2. frame_slot' = frame_slot
      BY <1>7, Zenon DEF Takes
    <3> QED BY <2>3, <3>1, <3>2, Zenon DEF Owned
  <2>4. CASE s = op'[m].slot
    BY <2>1, <2>4, Zenon
  <2> QED BY <1>7, <2>3, <2>4, Zenon DEF Takes
<1>8. ASSUME NEW m \in Mem, Publishes(m) PROVE Owned'
  <2>1. op[m].f \in Frame /\ frame_slot[op[m].f] = 0
    BY <1>8, EvictionFacts, Zenon DEF Publishes, Evicting
  <2>2. /\ frame_slot'[op[m].f] = op[m].slot
        /\ \A g \in Frame : g # op[m].f => frame_slot'[g] = frame_slot[g]
    BY <1>0, <1>8, <2>1, Zenon DEF Publishes, Types
  <2>3. \A n \in Mem : n # m => (Busy(n)' <=> Busy(n)) /\ op'[n].slot = op[n].slot
    BY <1>8, Zenon DEF Publishes, Alone, Busy
  <2> SUFFICES ASSUME NEW s \in used
               PROVE  \/ \E f \in Frame : frame_slot'[f] = s
                      \/ \E n \in Mem : Busy(n)' /\ op'[n].slot = s
    BY <1>8, Zenon DEF Owned, Publishes
  <2>4. s # 0
    BY <1>0 DEF SlotsDiffer, Types
  <2>5. ASSUME NEW f \in Frame, frame_slot[f] = s PROVE frame_slot'[f] = s
    BY <2>1, <2>2, <2>4, <2>5, Zenon
  <2>6. ASSUME NEW n \in Mem, Busy(n), op[n].slot = s, n # m PROVE Busy(n)' /\ op'[n].slot = s
    BY <2>3, <2>6, Zenon
  <2> QED BY <2>1, <2>2, <2>5, <2>6, ZenonT(30) DEF Owned
<1>9. ASSUME NEW m \in Mem, NEW f \in Frame, frame_slot' = [frame_slot EXCEPT ![f] = 0],
             used' = used, Alone(m), ~ Busy(m), Busy(m)', op'[m].slot = frame_slot[f]
      PROVE  Owned'
  <2>1. \A n \in Mem : n # m => (Busy(n)' <=> Busy(n)) /\ op'[n].slot = op[n].slot
    BY <1>9, Zenon DEF Alone, Busy
  <2>2. \A g \in Frame : g # f => frame_slot'[g] = frame_slot[g]
    BY <1>0, <1>9, Zenon DEF Types
  <2> SUFFICES ASSUME NEW s \in used
               PROVE  \/ \E g \in Frame : frame_slot'[g] = s
                      \/ \E n \in Mem : Busy(n)' /\ op'[n].slot = s
    BY <1>9, Zenon DEF Owned
  <2>3. ASSUME NEW g \in Frame, frame_slot[g] = s, g # f PROVE frame_slot'[g] = s
    BY <2>2, <2>3, Zenon
  <2>4. ASSUME NEW n \in Mem, Busy(n), op[n].slot = s PROVE Busy(n)' /\ op'[n].slot = s
    BY <1>9, <2>1, <2>4, Zenon
  <2> QED BY <1>9, <2>3, <2>4, Zenon DEF Owned
<1>10. ASSUME NEW m \in Mem, Comes(m) PROVE Owned'
  <2>1. op[m].f \in Frame /\ frame_slot[op[m].f] = op[m].slot /\ op[m].slot # 0
    <3>1. Faulting(m) /\ op[m].slot # 0
      BY <1>0, <1>10, Zenon DEF Comes, Shape, Faulting
    <3> QED BY <1>10, <3>1, FaultFacts, Zenon DEF Comes
  <2> QED BY <1>9, <1>10, <2>1, Zenon DEF Comes, Busy
<1>11. ASSUME NEW m \in Mem, NEW p \in Page, Drops(m, p) PROVE Owned'
  <2>1. FrameOf[p] \in Frame
    BY Zenon DEF SwapConstants
  <2>2. ~ Busy(m) /\ Busy(m)'
    BY <1>0, <1>11, Zenon DEF Drops, Shape, Busy
  <2> QED BY <1>9, <1>11, <2>1, <2>2, Zenon DEF Drops
<1>12. ASSUME NEW m \in Mem, Frees(m) PROVE Owned'
  <2>1. \A n \in Mem : n # m => (Busy(n)' <=> Busy(n)) /\ op'[n].slot = op[n].slot
    BY <1>12, Zenon DEF Frees, Alone, Busy
  <2>2. used' = used \ {op[m].slot} /\ frame_slot' = frame_slot
    BY <1>12, Zenon DEF Frees
  <2> SUFFICES ASSUME NEW s \in used, s # op[m].slot
               PROVE  \/ \E g \in Frame : frame_slot'[g] = s
                      \/ \E n \in Mem : Busy(n)' /\ op'[n].slot = s
    BY <2>2, Zenon DEF Owned
  <2>3. ASSUME NEW n \in Mem, Busy(n), op[n].slot = s PROVE Busy(n)' /\ op'[n].slot = s
    BY <2>1, <2>3, Zenon
  <2> QED BY <2>2, <2>3, Zenon DEF Owned
<1>13. CASE Enable \/ Disable \/ TurnOff \/ FinishOff \/ Rests \/ Forked
  BY <1>3, <1>13, Zenon DEF Enable, Disable, TurnOff, FinishOff, Rests, Forked, slotVars
<1>14. CASE Build
  BY <1>3, <1>14, Zenon DEF Build
<1> QED
  BY <1>4, <1>5, <1>6, <1>7, <1>8, <1>10, <1>11, <1>12, <1>13, <1>14, ZenonT(30) DEF Step

LEMMA StepSwitch == ASSUME SwapConstants, Inv, OffInv, Step PROVE Switch'
<1>0. Types /\ SlotsDiffer /\ Switch
  BY Zenon DEF Inv, OffInv
<1>1. ASSUME Kept, used' = used, missed => missed' PROVE Switch'
  BY <1>0, <1>1, Zenon DEF Switch, Kept
<1>2. CASE Rests \/ Forked
  BY <1>1, <1>2, Zenon DEF Rests, Forked
<1>3. ASSUME NEW m \in Mem, \/ Steps(m) \/ Turns(m) \/ Publishes(m) \/ Asks(m) \/ Comes(m) \/ Fails(m)
                            \/ \E p \in Page : Drops(m, p)
      PROVE  Switch'
  BY <1>1, <1>3, Zenon DEF Steps, Turns, Publishes, Asks, Comes, Fails, Drops
<1>4. ASSUME NEW m \in Mem, Takes(m) PROVE Switch'
  BY <1>0, <1>4, Zenon DEF Takes, Kept, Switch
<1>5. ASSUME NEW m \in Mem, Frees(m) PROVE Switch'
  <2>1. op[m].slot \in used
    BY <1>0, <1>5, Zenon DEF Frees, Inv, Shape, Busy, SlotsDiffer
  <2> QED BY <1>0, <1>5, <2>1, ZenonT(30) DEF Frees, Switch
<1>6. ASSUME NEW m \in Mem, WalkMem(m) PROVE Switch'
  <2>1. /\ conf.at = "walk" /\ UNCHANGED <<swap_on, area, used>>
        /\ conf' = [conf EXCEPT !.left = @ \ {m}]
    BY <1>6, Zenon DEF WalkMem, slotVars
  <2>2. conf'.at = "walk"
    BY <1>0, <2>1 DEF Types
  <2> QED BY <1>0, <2>1, <2>2, Zenon DEF Switch
<1>7. CASE Enable
  BY <1>0, <1>7, SlotRange DEF Enable, slotVars, Switch
<1>8. CASE Disable
  BY <1>0, <1>8, ZenonT(30) DEF Disable, slotVars, Switch
<1>9. CASE Build
  BY <1>0, <1>9 DEF Build, Switch, NoArea, Types
<1>10. CASE TurnOff
  BY <1>0, <1>10 DEF TurnOff, Switch, Types
<1>11. CASE FinishOff
  <2>1. conf.at = "walk" /\ ~ swap_on /\ UNCHANGED <<swap_on, used, missed>>
    BY <1>0, <1>11, Zenon DEF FinishOff, Switch
  <2>2. /\ conf'.at = (IF conf.size = 0 THEN "idle" ELSE "build") /\ conf'.size = conf.size
        /\ area' = IF used = {} THEN NoArea ELSE area
    BY <1>0, <1>11 DEF FinishOff, Types
  <2>3. ~ missed => used = {}
    <3> SUFFICES ASSUME ~ missed PROVE \A s \in used : FALSE
      BY Zenon
    <3>1. \A m \in Mem : op[m].slot = 0 /\ \A q \in Page : entry[m][q] = "out" => frame_slot[FrameOf[q]] = 0
      BY <1>11, <2>1, Zenon DEF FinishOff, OffInv, WalkBrings, Walked, Behind
    <3>2. \A m \in Mem : ~ Busy(m)
      BY <3>1, Zenon DEF Busy
    <3>3. \A f \in Frame : frame_slot[f] = 0
      <4> SUFFICES ASSUME NEW f \in Frame, frame_slot[f] # 0 PROVE FALSE
        BY Zenon
      <4>1. PICK n \in Mem, q \in Page : FrameOf[q] = f /\ entry[n][q] # "none"
        BY Zenon DEF Inv, OutIsReached
      <4>2. entry[n][q] \in {"none", "in", "out"} /\ (entry[n][q] = "in" => frame_slot[f] = 0)
        <5>1. entry[n] \in [Page -> {"none", "in", "out"}] /\ Reads(n, q)
          BY ReadsBackIs, Zenon DEF Inv, Types
        <5> QED BY <4>1, <5>1, Zenon DEF Reads
      <4> QED BY <3>1, <4>1, <4>2, Zenon
    <3>4. 0 \notin used
      BY <1>0 DEF SlotsDiffer, Types
    <3> QED BY <3>2, <3>3, <3>4, Zenon DEF OffInv, Owned
  <2> QED BY <2>1, <2>2, <2>3 DEF Switch
<1> QED
  BY <1>2, <1>3, <1>4, <1>5, <1>6, <1>7, <1>8, <1>9, <1>10, <1>11, ZenonT(30) DEF Step

LEMMA StepWalkers == ASSUME SwapConstants, Inv, OffInv, Step PROVE Walkers'
<1>0. Types /\ Walkers /\ Switch /\ \A m \in Mem : Shape(m)
  BY Zenon DEF Inv, OffInv
<1>1. CASE op' = op /\ conf' = conf
  BY <1>0, <1>1, Zenon DEF Walkers
<1>2. ASSUME NEW m \in Mem, conf' = conf, Alone(m),
             /\ op'[m].at = "walk" => op'[m].walk
             /\ op'[m].at = "idle" => ~ op'[m].walk
             /\ op'[m].walk => /\ op[m].walk /\ op'[m].at \in {"walk", "read", "forget", "free"}
                               /\ op'[m].at # "walk" => op'[m].p # 0
      PROVE  Walkers'
  BY <1>0, <1>2, ZenonT(30) DEF Walkers, Alone
<1>3. CASE Rests \/ Forked
  BY <1>1, <1>3, Zenon DEF Rests, Forked, Kept
<1>4. ASSUME NEW m \in Mem, Turns(m) \/ Takes(m) \/ Publishes(m) \/ \E p \in Page : Drops(m, p)
      PROVE  Walkers'
  BY <1>2, <1>4, Zenon DEF Turns, Takes, Publishes, Drops, Kept
<1>5. ASSUME NEW m \in Mem, Steps(m) PROVE Walkers'
  BY <1>0, <1>2, <1>5, Zenon DEF Steps, Kept, Walkers, Evicting
<1>6. ASSUME NEW m \in Mem, Comes(m) PROVE Walkers'
  BY <1>0, <1>2, <1>6, Zenon DEF Comes, Kept, Walkers
<1>7. ASSUME NEW m \in Mem, Fails(m) \/ Frees(m) PROVE Walkers'
  BY <1>0, <1>2, <1>7, Zenon DEF Fails, Frees, Kept, Walkers
<1>8. ASSUME NEW m \in Mem, Asks(m) PROVE Walkers'
  <2>1. op'[m].p # 0
    BY <1>8 DEF Asks, SwapConstants
  <2> QED BY <1>0, <1>2, <1>8, <2>1, ZenonT(30) DEF Asks, Kept, Walkers
<1>9. ASSUME op' = op, \A m \in Mem : ~ op[m].walk PROVE Walkers'
  BY <1>0, <1>9, Zenon DEF Walkers
<1>10. CASE Enable \/ Disable \/ Build \/ TurnOff
  <2>1. op' = op /\ conf.at # "walk"
    BY <1>10, Zenon DEF Enable, Disable, Build, TurnOff
  <2>2. \A m \in Mem : ~ op[m].walk
    BY <1>0, <2>1, Zenon DEF Walkers
  <2> QED BY <1>9, <2>1, <2>2, Zenon
<1>11. CASE FinishOff
  BY <1>9, <1>11, Zenon DEF FinishOff
<1>12. ASSUME NEW m \in Mem, WalkMem(m) PROVE Walkers'
  <2>1. /\ conf.at = "walk" /\ conf' = [conf EXCEPT !.left = @ \ {m}] /\ \A n \in Mem : ~ op[n].walk
    BY <1>12, Zenon DEF WalkMem
  <2>2. conf'.at = "walk" /\ m \notin conf'.left
    BY <1>0, <2>1 DEF Types
  <2>3. CASE op' = op
    BY <1>9, <2>1, <2>3, Zenon
  <2>4. CASE op' = [op EXCEPT ![m] = Walking(0)]
    <3>1. op'[m] = Walking(0) /\ Alone(m)
      BY <1>0, <2>4, Zenon DEF Types, Alone
    <3>2. op'[m].at = "walk" /\ op'[m].walk
      BY <3>1, Records, Zenon
    <3>3. \A n \in Mem : n # m => op'[n] = op[n]
      BY <3>1, Zenon DEF Alone
    <3> QED BY <1>0, <2>1, <2>2, <3>2, <3>3, Zenon DEF Walkers
  <2> QED BY <1>12, <2>3, <2>4, Zenon DEF WalkMem
<1> QED
  BY <1>3, <1>4, <1>5, <1>6, <1>7, <1>8, <1>10, <1>11, <1>12, ZenonT(30) DEF Step

LEMMA StepWalk == ASSUME SwapConstants, Inv, OffInv, Step PROVE WalkBrings'
<1>0. Types /\ Walkers /\ Switch /\ WalkBrings /\ \A m \in Mem : Shape(m)
  BY Zenon DEF Inv, OffInv
<1>1. \A q \in Page : FrameOf[q] \in Frame /\ q \in Nat /\ q # 0
  BY DEF SwapConstants
<1>2. ASSUME NEW n \in Mem, Walked(n), op'[n] = op[n],
             \A q \in Page : entry'[n][q] = "out" => entry[n][q] = "out",
             \A f \in Frame : frame_slot[f] = 0 => frame_slot'[f] = 0
      PROVE  Walked(n)'
  BY <1>1, <1>2, Zenon DEF Walked, Behind
(* One address space moves, and no frame goes out. *)
<1>3. ASSUME NEW m \in Mem, conf' = conf, missed => missed', Alone(m), Fewer,
             \A f \in Frame : frame_slot[f] = 0 => frame_slot'[f] = 0,
             m \notin conf.left /\ ~ missed' /\ Walked(m) => Walked(m)'
      PROVE  WalkBrings'
  <2>1. ASSUME conf.at = "walk", ~ missed', NEW n \in Mem \ conf.left PROVE Walked(n)'
    <3>1. Walked(n)
      BY <1>0, <1>3, <2>1, Zenon DEF WalkBrings
    <3>2. CASE n = m
      BY <1>3, <2>1, <3>1, <3>2, Zenon
    <3>3. CASE n # m
      BY <1>2, <1>3, <3>1, <3>3, Zenon DEF Alone, Fewer
    <3> QED BY <3>2, <3>3, Zenon
  <2> QED BY <1>3, <2>1, Zenon DEF WalkBrings
<1>4. CASE Rests
  <2>1. ASSUME conf.at = "walk", ~ missed, NEW n \in Mem \ conf.left PROVE Walked(n)'
    <3>1. Walked(n)
      BY <1>0, <2>1, Zenon DEF WalkBrings
    <3> QED BY <1>2, <1>4, <3>1, Zenon DEF Rests, Fewer
  <2> QED BY <1>4, <2>1, Zenon DEF Rests, Kept, WalkBrings
<1>5. CASE Forked
  BY <1>5, Zenon DEF Forked, Kept, WalkBrings
<1>6. ASSUME NEW m \in Mem, Steps(m) PROVE WalkBrings'
  <2>1. ASSUME Walked(m) PROVE Walked(m)'
    <3>1. op[m].at # "walk" /\ op'[m].at # "walk"
      BY <1>6, Zenon DEF Steps, Evicting
    <3> QED BY <1>6, <2>1, <3>1, Zenon DEF Steps, Walked, Behind
  <2> QED BY <1>3, <1>6, <2>1, Zenon DEF Steps, Kept, Fewer
<1>7. ASSUME NEW m \in Mem, Turns(m) PROVE WalkBrings'
  <2>1. ASSUME Walked(m) PROVE Walked(m)'
    <3>1. \A q \in Page : entry[m][q] = "out" => Behind(m, q)
      <4>1. CASE op[m].at = "walk"
        <5>1. op[m].p \in Page \cup {0}
          BY <1>0, Zenon DEF Types, Ops
        <5>2. \A q \in Page : entry[m][q] = "out" => q < op[m].p \/ q = op[m].p
          BY <1>1, <1>7, <4>1, <5>1 DEF Turns
        <5> QED BY <4>1, <5>2, Zenon DEF Behind
      <4>2. CASE op[m].at # "walk"
        BY <1>0, <1>7, <4>2, Zenon DEF Turns, Walkers, Behind
      <4> QED BY <4>1, <4>2, Zenon
    <3> QED BY <1>7, <2>1, <3>1, Zenon DEF Turns, Walked, Behind
  <2> QED BY <1>3, <1>7, <2>1, Zenon DEF Turns, Kept, Fewer
<1>8. ASSUME NEW m \in Mem, Takes(m) PROVE WalkBrings'
  BY <1>0, <1>8, Zenon DEF Takes, Kept, Switch, WalkBrings
<1>9. ASSUME NEW m \in Mem, Publishes(m) PROVE WalkBrings'
  <2>1. op[m].slot # 0 /\ op[m].at = "publish" /\ ~ op[m].walk
    BY <1>0, <1>9, Zenon DEF Publishes, Shape, Evicting, Walkers
  <2>2. \A n \in Mem, q \in Page : n # m => entry'[n][q] # "out"
    BY <1>9, EvictionFacts, Zenon DEF Publishes, Evicting
  <2>3. ASSUME conf.at = "walk", ~ missed, NEW n \in Mem \ conf.left PROVE Walked(n)'
    <3>1. Walked(n) /\ n # m
      BY <1>0, <2>1, <2>3, Zenon DEF WalkBrings, Walked
    <3>2. op'[n] = op[n]
      BY <1>9, <3>1, Zenon DEF Publishes, Alone
    <3> QED BY <2>2, <3>1, <3>2, Zenon DEF Walked
  <2> QED BY <1>9, <2>3, Zenon DEF Publishes, Kept, WalkBrings
<1>10. ASSUME NEW m \in Mem, Asks(m) PROVE WalkBrings'
  <2>1. ASSUME Walked(m) PROVE Walked(m)'
    <3>1. op[m].at = "walk"
      BY <1>0, <1>10, <2>1, Zenon DEF Asks, Walked, Behind, Walkers
    <3>2. op'[m].walk /\ op'[m].at = "read" /\ op[m].p \in Page \cup {0}
      BY <1>0, <1>10, <3>1, Zenon DEF Asks, Types, Ops
    <3>3. \A q \in Page : entry[m][q] = "out" /\ Behind(m, q)' => Behind(m, q)
      <4>1. \A q \in Page : entry[m][q] = "out" /\ q < op'[m].p => q < op[m].p \/ q = op[m].p
        BY <1>1, <1>10, <3>2 DEF Asks
      <4> QED BY <3>1, <3>2, <4>1, ZenonT(30) DEF Behind
    <3> QED BY <1>10, <2>1, <3>2, <3>3, Zenon DEF Asks, Walked
  <2> QED BY <1>3, <1>10, <2>1, Zenon DEF Asks, Kept, Fewer
<1>11. ASSUME NEW m \in Mem, Comes(m) PROVE WalkBrings'
  <2>1. \A f \in Frame : frame_slot[f] = 0 => frame_slot'[f] = 0
    BY <1>0, <1>11, Zenon DEF Comes, Types
  <2>2. ASSUME Walked(m) PROVE Walked(m)'
    <3>1. \A q \in Page : Behind(m, q)' => Behind(m, q)
      BY <1>11, Zenon DEF Comes, Behind
    <3> QED BY <1>1, <1>11, <2>1, <2>2, <3>1, Zenon DEF Comes, Walked
  <2> QED BY <1>3, <1>11, <2>1, <2>2, Zenon DEF Comes, Kept, Fewer
<1>12. ASSUME NEW m \in Mem, Fails(m) PROVE WalkBrings'
  <2>1. ASSUME Walked(m), ~ missed' PROVE Walked(m)'
    <3>1. ~ op[m].walk /\ ~ op'[m].walk
      BY <1>12, <2>1, Zenon DEF Fails
    <3> QED BY <1>12, <2>1, <3>1, Zenon DEF Fails, Walked, Behind
  <2> QED BY <1>3, <1>12, <2>1, Zenon DEF Fails, Kept, Fewer
<1>13. ASSUME NEW m \in Mem, Frees(m) PROVE WalkBrings'
  <2>1. ASSUME Walked(m) PROVE Walked(m)'
    <3>1. op[m].walk /\ op[m].slot # 0
      BY <1>0, <1>13, <2>1, Zenon DEF Frees, Shape, Walked
    <3>2. op[m].p # 0 /\ op'[m].p = op[m].p /\ op'[m].walk
      BY <1>0, <1>13, <3>1, Zenon DEF Frees, Walkers
    <3>3. Faulting(m)
      BY <1>13, <3>2, ZenonT(30) DEF Frees, Faulting
    <3>4. frame_slot[FrameOf[op[m].p]] = 0
      <4>1. /\ op[m].f = FrameOf[op[m].p]
            /\ frame_slot[op[m].f] = IF op[m].at = "read" THEN op[m].slot ELSE 0
        BY <3>3, FaultFacts, Zenon
      <4> QED BY <1>13, <4>1 DEF Frees
    <3>5. \A q \in Page : Behind(m, q)' => Behind(m, q) \/ q = op[m].p
      BY <3>2, Zenon DEF Behind
    <3> QED BY <1>13, <2>1, <3>2, <3>4, <3>5, Zenon DEF Frees, Fewer, Walked
  <2> QED BY <1>3, <1>13, <2>1, Zenon DEF Frees
<1>14. ASSUME NEW m \in Mem, NEW p \in Page, Drops(m, p) PROVE WalkBrings'
  <2>1. \A f \in Frame : frame_slot[f] = 0 => frame_slot'[f] = 0
    BY <1>0, <1>14, Zenon DEF Drops, Types
  <2>2. ~ Walked(m)
    <3>1. ~ op[m].walk
      BY <1>0, <1>14, Zenon DEF Drops, Walkers
    <3>2. entry[m][p] \in {"none", "in", "out"} /\ Reads(m, p)
      <4>1. entry[m] \in [Page -> {"none", "in", "out"}] /\ Reads(m, p)
        BY <1>0, ReadsBackIs, Zenon DEF Types, Inv
      <4> QED BY <4>1, Zenon
    <3>3. entry[m][p] = "out"
      BY <1>14, <3>2, Zenon DEF Drops, Reads
    <3> QED BY <1>14, <3>1, <3>3, Zenon DEF Drops, Walked, Behind
  <2> QED BY <1>3, <1>14, <2>1, <2>2, Zenon DEF Drops, Kept
<1>15. ASSUME NEW m \in Mem, WalkMem(m) PROVE WalkBrings'
  <2>1. /\ conf.at = "walk" /\ conf' = [conf EXCEPT !.left = @ \ {m}]
        /\ UNCHANGED <<entry, frame_slot>>
    BY <1>15, Zenon DEF WalkMem, mapVars
  <2>2. conf'.left = conf.left \ {m}
    BY <1>0, <2>1 DEF Types
  <2>3. CASE missed'
    BY <2>3, Zenon DEF WalkBrings
  <2>4. CASE op' = [op EXCEPT ![m] = Walking(0)] /\ missed' = missed
    <3>1. op'[m] = Walking(0) /\ \A n \in Mem : n # m => op'[n] = op[n]
      BY <1>0, <2>4, Zenon DEF Types
    <3>2. op'[m].walk /\ op'[m].p = 0
      BY <3>1, Records, Zenon
    <3>3. Walked(m)'
      <4>1. \A q \in Page : ~ (q < op'[m].p) /\ q # op'[m].p
        BY <1>1, <3>2
      <4> QED BY <3>2, <4>1, Zenon DEF Walked, Behind
    <3>4. ASSUME ~ missed, NEW n \in Mem \ (conf.left \ {m}) PROVE Walked(n)'
      <4>1. CASE n = m
        BY <3>3, <4>1, Zenon
      <4>2. CASE n # m
        <5>1. Walked(n)
          BY <1>0, <2>1, <3>4, <4>2, Zenon DEF WalkBrings
        <5> QED BY <1>2, <2>1, <3>1, <4>2, <5>1, Zenon
      <4> QED BY <4>1, <4>2, Zenon
    <3> QED BY <2>2, <2>4, <3>4, Zenon DEF WalkBrings
  <2> QED BY <1>15, <2>3, <2>4, Zenon DEF WalkMem
<1>16. CASE TurnOff
  <2>1. conf'.left = Mem
    BY <1>0, <1>16 DEF TurnOff, Switch, Types
  <2> QED BY <2>1, Zenon DEF WalkBrings
<1>17. CASE Enable \/ Disable \/ Build \/ FinishOff
  <2>1. conf'.at # "walk"
    BY <1>0, <1>17 DEF Enable, Disable, Build, FinishOff, Types
  <2> QED BY <2>1, Zenon DEF WalkBrings
<1> QED
  BY <1>4, <1>5, <1>6, <1>7, <1>8, <1>9, <1>10, <1>11, <1>12, <1>13, <1>14, <1>15, <1>16, <1>17,
     ZenonT(30) DEF Step

LEMMA InitOff == ASSUME SwapConstants, Init PROVE OffInv
<1>1. \A m \in Mem : op[m].at = "idle" /\ ~ op[m].walk
  BY Records, Zenon DEF Init
<1>2. conf.at = "idle" /\ ~ swap_on /\ area = NoArea /\ used = {}
  BY Zenon DEF Init
<1> QED BY <1>1, <1>2, Zenon DEF OffInv, Owned, Switch, Walkers, WalkBrings

LEMMA NextOff == ASSUME SwapConstants, Inv, OffInv, [Next]_vars PROVE OffInv'
<1>1. Step
  BY NextSteps, ZenonT(30)
<1> QED BY <1>1, StepOwned, StepSwitch, StepWalkers, StepWalk, Zenon DEF OffInv

----------------------------------------------------------------------------
(* The pager's state has its type. *)
THEOREM PagerTypes == ASSUME SwapConstants PROVE Spec => []TypeOK
<1>1. Init => Inv
  BY InitInv, Zenon
<1>2. Inv /\ [Next]_vars => Inv'
  BY NextInv, Zenon
<1>3. Inv => TypeOK
  BY Zenon DEF Inv, Types, SlotsDiffer, TypeOK, V
<1> QED BY <1>1, <1>2, <1>3, PTL DEF Spec

(* A swapoff that passed over no address space, failed no read and saw no  *)
(* fork leaves no slot in use and no area behind, whatever sweeps, faults  *)
(* and unmaps it overlapped; and the area of a stopped pager goes with the *)
(* last slot in use and not before (swap_disable_locked,                   *)
(* swap_fault_mem_all, swap_slot_free).                                    *)
THEOREM SwapoffLeavesNothing == ASSUME SwapConstants PROVE Spec => []SwapoffEnds
<1>1. Init => Inv /\ OffInv
  BY InitInv, InitOff, Zenon
<1>2. (Inv /\ OffInv) /\ [Next]_vars => (Inv /\ OffInv)'
  BY NextInv, NextOff, Zenon
<1>3. Inv /\ OffInv => SwapoffEnds
  <2> SUFFICES ASSUME Inv, OffInv PROVE SwapoffEnds
    BY Zenon
  <2>1. area = NoArea => used = {}
    BY DEF Inv, SlotsDiffer, NoArea
  <2> QED BY <2>1, Zenon DEF OffInv, Switch, SwapoffEnds, SwapoffBringsHome, DrainedAreaGoes
<1> QED BY <1>1, <1>2, <1>3, PTL DEF Spec

----------------------------------------------------------------------------
(* The owners of the slots.                                                *)
LEMMA OwnersDiffer ==
    ASSUME Inv, Owned
    PROVE  SlotsHaveOneOwner
<1> DEFINE out == {f \in Frame : frame_slot[f] # 0}
           busy == {m \in Mem : op[m].slot # 0 /\ op[m].at # "read"}
           S == {frame_slot[f] : f \in out}
           B == {op[m].slot : m \in busy}
<1>1. \A m \in Mem : m \in busy <=> Busy(m)
  BY Zenon DEF Busy
<1>2. used = S \cup B
  <2>1. \A f \in out : frame_slot[f] \in used
    BY Zenon DEF Inv, SlotsDiffer
  <2>2. \A m \in busy : op[m].slot \in used
    BY <1>1, Zenon DEF Inv, SlotsDiffer
  <2>3. 0 \notin used
    BY DEF Inv, SlotsDiffer, Types
  <2>4. \A x \in used : x \in S \cup B
    BY <1>1, <2>3, Zenon DEF Owned
  <2> QED BY <2>1, <2>2, <2>4, Zenon
<1>3. \A f \in out, m \in busy : frame_slot[f] # op[m].slot
  BY <1>1, Zenon DEF Inv, SlotsDiffer
<1>4. \A f, g \in out : frame_slot[f] = frame_slot[g] => f = g
  BY Zenon DEF Inv, SlotsDiffer
<1>5. \A m, n \in busy : op[m].slot = op[n].slot => m = n
  BY <1>1, Zenon DEF Inv, SlotsDiffer
<1> QED BY <1>2, <1>3, <1>4, <1>5, Zenon DEF SlotsHaveOneOwner

(* A slot in use is one frame's that is out, or one operation's that has   *)
(* just taken it or is about to give it back, and nobody else's: none is   *)
(* leaked by a refused or failed eviction, a failed read or an unmap, and  *)
(* the tier has objects of slots in use only (swap_slot_alloc,             *)
(* swap_slot_free and zswap_forget).                                       *)
THEOREM SlotsAreOwned == ASSUME SwapConstants PROVE Spec => []SlotsAccountedFor
<1>1. Init => Inv /\ TierInv /\ OffInv
  BY InitInv, InitTier, InitOff, Zenon
<1>2. (Inv /\ TierInv /\ OffInv) /\ [Next]_vars => (Inv /\ TierInv /\ OffInv)'
  BY NextInv, NextTier, NextOff, ZenonT(30)
<1>3. Inv /\ TierInv /\ OffInv => SlotsAccountedFor
  BY OwnersDiffer, Zenon DEF TierInv, OffInv, SlotsAccountedFor
<1> QED BY <1>1, <1>2, <1>3, PTL DEF Spec
=============================================================================
