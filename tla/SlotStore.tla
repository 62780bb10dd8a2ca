----------------------------- MODULE SlotStore -----------------------------
(***************************************************************************)
(* What kernel/zswap.h promises the pager: each slot of the swap area      *)
(* keeps the frame last stored in it until it is forgotten, or is empty;   *)
(* an operation on one slot changes no other; nothing else empties a slot. *)
(***************************************************************************)
CONSTANTS Slot, Frame, Empty

VARIABLE content

Init == content = [s \in Slot |-> Empty]

(* A store that is accepted. *)
Keep(s, f) == content' = [content EXCEPT ![s] = f]

(* A forget, or a store that is declined: the frame goes to the file. *)
Clear(s) == content' = [content EXCEPT ![s] = Empty]

Next == \E s \in Slot : Clear(s) \/ \E f \in Frame : Keep(s, f)

Spec == Init /\ [][Next]_content
=============================================================================
