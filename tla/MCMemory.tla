------------------------------ MODULE MCMemory ------------------------------
(***************************************************************************)
(* The pager and its compressed tier for TLC.  A behaviour is about one    *)
(* subject, chosen at the start: the pager with two frames and failing     *)
(* transfers, the pager with one frame that two address spaces share, or   *)
(* the compressed tier.  The others stay as they were made.                *)
(***************************************************************************)
EXTENDS Swap, Zswap, TLC

CONSTANTS m1, m2, n1, f1, g1, h2, top, big

VARIABLES
    subject,
    x_entry, x_cow, x_moved, x_host, x_frame_slot, x_swap_on, x_area, x_used, x_tier, x_file,
    x_op, x_conf, x_missed, x_quiesced, x_still, x_truth    \* the second pager

forkVars == <<x_entry, x_cow, x_moved, x_host, x_frame_slot, x_swap_on, x_area, x_used, x_tier,
              x_file, x_op, x_conf, x_missed, x_quiesced, x_still, x_truth>>

(* Swap: two frames of one page each; files of one slot and of two. *)
TwoFrames == <<1, 2>>

(* Zswap: frames that compress to a third, to two thirds, to a little less *)
(* than a frame, and not at all.                                           *)
Compressed == f1 :> 1 @@ g1 :> 1 @@ h2 :> 2 @@ top :> 3 @@ big :> 3

(* One frame of two pages, in a parent and a child; an area in memory. *)
Forks == INSTANCE Swap WITH
    entry <- x_entry, cow <- x_cow, moved <- x_moved, host <- x_host,
    frame_slot <- x_frame_slot, swap_on <- x_swap_on, area <- x_area, used <- x_used,
    tier <- x_tier, file <- x_file, op <- x_op, conf <- x_conf, missed <- x_missed,
    quiesced <- x_quiesced, still <- x_still, truth <- x_truth,
    Mem <- {m1, m2}, Page <- {1, 2}, Frame <- {1}, FrameOf <- <<1, 1>>,
    Val <- {0, 1}, Sizes <- {1}, Modes <- {"ram"}, IoErrors <- FALSE

ASSUME SwapConstants /\ Forks!SwapConstants /\ ZswapConstants

MemoryInit == subject \in {"fails", "forks", "zswap"} /\ Init /\ Forks!Init /\ ZInit

MemoryNext ==
    \/ subject = "fails" /\ Next /\ UNCHANGED <<subject, forkVars, zvars>>
    \/ subject = "forks" /\ Forks!Next /\ UNCHANGED <<subject, vars, zvars>>
    \/ subject = "zswap" /\ ZNext /\ UNCHANGED <<subject, vars, forkVars>>

MemorySpec == MemoryInit /\ [][MemoryNext]_<<subject, vars, forkVars, zvars>>

Symmetric == Permutations({m1, m2})

----------------------------------------------------------------------------
(* What Swap promises, with frames that two address spaces share: no page  *)
(* is lost, no slot leaked or shared, and no area left behind.             *)
KeptThroughForks ==
    subject = "forks" =>
    Forks!TypeOK /\ Forks!ReadsBack /\ Forks!SlotsAccountedFor /\ Forks!SwapoffEnds
=============================================================================
