------------------------------ MODULE MCTimer ------------------------------
(* Values of Timer's constants for TLC. *)
EXTENDS Timer

\* overdue, off, one and two ticks, and a time that overflows
MCValues == {-2, 0, 1, 2, 9}
MCIntervals == {0, 1, 2}
=============================================================================
