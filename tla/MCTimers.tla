------------------------------- MODULE MCTimers -------------------------------
(* Timers of two owners for TLC. *)
EXTENDS TimersInv
=============================================================================
