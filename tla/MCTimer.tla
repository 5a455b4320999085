------------------------------- MODULE MCTimer --------------------------------
(* A small instance of Timer for TLC: two session threads, three timers.   *)
EXTENDS Timer
=============================================================================
