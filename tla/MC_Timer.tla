------------------------------- MODULE MC_Timer -------------------------------
(* Timer with counters of four bits and two interrupts in a second.        *)
EXTENDS Timer
=============================================================================
