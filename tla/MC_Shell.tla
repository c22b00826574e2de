------------------------------- MODULE MC_Shell -------------------------------
(* Shell with a heap of sixteen objects and a stack for ten activations.   *)
EXTENDS Shell
=============================================================================
