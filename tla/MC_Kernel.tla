------------------------------ MODULE MC_Kernel ------------------------------
(* Kernel with three usable tasks.                                         *)
EXTENDS Kernel
=============================================================================
