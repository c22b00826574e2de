----------------------------- MODULE MC_OpenFiles -----------------------------
(* OpenFiles with two tasks, two descriptors each, and three usable        *)
(* entries.                                                                *)
EXTENDS OpenFiles
=============================================================================
