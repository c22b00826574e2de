------------------------------ MODULE MC_Editor ------------------------------
(* The shell and one slot for an editor, which editors follow each other   *)
(* in; each of the two can open two files.                                 *)
EXTENDS Editor
=============================================================================
