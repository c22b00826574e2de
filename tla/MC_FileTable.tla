----------------------------- MODULE MC_FileTable -----------------------------
(* Three slots for tasks, of which two can be used; two descriptors each;  *)
(* three usable entries.                                                   *)
EXTENDS FileTable
=============================================================================
