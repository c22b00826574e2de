------------------------------ MODULE MC_Console ------------------------------
(* Commands of up to five keys in a buffer of three, texts of up to four.  *)
EXTENDS Console
=============================================================================
