------------------------------ MODULE Constants ------------------------------
(***************************************************************************)
(* The limits of constants.h, as parameters: the sizes of the process      *)
(* table, of a task's descriptor array and of the system-wide open file    *)
(* table.  The kernel is the base code of a course: the bodies of five     *)
(* kernel routines are left to be written ("ASSIGNMENT n TO DO").  Solved  *)
(* is the set of those routines that have been written; a routine outside  *)
(* it is the empty body that the repository ships.                         *)
(***************************************************************************)
EXTENDS Integers

CONSTANTS
  MAX_PROCESSES,          (* slots of the process table                    *)
  MAX_FILE_DESCRIPTORS,   (* length of task.fileDescriptor                 *)
  MAX_SYSTEM_OPEN_FILES,  (* entries of the open file table                *)
  Solved                  (* assignment routines that have a body          *)

Assignments == {"sysClose", "sysFree", "sysKill", "sysSwitch", "scheduler"}

(* The owner written where there is no process: above every pid.           *)
KERNEL_OWNED == 255

(* Entries 1..3 of the open file table and descriptors 0..2 of every task  *)
(* are STDIN, STDOUT and STDERR.                                           *)
STD == 3

ASSUME ConstantsAssumption ==
  /\ MAX_PROCESSES \in 2 .. (KERNEL_OWNED - 1)
  /\ MAX_FILE_DESCRIPTORS \in Nat /\ MAX_FILE_DESCRIPTORS > STD
  /\ MAX_SYSTEM_OPEN_FILES \in Nat /\ MAX_SYSTEM_OPEN_FILES > STD + 1
  /\ Solved \subseteq Assignments

(* A pid is the number of a slot of the process table, counted from 1.     *)
Pids == 1 .. MAX_PROCESSES

(* The task states; "NONE" is the zero of a slot nobody uses.              *)
States == {"NONE", "SLEEPING", "RUNNING", "ZOMBIE", "KILLED"}
Dead   == {"ZOMBIE", "KILLED"}

(* The lowest-numbered member of a set: what a scan from slot 0 stops at.  *)
IsFirst(n, S) == n \in S /\ \A m \in S : n <= m
=============================================================================
