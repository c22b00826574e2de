-------------------------------- MODULE Shell --------------------------------
(***************************************************************************)
(* The shell and the heap of its process.  Most commands end by freeing    *)
(* the whole heap and calling main() again, which never returns: a session *)
(* uses up the stack, and what freeAll does not free.  A command is one    *)
(* step: other processes have heaps and stacks of their own.  The kernel's *)
(* heap is everybody's.                                                    *)
(***************************************************************************)
EXTENDS Integers, FiniteSets

CONSTANTS
  MAX_HEAP_OBJECTS,
  MaxMains     (* how many activations of main() fit in the two stack pages *)

ASSUME ShellAssumption ==
  /\ MAX_HEAP_OBJECTS \in Nat /\ MAX_HEAP_OBJECTS >= 4
  /\ MaxMains \in Nat \ {0}

VARIABLES
  heap,      (* what each heap object holds                                *)
  mains,     (* activations of main()                                      *)
  leaks,     (* commands so far that left an object with text behind       *)
  status,
  kheap, names, kstatus,   (* see KernelHeap                               *)
  others     (* names taken from the kernel heap by other processes        *)

K == INSTANCE KernelHeap

svars == <<heap, mains, leaks, status>>
kernelHeap == <<kheap, names, kstatus>>
vars == <<svars, kernelHeap, others>>

Slots == 1 .. MAX_HEAP_OBJECTS

(* An object in use is blank, or has text in its first three bytes.        *)
Uses == {"free", "blank", "text"}

(* "null": the program wrote through a null pointer that malloc returned.  *)
(* "overflow": page fault below the stack.  "exited": systemExit.          *)
Statuses == {"running", "null", "overflow", "exited"}

In(h, use) == {s \in Slots : h[s] = use}
Lowest(S) == CHOOSE s \in S : \A t \in S : s <= t

-----------------------------------------------------------------------------
(* The heap.  Asked for an object when there is none, malloc returns null. *)
malloc(h, use) ==
  IF In(h, "free") = {} THEN h ELSE [h EXCEPT ![Lowest(In(h, "free"))] = use]

(* freeAll compares four bytes with the pid, which has one: it frees the   *)
(* objects whose first three bytes are zero.                               *)
Mutant_freeAll(h) == h    \* frees none
freeAll(h) == [s \in Slots |-> IF h[s] = "blank" THEN "free" ELSE h[s]]

(* main() asks for two objects and never uses them.                        *)
MainHeap(h) == malloc(malloc(h, "blank"), "blank")

Init ==
  /\ heap = MainHeap([s \in Slots |-> "free"])
  /\ mains = 1
  /\ leaks = 0
  /\ status = "running"
  /\ K!Init
  /\ others = 0

-----------------------------------------------------------------------------
(* The prompt is printed through an object of its own before each command, *)
(* and so is it in most of them: one object must be free.                  *)
AtPrompt ==
  /\ status = "running" /\ In(heap, "free") # {}
  /\ kstatus = "running"

KernelHeapKept == UNCHANGED <<kernelHeap, others>>

PromptWritesNull ==
  /\ status = "running" /\ kstatus = "running"
  /\ In(heap, "free") = {}
  /\ status' = "null"
  /\ UNCHANGED <<heap, mains, leaks>> /\ KernelHeapKept

(* cls, uptime, help, music, ps, ls, mem, mmap, kill, switch, parent, free *)
(* and sched use at most one object at a time and free it.                 *)
CommandKeepsHeap ==
  /\ AtPrompt
  /\ K!sysUptime \/ K!sysPs \/ K!sysDirectory \/ UNCHANGED kernelHeap
  /\ UNCHANGED <<svars, others>>

(* systemTaskSwitch to the shell itself returns without freeing the digit. *)
SwitchToSelf ==
  /\ AtPrompt
  /\ heap' = malloc(heap, "text")
  /\ leaks' = leaks + 1
  /\ UNCHANGED <<mains, status>> /\ KernelHeapKept

Mutant_MainAgain(h) ==    (* returns, and leaves the stack as it was         *)
  /\ heap' = MainHeap(freeAll(h))
  /\ mains' = mains + 1
  /\ UNCHANGED status
MainAgain(h) ==
  IF mains = MaxMains
    THEN /\ heap' = freeAll(h)
         /\ status' = "overflow"
         /\ UNCHANGED mains
    ELSE /\ heap' = MainHeap(freeAll(h))
         /\ mains' = mains + 1
         /\ UNCHANGED status

(* run and new make a call that takes a name; their error messages, and a  *)
(* command that is not recognized, come without one.                       *)
Mutant_CommandRestarts ==    \* a loop in place of the call of main()
  /\ AtPrompt
  /\ K!sysForkExec \/ K!sysOpenEmpty \/ UNCHANGED kernelHeap
  /\ UNCHANGED <<svars, others>>
CommandRestarts ==
  /\ AtPrompt
  /\ K!sysForkExec \/ K!sysOpenEmpty \/ UNCHANGED kernelHeap
  /\ IF kstatus' = "running" THEN MainAgain(heap) ELSE UNCHANGED <<heap, mains, status>>
  /\ UNCHANGED <<leaks, others>>

(* rm copies the name to an object and needs a second one for the call.    *)
RemoveFile(name) ==
  /\ AtPrompt
  /\ LET named == malloc(heap, name)
     IN  IF In(named, "free") = {}
           THEN /\ status' = "null"
                /\ heap' = named
                /\ UNCHANGED mains
           ELSE MainAgain(named)
  /\ leaks' = IF name = "text" THEN leaks + 1 ELSE leaks
  /\ KernelHeapKept

(* Pid 1 cannot exit: its shell goes on.                                   *)
Exit ==
  /\ AtPrompt
  /\ status' \in {"running", "exited"}
  /\ UNCHANGED <<heap, mains, leaks>> /\ KernelHeapKept

(* Another process opens, creates or runs a file, or asks for a listing.   *)
OtherProcess ==
  /\ kstatus = "running"
  /\ K!Next
  /\ others' = others + (names' - names)
  /\ UNCHANGED svars

Stopped == (status # "running" \/ kstatus # "running") /\ UNCHANGED vars

Next ==
  \/ PromptWritesNull
  \/ CommandKeepsHeap
  \/ SwitchToSelf
  \/ CommandRestarts
  \/ \E name \in {"blank", "text"} : RemoveFile(name)
  \/ Exit
  \/ OtherProcess
  \/ Stopped

Spec == Init /\ [][Next]_vars

-----------------------------------------------------------------------------
(* Properties.                                                             *)

TypeOK ==
  /\ heap \in [Slots -> Uses]
  /\ mains \in 1 .. MaxMains
  /\ leaks \in 0 .. MAX_HEAP_OBJECTS
  /\ status \in Statuses
  /\ K!TypeOK
  /\ others \in 0 .. names

(* However many commands are given, and however deep main() calls itself,  *)
(* at the prompt no blank object is in use but the two of the last main(). *)
TwoBlankObjects == status = "running" => Cardinality(In(heap, "blank")) <= 2

(* Only removing files and switching to oneself can exhaust the heap: each *)
(* such command costs one object for ever, and all but the two of main()   *)
(* and one more must be lost before malloc returns null.                   *)
HeapLasts == status = "null" => leaks >= MAX_HEAP_OBJECTS - 3

(* Between two system calls the objects in use in the kernel heap are the  *)
(* names, one for each call that took one: no object is given to two       *)
(* names, and no listing leaves one behind.                                *)
NamesOnly == K!NamesOnly

(* The names are never freed, but each one a shell takes costs it an       *)
(* activation of main(): when the kernel finds no object, other processes  *)
(* have taken all but as many as that, and the eleven of a listing.        *)
KernelHeapLasts ==
  kstatus = "exhausted" => others + mains >= MAX_HEAP_OBJECTS - 10
=============================================================================
