----------------------------- MODULE KernelHeap -----------------------------
(***************************************************************************)
(* The kernel's heap and the system calls that use it.  A call runs to its *)
(* end before another process runs, so each is one step.  Who owns an      *)
(* object makes no difference: nothing calls kFreeAll.                     *)
(***************************************************************************)
EXTENDS Integers, FiniteSets

CONSTANT MAX_HEAP_OBJECTS   (* a number; see ShellAssumption               *)

VARIABLES
  kheap,     (* what each object holds                                     *)
  names,     (* calls so far that took an object for a file name           *)
  kstatus

kvars == <<kheap, names, kstatus>>

Slots == 1 .. MAX_HEAP_OBJECTS

(* "screen": something that is being printed.                              *)
KUses == {"free", "name", "screen"}

(* The kernel wrote through the null pointer it got because there was no   *)
(* object left, or because the name was longer than an object.             *)
KStatuses == {"running", "exhausted", "name too long"}

FreeObjects(h) == {s \in Slots : h[s] = "free"}

(* The objects that n calls of kMalloc return, the first free ones.        *)
kMalloc(h, n) ==
  LET before(s) == {t \in FreeObjects(h) : t < s}
  IN  {s \in FreeObjects(h) : Cardinality(before(s)) < n}

Hold(h, objects, use) == [s \in Slots |-> IF s \in objects THEN use ELSE h[s]]
kFree(h, objects) == Hold(h, objects, "free")

Init ==
  /\ kheap = [s \in Slots |-> "free"]
  /\ names = 0
  /\ kstatus = "running"

Exhausted ==
  /\ kstatus' = "exhausted"
  /\ UNCHANGED <<kheap, names>>

-----------------------------------------------------------------------------
(* A listing holds six objects with the characters of its frame, and some  *)
(* others for every line or number between the two ends of it, which are   *)
(* freed before those of the next line are taken.  It is one step: what    *)
(* counts here is how many objects it holds at once at the most (inside),  *)
(* on the paths that test for null and on those that do not; the lines one *)
(* by one are not walked.                                                  *)
Frame == 6

Listing(inside) ==
  /\ kstatus = "running"
  /\ IF Cardinality(FreeObjects(kheap)) < Frame + inside
       THEN Exhausted
       ELSE LET frame == kMalloc(kheap, Frame)
                open  == Hold(kheap, frame, "screen")
                line  == kMalloc(open, inside)
            IN  /\ kheap' = kFree(kFree(Hold(open, line, "screen"), line), frame)
                /\ UNCHANGED <<names, kstatus>>

(* The two numbers of printSystemUptime are the most at one time; without  *)
(* an object for them the other numbers are left out.                      *)
sysPs == Listing(2)

(* Five for each entry of the directory, of which there is at least one.   *)
Mutant_sysDirectory ==    \* the object with the time is not freed
  /\ kstatus = "running"
  /\ IF Cardinality(FreeObjects(kheap)) < Frame + 5
       THEN Exhausted
       ELSE /\ kheap' = Hold(kheap, kMalloc(kheap, 1), "screen")
            /\ UNCHANGED <<names, kstatus>>
sysDirectory == Listing(5)

sysUptime ==
  /\ kstatus = "running"
  /\ IF Cardinality(FreeObjects(kheap)) < 2
       THEN Exhausted
       ELSE UNCHANGED kvars

-----------------------------------------------------------------------------
(* The three calls that name a file begin by copying the name to an object *)
(* that nothing ever frees, whatever becomes of the call.                  *)
TakeName ==
  /\ kstatus = "running"
  /\ \/ /\ FreeObjects(kheap) # {}
        /\ kheap' = Hold(kheap, kMalloc(kheap, 1), "name")
        /\ names' = names + 1
        /\ UNCHANGED kstatus
     \/ FreeObjects(kheap) = {} /\ Exhausted
     \/ kstatus' = "name too long" /\ UNCHANGED <<kheap, names>>

sysOpen == TakeName
sysOpenEmpty == TakeName
sysForkExec == TakeName

Halted == kstatus # "running" /\ UNCHANGED kvars

Next ==
  \/ sysPs \/ sysDirectory \/ sysUptime
  \/ sysOpen \/ sysOpenEmpty \/ sysForkExec
  \/ Halted

Spec == Init /\ [][Next]_kvars

-----------------------------------------------------------------------------
(* Properties.                                                             *)

TypeOK ==
  /\ kheap \in [Slots -> KUses]
  /\ names \in 0 .. MAX_HEAP_OBJECTS
  /\ kstatus \in KStatuses

(* Between two calls the objects in use are the names, one for each call   *)
(* that took one: neither do names share an object, nor does a listing     *)
(* leave one behind.                                                       *)
NamesOnly ==
  /\ \A s \in Slots : kheap[s] # "screen"
  /\ Cardinality(Slots \ FreeObjects(kheap)) = names
=============================================================================
