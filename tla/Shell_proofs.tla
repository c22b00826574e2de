----------------------------- MODULE Shell_proofs -----------------------------
(***************************************************************************)
(* Proofs about Shell, for heaps and stacks of every size: first the heap  *)
(* of the shell's process, then the heap of the kernel.                    *)
(***************************************************************************)
EXTENDS Shell, FiniteSetTheorems, WellFoundedInduction, TLAPS

-----------------------------------------------------------------------------
(* Sets of objects.                                                        *)

LEMMA SlotSets ==
  ASSUME NEW S \in SUBSET Slots
  PROVE  IsFiniteSet(S) /\ Cardinality(S) \in 0 .. MAX_HEAP_OBJECTS
<1>1. MAX_HEAP_OBJECTS \in Nat
  BY ShellAssumption
<1>2. IsFiniteSet(Slots) /\ Cardinality(Slots) = MAX_HEAP_OBJECTS
  BY <1>1, FS_Interval DEF Slots
<1>3. IsFiniteSet(S) /\ Cardinality(S) <= MAX_HEAP_OBJECTS
  BY <1>2, FS_Subset
<1>4. Cardinality(S) \in Nat
  BY <1>3, FS_CardinalityType
<1> QED
  BY <1>1, <1>3, <1>4

(* A heap that is not full has a first free object.                        *)
LEMMA First ==
  ASSUME NEW S \in SUBSET Slots, S # {}
  PROVE  \E s \in S : \A t \in S : s <= t
<1>1. S \subseteq Nat
  BY DEF Slots
<1>2. PICK s \in S : \A t \in S : ~ (<<t, s>> \in OpToRel(<, Nat))
  BY <1>1, WFMin, NatLessThanWellFounded
<1>3. \A t \in S : ~ (t < s)
  BY <1>1, <1>2, Zenon DEF OpToRel
<1> QED
  BY <1>1, <1>3

LEMMA Complement ==
  ASSUME NEW S \in SUBSET Slots
  PROVE  Cardinality(Slots \ S) = MAX_HEAP_OBJECTS - Cardinality(S)
<1>1. IsFiniteSet(Slots) /\ Cardinality(Slots) = MAX_HEAP_OBJECTS
  BY ShellAssumption, FS_Interval DEF Slots
<1>2. Slots \cap S = S
  OBVIOUS
<1> QED
  BY <1>1, <1>2, FS_Difference

-----------------------------------------------------------------------------
(* malloc and freeAll.                                                     *)

Heaps == [Slots -> Uses]
Number(h, use) == Cardinality(In(h, use))

LEMMA Numbers ==
  ASSUME NEW h, NEW use
  PROVE  IsFiniteSet(In(h, use)) /\ Number(h, use) \in 0 .. MAX_HEAP_OBJECTS
<1>1. In(h, use) \in SUBSET Slots
  BY DEF In
<1> QED
  BY <1>1, SlotSets DEF Number

(* The objects that hold nothing are the others.                           *)
LEMMA FullHeap ==
  ASSUME NEW h \in Heaps, In(h, "free") = {}
  PROVE  Number(h, "blank") + Number(h, "text") = MAX_HEAP_OBJECTS
<1>1. In(h, "text") \in SUBSET Slots
  BY DEF In
<1>2. In(h, "blank") = Slots \ In(h, "text")
  BY DEF Heaps, Uses, In
<1>3. Number(h, "text") \in Nat /\ MAX_HEAP_OBJECTS \in Nat
  BY Numbers, ShellAssumption
<1>4. Number(h, "blank") = MAX_HEAP_OBJECTS - Number(h, "text")
  BY <1>1, <1>2, Complement DEF Number
<1> QED
  BY <1>3, <1>4

(* malloc takes a free object if there is one, and touches no other.       *)
LEMMA MallocTakes ==
  ASSUME NEW h \in Heaps, NEW use \in {"blank", "text"}, In(h, "free") # {}
  PROVE  \E s \in Slots : h[s] = "free" /\ malloc(h, use) = [h EXCEPT ![s] = use]
<1>1. In(h, "free") \in SUBSET Slots
  BY DEF In
<1>2. PICK s \in In(h, "free") : s = Lowest(In(h, "free"))
  BY <1>1, First DEF Lowest
<1>3. malloc(h, use) = [h EXCEPT ![s] = use]
  BY <1>2 DEF malloc
<1> QED
  BY <1>2, <1>3 DEF In

LEMMA MallocCounts ==
  ASSUME NEW h \in Heaps, NEW use \in {"blank", "text"}, NEW g, g = malloc(h, use)
  PROVE  /\ g \in Heaps
         /\ Number(g, use) = IF In(h, "free") = {} THEN Number(h, use) ELSE Number(h, use) + 1
         /\ \A u \in {"blank", "text"} \ {use} : In(g, u) = In(h, u)
<1>1. CASE In(h, "free") = {}
  BY <1>1 DEF malloc
<1>2. CASE In(h, "free") # {}
  <2>1. PICK s \in Slots : h[s] = "free" /\ g = [h EXCEPT ![s] = use]
    BY <1>2, MallocTakes
  <2>2. g \in Heaps
    BY <2>1 DEF Heaps, Uses
  <2>3. In(g, use) = In(h, use) \union {s} /\ s \notin In(h, use)
    BY <2>1 DEF Heaps, In
  <2>4. \A u \in {"blank", "text"} \ {use} : In(g, u) = In(h, u)
    BY <2>1 DEF Heaps, In
  <2>5. Number(g, use) = Number(h, use) + 1
    BY <2>3, Numbers, FS_AddElement DEF Number
  <2> QED
    BY <1>2, <2>2, <2>4, <2>5
<1> QED
  BY <1>1, <1>2

(* main() never has more than its own two blank objects when it starts     *)
(* from a heap without any; text is left alone.                            *)
LEMMA MainHeapCounts ==
  ASSUME NEW h \in Heaps, In(h, "blank") = {}, NEW g, g = MainHeap(h)
  PROVE  g \in Heaps /\ Number(g, "blank") <= 2 /\ In(g, "text") = In(h, "text")
<1>1. PICK f : f = malloc(h, "blank")
  OBVIOUS
<1>2. /\ f \in Heaps /\ In(f, "text") = In(h, "text")
      /\ Number(f, "blank") \in {Number(h, "blank"), Number(h, "blank") + 1}
  BY <1>1, MallocCounts
<1>3. g = malloc(f, "blank")
  BY <1>1 DEF MainHeap
<1>4. /\ g \in Heaps /\ In(g, "text") = In(f, "text")
      /\ Number(g, "blank") \in {Number(f, "blank"), Number(f, "blank") + 1}
  BY <1>2, <1>3, MallocCounts
<1>5. Number(h, "blank") = 0
  BY FS_EmptySet DEF Number
<1> QED
  BY <1>2, <1>4, <1>5

LEMMA FreeAllKeepsText ==
  ASSUME NEW h \in Heaps, NEW g, g = freeAll(h)
  PROVE  g \in Heaps /\ In(g, "blank") = {} /\ In(g, "text") = In(h, "text")
BY DEF freeAll, Heaps, Uses, In

-----------------------------------------------------------------------------
(* The heap of the shell.  Text is never freed, so leaks counts the        *)
(* objects with text; the two of main() come and go.                       *)
HeapInv ==
  /\ heap \in Heaps /\ mains \in 1 .. MaxMains /\ status \in Statuses
  /\ leaks = Number(heap, "text")
  /\ status = "running" => Number(heap, "blank") <= 2
  /\ status = "null" => leaks >= MAX_HEAP_OBJECTS - 3

LEMMA HeapInit == Init => HeapInv
<1> SUFFICES ASSUME Init PROVE HeapInv
  OBVIOUS
<1>1. PICK h : h = [s \in Slots |-> "free"]
  OBVIOUS
<1>2. h \in Heaps /\ In(h, "blank") = {} /\ In(h, "text") = {}
  BY <1>1 DEF Heaps, Uses, In
<1>3. heap \in Heaps /\ Number(heap, "blank") <= 2 /\ In(heap, "text") = {}
  BY <1>1, <1>2, MainHeapCounts DEF Init
<1>4. Number(heap, "text") = 0
  BY <1>3, FS_EmptySet DEF Number
<1>5. 1 \in 1 .. MaxMains
  BY ShellAssumption
<1> QED
  BY <1>3, <1>4, <1>5 DEF Init, HeapInv, Statuses

(* main() is called again with the heap h, in which n objects have text.   *)
LEMMA MainAgainHeap ==
  ASSUME mains \in 1 .. MaxMains, status = "running", NEW h \in Heaps, MainAgain(h),
         leaks' = Number(h, "text")
  PROVE  HeapInv'
<1>1. PICK f : f = freeAll(h)
  OBVIOUS
<1>2. f \in Heaps /\ In(f, "blank") = {} /\ In(f, "text") = In(h, "text")
  BY <1>1, FreeAllKeepsText
<1>3. CASE mains = MaxMains
  <2>1. heap' = f /\ status' = "overflow" /\ mains' = mains
    BY <1>1, <1>3 DEF MainAgain
  <2> QED
    BY <1>2, <2>1 DEF HeapInv, Statuses, Number
<1>4. CASE mains # MaxMains
  <2>1. heap' = MainHeap(f) /\ mains' = mains + 1 /\ status' = "running"
    BY <1>1, <1>4 DEF MainAgain
  <2>2. heap' \in Heaps /\ Number(heap', "blank") <= 2 /\ In(heap', "text") = In(f, "text")
    BY <1>2, <2>1, MainHeapCounts
  <2>3. mains' \in 1 .. MaxMains
    BY <1>4, <2>1, ShellAssumption
  <2> QED
    BY <1>2, <2>1, <2>2, <2>3 DEF HeapInv, Statuses, Number
<1> QED
  BY <1>3, <1>4

LEMMA HeapStep == HeapInv /\ [Next]_vars => HeapInv'
<1> SUFFICES ASSUME HeapInv, [Next]_vars PROVE HeapInv'
  OBVIOUS
<1>0. /\ heap \in Heaps /\ mains \in 1 .. MaxMains /\ status \in Statuses
      /\ leaks = Number(heap, "text") /\ MAX_HEAP_OBJECTS \in Nat
      /\ status = "running" => Number(heap, "blank") <= 2
  BY ShellAssumption DEF HeapInv
<1>00. \A h, use : Number(h, use) \in 0 .. MAX_HEAP_OBJECTS
  BY Numbers
<1>1. CASE UNCHANGED svars
  BY <1>1 DEF svars, HeapInv, Number, In
<1>2. CASE CommandKeepsHeap \/ OtherProcess \/ Stopped \/ UNCHANGED vars
  BY <1>1, <1>2 DEF CommandKeepsHeap, OtherProcess, Stopped, vars, svars
<1>3. CASE PromptWritesNull
  <2>1. /\ status = "running" /\ status' = "null" /\ In(heap, "free") = {}
        /\ heap' = heap /\ mains' = mains /\ leaks' = leaks
    BY <1>3 DEF PromptWritesNull
  <2>2. leaks >= MAX_HEAP_OBJECTS - 3
    BY <1>0, <1>00, <2>1, FullHeap
  <2> QED
    BY <1>0, <2>1, <2>2 DEF HeapInv, Statuses
<1>4. CASE SwitchToSelf
  <2>1. /\ status = "running" /\ In(heap, "free") # {} /\ heap' = malloc(heap, "text")
        /\ leaks' = leaks + 1 /\ mains' = mains /\ status' = status
    BY <1>4 DEF SwitchToSelf, AtPrompt
  <2>2. /\ heap' \in Heaps /\ Number(heap', "text") = Number(heap, "text") + 1
        /\ In(heap', "blank") = In(heap, "blank")
    BY <1>0, <2>1, MallocCounts
  <2> QED
    BY <1>0, <2>1, <2>2 DEF HeapInv, Number
<1>5. CASE CommandRestarts
  <2>1. status = "running" /\ leaks' = leaks
    BY <1>5 DEF CommandRestarts, AtPrompt
  <2>2. MainAgain(heap) \/ UNCHANGED svars
    BY <1>5 DEF CommandRestarts, svars
  <2> QED
    BY <1>0, <1>1, <2>1, <2>2, MainAgainHeap
<1>6. ASSUME NEW name \in {"blank", "text"}, RemoveFile(name)
      PROVE  HeapInv'
  <2>1. PICK named : named = malloc(heap, name)
    OBVIOUS
  <2>2. /\ status = "running" /\ In(heap, "free") # {}
        /\ leaks' = IF name = "text" THEN leaks + 1 ELSE leaks
        /\ \/ In(named, "free") = {} /\ status' = "null" /\ heap' = named /\ mains' = mains
           \/ MainAgain(named)
    BY <1>6, <2>1 DEF RemoveFile, AtPrompt
  <2>3. /\ named \in Heaps
        /\ Number(named, name) = Number(heap, name) + 1
        /\ \A u \in {"blank", "text"} \ {name} : Number(named, u) = Number(heap, u)
    BY <1>0, <2>1, <2>2, MallocCounts DEF Number
  <2>4. leaks' = Number(named, "text") /\ Number(named, "blank") <= 3
        /\ (name = "text" => Number(named, "blank") <= 2)
    BY <1>0, <1>00, <2>2, <2>3
  <2>5. CASE In(named, "free") = {} /\ status' = "null" /\ heap' = named /\ mains' = mains
    <3>1. leaks' >= MAX_HEAP_OBJECTS - 3
      BY <1>0, <1>00, <2>3, <2>4, <2>5, FullHeap
    <3> QED
      BY <1>0, <2>3, <2>4, <2>5, <3>1 DEF HeapInv, Statuses
  <2>6. CASE MainAgain(named)
    BY <1>0, <2>2, <2>3, <2>4, <2>6, MainAgainHeap
  <2> QED
    BY <2>2, <2>5, <2>6
<1>7. CASE Exit
  BY <1>0, <1>7 DEF Exit, AtPrompt, HeapInv, Statuses, Number, In
<1> QED
  BY <1>2, <1>3, <1>4, <1>5, <1>6, <1>7 DEF Next

LEMMA HeapInvariant == Spec => []HeapInv
BY HeapInit, HeapStep, PTL DEF Spec

(* However deep main() calls itself, no more than its last two objects are *)
(* blank when the prompt comes back.                                       *)
THEOREM OnlyTwoBlankObjects == Spec => []TwoBlankObjects
<1>1. HeapInv => TwoBlankObjects
  BY DEF HeapInv, TwoBlankObjects, Number
<1> QED
  BY <1>1, HeapInvariant, PTL

(* malloc returns null only after as many commands that leak an object as  *)
(* there are objects, less three.                                          *)
THEOREM ShellHeapLasts == Spec => []HeapLasts
<1>1. HeapInv => HeapLasts
  BY DEF HeapInv, HeapLasts
<1> QED
  BY <1>1, HeapInvariant, PTL

-----------------------------------------------------------------------------
(* The heap of the kernel.                                                 *)

LEMMA SameCardinality == \A S : K!Cardinality(S) = Cardinality(S)
BY Zenon DEF K!Cardinality, Cardinality

KHeaps == [Slots -> {"free", "name"}]
Taken(h) == Slots \ K!FreeObjects(h)

LEMMA KernelSlots ==
  ASSUME NEW h
  PROVE  /\ K!Slots = Slots
         /\ K!FreeObjects(h) \in SUBSET Slots
         /\ IsFiniteSet(Taken(h)) /\ Cardinality(Taken(h)) \in 0 .. MAX_HEAP_OBJECTS
         /\ Cardinality(Taken(h)) = MAX_HEAP_OBJECTS - Cardinality(K!FreeObjects(h))
         /\ Cardinality(K!FreeObjects(h)) \in 0 .. MAX_HEAP_OBJECTS
<1>1. K!Slots = Slots
  BY DEF K!Slots, Slots
<1>2. K!FreeObjects(h) \in SUBSET Slots
  BY <1>1 DEF K!FreeObjects
<1>3. Taken(h) \in SUBSET Slots
  BY DEF Taken
<1>4. Cardinality(Taken(h)) = MAX_HEAP_OBJECTS - Cardinality(K!FreeObjects(h))
  BY <1>2, Complement DEF Taken
<1> QED
  BY <1>1, <1>2, <1>3, <1>4, SlotSets

(* kMalloc returns one object, the first free one.                         *)
LEMMA OneObject ==
  ASSUME NEW h, K!FreeObjects(h) # {}
  PROVE  \E s \in K!FreeObjects(h) : K!kMalloc(h, 1) = {s}
<1> DEFINE free == K!FreeObjects(h)
<1> DEFINE below(t) == {u \in free : u < t}
<1>1. K!kMalloc(h, 1) = {t \in free : K!Cardinality(below(t)) < 1}
  BY Zenon DEF K!kMalloc
<1>2. free \in SUBSET Slots /\ free # {}
  BY KernelSlots
<1> HIDE DEF free
<1>3. PICK s \in free : \A t \in free : s <= t
  BY <1>2, First
<1>4. \A t \in free : t \in Nat
  BY <1>2 DEF Slots
<1>5. ASSUME NEW t \in free
      PROVE  K!Cardinality(below(t)) < 1 <=> t = s
  <2>1. IsFiniteSet(below(t))
    <3>1. below(t) \in SUBSET Slots
      BY <1>2
    <3> QED
      BY <3>1, SlotSets
  <2>2. below(t) = {} <=> t = s
    BY <1>3, <1>4
  <2> HIDE DEF below
  <2>3. Cardinality(below(t)) \in Nat /\ (Cardinality(below(t)) = 0 <=> below(t) = {})
    BY <2>1, FS_CardinalityType, FS_EmptySet
  <2>4. K!Cardinality(below(t)) = Cardinality(below(t))
    BY SameCardinality
  <2> QED
    BY <2>2, <2>3, <2>4
<1> HIDE DEF below
<1>6. K!kMalloc(h, 1) = {s}
  BY <1>1, <1>3, <1>5
<1> QED
  BY <1>3, <1>6 DEF free

(* A listing leaves the heap as it found it.                               *)
LEMMA ListingFrees ==
  ASSUME kheap \in KHeaps, NEW inside \in 0 .. 5, K!Listing(inside)
  PROVE  /\ kheap' = kheap /\ names' = names /\ kstatus = "running"
         /\ \/ kstatus' = kstatus
            \/ kstatus' = "exhausted" /\ Cardinality(K!FreeObjects(kheap)) < 11
<1>1. PICK free, frame, open, line :
        /\ free = K!FreeObjects(kheap) /\ frame = K!kMalloc(kheap, K!Frame)
        /\ open = K!Hold(kheap, frame, "screen") /\ line = K!kMalloc(open, inside)
  OBVIOUS
<1>2. frame \subseteq free /\ \A s \in free : kheap[s] = "free"
  BY <1>1 DEF K!kMalloc, K!FreeObjects
<1>3. line \subseteq free
  <2>1. line \subseteq K!FreeObjects(open)
    BY <1>1 DEF K!kMalloc
  <2>2. K!FreeObjects(open) \subseteq free
    BY <1>1 DEF K!FreeObjects, K!Hold
  <2> QED
    BY <2>1, <2>2
<1>4. CASE Cardinality(free) < K!Frame + inside
  <2>1. kstatus = "running" /\ kstatus' = "exhausted" /\ kheap' = kheap /\ names' = names
    <3>1. K!Cardinality(K!FreeObjects(kheap)) < K!Frame + inside
      BY <1>1, <1>4, SameCardinality
    <3> QED
      BY <3>1, Zenon DEF K!Listing, K!Exhausted
  <2>2. Cardinality(free) < 11
    BY <1>1, <1>4, KernelSlots DEF K!Frame
  <2> QED
    BY <1>1, <2>1, <2>2
<1>5. CASE ~(Cardinality(free) < K!Frame + inside)
  <2>1. /\ kstatus = "running" /\ kstatus' = kstatus /\ names' = names
        /\ kheap' = K!kFree(K!kFree(K!Hold(open, line, "screen"), line), frame)
    <3>1. ~(K!Cardinality(K!FreeObjects(kheap)) < K!Frame + inside)
      BY <1>1, <1>5, SameCardinality
    <3> QED
      BY <1>1, <3>1, Zenon DEF K!Listing
  <2>2. \A s \in Slots : K!Slots = Slots
    BY KernelSlots
  <2>3. kheap' = [s \in Slots |-> IF s \in frame \/ s \in line THEN "free" ELSE kheap[s]]
    BY <1>1, <2>1, KernelSlots DEF K!kFree, K!Hold
  <2> QED
    BY <1>2, <1>3, <2>1, <2>3 DEF KHeaps
<1> QED
  BY <1>4, <1>5

-----------------------------------------------------------------------------
(* What is in the kernel heap is names: those that others took, and at     *)
(* most one for each time that the shell went on to call main() again.     *)
KernelHeapInv ==
  /\ kheap \in KHeaps /\ kstatus \in K!KStatuses
  /\ names = Cardinality(Taken(kheap))
  /\ others \in 0 .. names
  /\ names - others <= IF status = "running" THEN mains - 1 ELSE mains
  /\ kstatus = "exhausted" => names >= MAX_HEAP_OBJECTS - 10

(* What a system call does to the kernel heap.                             *)
KernelHeapStep ==
  /\ kheap' \in KHeaps /\ kstatus' \in K!KStatuses /\ names' = Cardinality(Taken(kheap'))
  /\ kstatus' = "exhausted" => names' >= MAX_HEAP_OBJECTS - 10

LEMMA FewFree ==
  ASSUME names = Cardinality(Taken(kheap)), Cardinality(K!FreeObjects(kheap)) < 11
  PROVE  names >= MAX_HEAP_OBJECTS - 10
BY KernelSlots, ShellAssumption

LEMMA QuietCalls ==
  ASSUME KernelHeapInv, K!sysUptime \/ K!sysPs \/ K!sysDirectory \/ K!Halted
  PROVE  KernelHeapStep /\ names' = names
<1>0. /\ kheap \in KHeaps /\ kstatus \in K!KStatuses /\ names = Cardinality(Taken(kheap))
      /\ kstatus = "exhausted" => names >= MAX_HEAP_OBJECTS - 10
  BY DEF KernelHeapInv
<1>1. ASSUME kheap' = kheap, names' = names, kstatus' = kstatus
             \/ (kstatus' = "exhausted" /\ Cardinality(K!FreeObjects(kheap)) < 11)
      PROVE  KernelHeapStep /\ names' = names
  BY <1>0, <1>1, FewFree DEF KernelHeapStep, K!KStatuses
<1>2. CASE K!sysPs \/ K!sysDirectory
  BY <1>0, <1>1, <1>2, ListingFrees DEF K!sysPs, K!sysDirectory
<1>3. CASE K!sysUptime
  <2>1. Cardinality(K!FreeObjects(kheap)) < 2 => Cardinality(K!FreeObjects(kheap)) < 11
    BY KernelSlots
  <2>2. kheap' = kheap /\ names' = names
        /\ (kstatus' = kstatus
            \/ (kstatus' = "exhausted" /\ Cardinality(K!FreeObjects(kheap)) < 2))
    <3>1. K!Cardinality(K!FreeObjects(kheap)) = Cardinality(K!FreeObjects(kheap))
      BY SameCardinality
    <3> QED
      BY <1>3, <3>1 DEF K!sysUptime, K!Exhausted, K!kvars
  <2> QED
    BY <1>1, <2>1, <2>2
<1>4. CASE K!Halted
  BY <1>1, <1>4 DEF K!Halted, K!kvars
<1> QED
  BY <1>2, <1>3, <1>4

LEMMA NamingCalls ==
  ASSUME KernelHeapInv, K!TakeName
  PROVE  /\ KernelHeapStep /\ names' \in {names, names + 1}
         /\ names' # names => kstatus' = "running"
<1>0. /\ kheap \in KHeaps /\ names = Cardinality(Taken(kheap)) /\ kstatus = "running"
  BY DEF KernelHeapInv, K!TakeName
<1>1. CASE /\ K!FreeObjects(kheap) # {} /\ names' = names + 1 /\ kstatus' = kstatus
           /\ kheap' = K!Hold(kheap, K!kMalloc(kheap, 1), "name")
  <2>1. PICK s \in K!FreeObjects(kheap) : K!kMalloc(kheap, 1) = {s}
    BY <1>1, OneObject
  <2>2. s \in Slots /\ s \notin Taken(kheap)
    BY KernelSlots DEF Taken
  <2>3. kheap' = [t \in Slots |-> IF t = s THEN "name" ELSE kheap[t]]
    BY <1>1, <2>1, KernelSlots DEF K!Hold
  <2>4. kheap' \in KHeaps
    BY <1>0, <2>3 DEF KHeaps
  <2>5. Taken(kheap') = Taken(kheap) \union {s}
    BY <2>2, <2>3, KernelSlots DEF Taken, K!FreeObjects
  <2>6. Cardinality(Taken(kheap')) = names + 1
    BY <1>0, <2>2, <2>5, KernelSlots, FS_AddElement
  <2> QED
    BY <1>0, <1>1, <2>4, <2>6 DEF KernelHeapStep, K!KStatuses
<1>2. CASE K!FreeObjects(kheap) = {} /\ K!Exhausted
  <2>1. Cardinality(K!FreeObjects(kheap)) < 11
    BY <1>2, FS_EmptySet
  <2> QED
    BY <1>0, <1>2, <2>1, FewFree DEF K!Exhausted, KernelHeapStep, K!KStatuses
<1>3. CASE kstatus' = "name too long" /\ UNCHANGED <<kheap, names>>
  BY <1>0, <1>3 DEF KernelHeapStep, K!KStatuses
<1> QED
  BY <1>1, <1>2, <1>3 DEF K!TakeName

LEMMA OneLess ==
  ASSUME NEW d \in Int, NEW m \in Nat, NEW k \in Nat, d <= m - 1, m <= k
  PROVE  d <= k - 1
OBVIOUS

LEMMA KernelHeapInit == Init => KernelHeapInv
<1> SUFFICES ASSUME Init PROVE KernelHeapInv
  OBVIOUS
<1>1. kheap = [s \in Slots |-> "free"] /\ names = 0 /\ kstatus = "running" /\ others = 0
  BY KernelSlots DEF Init, K!Init
<1>2. Taken(kheap) = {}
  BY <1>1, KernelSlots DEF Taken, K!FreeObjects
<1>3. Cardinality(Taken(kheap)) = 0
  BY <1>2, FS_EmptySet
<1> QED
  BY <1>1, <1>3 DEF Init, KernelHeapInv, KHeaps, K!KStatuses

LEMMA KernelHeapNext == HeapInv /\ KernelHeapInv /\ [Next]_vars => KernelHeapInv'
<1> SUFFICES ASSUME HeapInv, KernelHeapInv, [Next]_vars PROVE KernelHeapInv'
  OBVIOUS
<1>0. /\ mains \in Nat /\ names \in Nat /\ others \in 0 .. names
      /\ names - others <= IF status = "running" THEN mains - 1 ELSE mains
  BY KernelSlots DEF HeapInv, KernelHeapInv
<1>1. ASSUME KernelHeapStep, names' \in Nat, others' \in 0 .. names',
             names' - others' <= IF status' = "running" THEN mains' - 1 ELSE mains'
      PROVE  KernelHeapInv'
  BY <1>1 DEF KernelHeapInv, KernelHeapStep
<1>2. ASSUME UNCHANGED kernelHeap, UNCHANGED others, mains' \in Nat, mains' >= mains,
             status' = "running" => status = "running"
      PROVE  KernelHeapInv'
  <2>1. KernelHeapStep
    BY <1>2 DEF KernelHeapInv, KernelHeapStep, kernelHeap
  <2>2. names' = names /\ others' = others
    BY <1>2 DEF kernelHeap
  <2>3. names - others <= IF status' = "running" THEN mains' - 1 ELSE mains'
    <3>1. PICK d \in Int : d = names - others
      BY <1>0
    <3>2. d <= mains /\ (status = "running" => d <= mains - 1)
      BY <1>0, <3>1
    <3>3. PICK m, k \in Nat : m = mains /\ k = mains' /\ m <= k
      BY <1>0, <1>2
    <3>4. d <= k
      BY <3>2, <3>3
    <3>5. ASSUME status' = "running" PROVE d <= k - 1
      <4>1. status = "running"
        BY <1>2, <3>5
      <4>2. d <= m - 1
        BY <3>2, <3>3, <4>1
      <4> QED
        BY <3>3, <4>2, OneLess
    <3> QED
      BY <3>1, <3>3, <3>4, <3>5
  <2> QED
    BY <1>0, <1>1, <2>1, <2>2, <2>3
<1>3. ASSUME NEW h, MainAgain(h)
      PROVE  mains' \in {mains, mains + 1} /\ (status' = "running" => mains' = mains + 1 \/ status' = status)
  BY <1>3 DEF MainAgain
<1>4. CASE PromptWritesNull \/ SwitchToSelf \/ Exit
  BY <1>0, <1>2, <1>4 DEF PromptWritesNull, SwitchToSelf, Exit, AtPrompt, KernelHeapKept
<1>5. CASE CommandKeepsHeap
  <2>1. UNCHANGED kernelHeap \/ K!sysUptime \/ K!sysPs \/ K!sysDirectory
    BY <1>5 DEF CommandKeepsHeap
  <2>2. others' = others /\ mains' = mains /\ status' = status
    BY <1>5 DEF CommandKeepsHeap, svars
  <2>3. CASE UNCHANGED kernelHeap
    BY <1>0, <1>2, <2>2, <2>3
  <2>4. CASE K!sysUptime \/ K!sysPs \/ K!sysDirectory
    BY <1>0, <1>1, <2>2, <2>4, QuietCalls
  <2> QED
    BY <2>1, <2>3, <2>4
<1>6. CASE CommandRestarts
  <2>1. /\ status = "running" /\ kstatus = "running" /\ others' = others
        /\ UNCHANGED kernelHeap \/ K!TakeName
        /\ IF kstatus' = "running" THEN MainAgain(heap) ELSE UNCHANGED <<heap, mains, status>>
    BY <1>6 DEF CommandRestarts, AtPrompt, K!sysForkExec, K!sysOpenEmpty
  <2>2. CASE UNCHANGED kernelHeap
    <3>1. MainAgain(heap)
      BY <2>1, <2>2 DEF kernelHeap
    <3> QED
      BY <1>0, <1>2, <2>1, <2>2, <3>1 DEF MainAgain
  <2>3. CASE K!TakeName
    <3>1. KernelHeapStep /\ names' \in {names, names + 1}
          /\ (names' # names => kstatus' = "running")
      BY <2>3, NamingCalls
    <3>2. CASE kstatus' = "running"
      <4>1. \/ status' = "overflow" /\ mains' = mains
            \/ status' = "running" /\ mains' = mains + 1
        BY <2>1, <3>2 DEF MainAgain
      <4> QED
        BY <1>0, <1>1, <2>1, <3>1, <4>1
    <3>3. CASE kstatus' # "running"
      <4>1. mains' = mains /\ status' = status /\ names' = names
        BY <2>1, <3>1, <3>3
      <4> QED
        BY <1>0, <1>1, <2>1, <3>1, <4>1
    <3> QED
      BY <3>2, <3>3
  <2> QED
    BY <2>1, <2>2, <2>3
<1>7. CASE \E name \in {"blank", "text"} : RemoveFile(name)
  <2>1. UNCHANGED kernelHeap /\ UNCHANGED others /\ status = "running"
        /\ (mains' = mains \/ \E h : MainAgain(h))
    BY <1>7 DEF RemoveFile, AtPrompt, KernelHeapKept
  <2>2. mains' \in {mains, mains + 1}
    BY <1>3, <2>1
  <2> QED
    BY <1>0, <1>2, <2>1, <2>2
<1>8. CASE OtherProcess
  <2>1. K!Next /\ others' = others + (names' - names) /\ mains' = mains /\ status' = status
    BY <1>8 DEF OtherProcess, svars
  <2>2. KernelHeapStep /\ names' \in {names, names + 1}
    BY <2>1, QuietCalls, NamingCalls DEF K!Next, K!sysOpen, K!sysOpenEmpty, K!sysForkExec
  <2>3. names' \in Nat /\ others' \in 0 .. names' /\ names' - others' = names - others
    <3>1. CASE names' = names
      BY <1>0, <2>1, <3>1
    <3>2. CASE names' = names + 1
      <4>1. others' = others + 1
        BY <1>0, <2>1, <3>2
      <4> QED
        BY <1>0, <3>2, <4>1
    <3> QED
      BY <2>2, <3>1, <3>2
  <2> QED
    BY <1>0, <1>1, <2>1, <2>2, <2>3
<1>9. CASE Stopped \/ UNCHANGED vars
  BY <1>0, <1>2, <1>9 DEF Stopped, vars, svars
<1> QED
  BY <1>4, <1>5, <1>6, <1>7, <1>8, <1>9 DEF Next

LEMMA KernelHeapInvariant == Spec => []KernelHeapInv
BY HeapInit, HeapStep, KernelHeapInit, KernelHeapNext, PTL DEF Spec

(* Between two system calls the objects in use in the kernel heap are the  *)
(* names, one for each call that took one.                                 *)
THEOREM OnlyNamesInKernelHeap == Spec => []NamesOnly
<1>1. ASSUME KernelHeapInv PROVE NamesOnly
  <2>1. K!Slots = Slots
    BY KernelSlots
  <2>2. K!Slots \ K!FreeObjects(kheap) = Taken(kheap)
    BY <2>1 DEF Taken
  <2>3. \A s \in Slots : kheap[s] # "screen"
    BY <1>1 DEF KernelHeapInv, KHeaps
  <2> QED
    BY <1>1, <2>1, <2>2, <2>3, SameCardinality DEF KernelHeapInv, NamesOnly, K!NamesOnly
<1> QED
  BY <1>1, KernelHeapInvariant, PTL

(* The shell cannot exhaust the kernel heap by itself before its stack: it *)
(* takes at most as many names as it has activations of main().            *)
THEOREM KernelHeapOutlasts == Spec => []KernelHeapLasts
<1>1. HeapInv /\ KernelHeapInv => KernelHeapLasts
  BY KernelSlots, ShellAssumption DEF HeapInv, KernelHeapInv, KernelHeapLasts
<1> QED
  BY <1>1, HeapInvariant, KernelHeapInvariant, PTL

(* The heaps, their counts and the stack keep their bounds.                *)
THEOREM TypeCorrect == Spec => []TypeOK
<1>1. ASSUME HeapInv, KernelHeapInv PROVE TypeOK
  <2>1. leaks \in 0 .. MAX_HEAP_OBJECTS
    BY <1>1, Numbers DEF HeapInv
  <2>2. K!TypeOK
    BY <1>1, KernelSlots DEF KernelHeapInv, KHeaps, K!TypeOK, K!KUses
  <2> QED
    BY <1>1, <2>1, <2>2 DEF HeapInv, KernelHeapInv, Heaps, TypeOK
<1> QED
  BY <1>1, HeapInvariant, KernelHeapInvariant, PTL
=============================================================================
