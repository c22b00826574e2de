--------------------------- MODULE FileTable_proofs ---------------------------
(***************************************************************************)
(* Proofs about OpenFiles and FileTable.  First the calls in one step each *)
(* (OpenFiles): their types, the exclusion of two writers, and that the    *)
(* marks in the table implement FileLock, for every size of the tables and *)
(* whether or not sysClose is written.  Then the same calls semaphore by   *)
(* semaphore and entry by entry (FileTable): their types, the exclusion in *)
(* every state in between, and that they implement the calls of OpenFiles. *)
(***************************************************************************)
EXTENDS FileTable, TLAPS

(* A mark lies on an entry that a process has open on a file, never on a   *)
(* free or a standard entry, so no mark is taken over with a free entry.   *)
MarksOwned ==
  \A e \in Entries :
    oft[e].lockedForWriting => oft[e].openedByPid \in Pids /\ oft[e].inode \in Inodes

IInv == TypeOK /\ MarksOwned /\ LockExclusive

LEMMA Numbers ==
  /\ 0 \notin Pids /\ KERNEL_OWNED \notin Pids /\ 0 \notin Inodes /\ EMPTY_FILE \notin Inodes
  /\ Fds \subseteq Nat /\ Entries \subseteq Nat /\ 0 \notin Entries
  /\ \A n \in 0 .. MAX_FILE_DESCRIPTORS :
       n >= STD /\ ~(n >= MAX_FILE_DESCRIPTORS) => n \in Fds /\ n + 1 \in 0 .. MAX_FILE_DESCRIPTORS
  /\ STD \in 0 .. MAX_FILE_DESCRIPTORS /\ 0 \in 0 .. MAX_FILE_DESCRIPTORS
<1>1. 0 \notin Pids /\ KERNEL_OWNED \notin Pids
  BY ConstantsAssumption, SMT DEF Pids, KERNEL_OWNED
<1>2. 0 \notin Inodes /\ EMPTY_FILE \notin Inodes
  <2>1. \A i \in Inodes : i \in Int /\ 1 <= i /\ i <= EMPTY_FILE - 1
    BY InodesAssumption, SMT
  <2>2. \A i \in Int : 1 <= i /\ i <= EMPTY_FILE - 1 => i # 0 /\ i # EMPTY_FILE
    BY SMT DEF EMPTY_FILE
  <2> QED
    BY <2>1, <2>2
<1>3. Fds \subseteq Nat /\ Entries \subseteq Nat /\ 0 \notin Entries
  BY ConstantsAssumption, SMT DEF Fds, Entries, STD
<1>4. ASSUME NEW n \in 0 .. MAX_FILE_DESCRIPTORS, n >= STD, ~(n >= MAX_FILE_DESCRIPTORS)
      PROVE  n \in Fds /\ n + 1 \in 0 .. MAX_FILE_DESCRIPTORS
  BY <1>4, ConstantsAssumption, SMT DEF Fds, STD
<1>5. STD \in 0 .. MAX_FILE_DESCRIPTORS /\ 0 \in 0 .. MAX_FILE_DESCRIPTORS
  BY ConstantsAssumption, SMT DEF STD
<1> QED
  BY <1>1, <1>2, <1>3, <1>4, <1>5

USE Numbers

LEMMA EntryFields ==
  /\ NoEntry \in Entry /\ ~NoEntry.lockedForWriting /\ NoEntry.openedByPid = 0
  /\ \A p \in Pids, i \in Inodes \union {EMPTY_FILE} :
       /\ Opened(p, i) \in Entry
       /\ ~Opened(p, i).lockedForWriting
       /\ Opened(p, i).openedByPid = p /\ Opened(p, i).inode = i
  /\ \A r \in Entry : [r EXCEPT !.lockedForWriting = TRUE] \in Entry
<1>1. NoEntry \in Entry /\ ~NoEntry.lockedForWriting /\ NoEntry.openedByPid = 0
  BY DEF Entry, NoEntry, Opened
<1>2. ASSUME NEW p \in Pids, NEW i \in Inodes \union {EMPTY_FILE}
      PROVE  /\ Opened(p, i) \in Entry
             /\ ~Opened(p, i).lockedForWriting
             /\ Opened(p, i).openedByPid = p /\ Opened(p, i).inode = i
  BY DEF Entry, Opened
<1>3. ASSUME NEW r \in Entry
      PROVE  [r EXCEPT !.lockedForWriting = TRUE] \in Entry
  BY DEF Entry
<1> QED
  BY <1>1, <1>2, <1>3

LEMMA InitIInv == Init => IInv
<1> SUFFICES ASSUME Init PROVE IInv
  OBVIOUS
<1>1. oft \in [Entries -> Entry] /\ \A e \in Entries : ~oft[e].lockedForWriting
  <2>1. \A e \in Entries : oft[e] = Opened(KERNEL_OWNED, 0) \/ oft[e] = NoEntry
    BY DEF Init, createOpenFileTable
  <2>2. Opened(KERNEL_OWNED, 0) \in Entry /\ ~Opened(KERNEL_OWNED, 0).lockedForWriting
    BY DEF Opened, Entry
  <2>3. oft = [e \in Entries |-> oft[e]]
    BY DEF Init, createOpenFileTable
  <2> QED
    BY <2>1, <2>2, <2>3, EntryFields
<1>2. fd \in [Pids -> [Fds -> Entries \union {0}]]
  BY DEF Init, NoFds
<1>3. nextFd \in [Pids -> 0 .. MAX_FILE_DESCRIPTORS]
  BY DEF Init
<1> QED
  BY <1>1, <1>2, <1>3 DEF IInv, TypeOK, MarksOwned, LockExclusive

-----------------------------------------------------------------------------
(* What the routines of file.cpp do to a table.                            *)
Marked(o, e) == o[e].lockedForWriting
GoodTable(o) ==
  /\ o \in [Entries -> Entry]
  /\ \A e \in Entries : Marked(o, e) => o[e].openedByPid \in Pids /\ o[e].inode \in Inodes
  /\ \A e1, e2 \in Entries : Marked(o, e1) /\ Marked(o, e2) /\ o[e1].inode = o[e2].inode => e1 = e2

LEMMA GoodTableIInv ==
  GoodTable(oft) <=> oft \in [Entries -> Entry] /\ MarksOwned /\ LockExclusive
BY Zenon DEF GoodTable, Marked, MarksOwned, LockExclusive

LEMMA GoodTablePrimed == IInv' => GoodTable(oft')
BY Zenon DEF GoodTable, Marked, IInv, TypeOK, MarksOwned, LockExclusive

LEMMA InsertGood ==
  ASSUME GoodTable(oft), NEW e \in Entries, NEW p \in Pids, NEW i \in Inodes \union {EMPTY_FILE}
  PROVE  GoodTable(insertOpenFileTableEntry(e, p, i))
<1>1. PICK t : t = insertOpenFileTableEntry(e, p, i)
  OBVIOUS
<1>2. /\ t \in [Entries -> Entry] /\ t[e] = Opened(p, i)
      /\ \A f \in Entries \ {e} : t[f] = oft[f]
  BY <1>1, EntryFields DEF insertOpenFileTableEntry, GoodTable
<1>3. ~Marked(t, e) /\ \A f \in Entries : Marked(t, f) => t[f] = oft[f] /\ Marked(oft, f)
  BY <1>2, EntryFields DEF Marked
<1>4. GoodTable(t)
  BY <1>2, <1>3 DEF GoodTable
<1> QED
  BY <1>1, <1>4

(* lockFile marks one entry of the caller, when no entry of the file is    *)
(* marked, and changes nothing else.                                       *)
LEMMA LockFileEffect ==
  ASSUME NEW o \in [Entries -> Entry], NEW p \in Pids, NEW i \in Inodes
  PROVE  \/ lockFile(o, p, i) = o
         \/ /\ fileAvailableToBeLocked(o, i)
            /\ \E e \in Entries :
                 /\ o[e].inode = i /\ o[e].openedByPid = p
                 /\ lockFile(o, p, i) = [o EXCEPT ![e].lockedForWriting = TRUE]
<1>1. CASE fileAvailableToBeLocked(o, i) /\ \E e \in Entries : IsFirst(e, OwnEntries(o, p, i))
  <2>1. PICK e \in Entries : IsFirst(e, OwnEntries(o, p, i))
    BY <1>1
  <2>2. \A f \in Entries : IsFirst(f, OwnEntries(o, p, i)) <=> f = e
    BY <2>1, SMT DEF IsFirst, OwnEntries, Entries
  <2>3. lockFile(o, p, i) = [o EXCEPT ![e].lockedForWriting = TRUE]
    <3>1. \A f \in Entries :
            lockFile(o, p, i)[f] = IF f = e THEN [o[f] EXCEPT !.lockedForWriting = TRUE] ELSE o[f]
      BY <1>1, <2>2 DEF lockFile
    <3>2. lockFile(o, p, i) = [f \in Entries |-> lockFile(o, p, i)[f]]
      BY DEF lockFile
    <3>3. [o EXCEPT ![e].lockedForWriting = TRUE]
            = [f \in Entries |-> IF f = e THEN [o[f] EXCEPT !.lockedForWriting = TRUE] ELSE o[f]]
      OBVIOUS
    <3> QED
      BY <3>1, <3>2, <3>3
  <2> QED
    BY <1>1, <2>1, <2>3 DEF IsFirst, OwnEntries
<1>2. CASE ~ (fileAvailableToBeLocked(o, i) /\ \E e \in Entries : IsFirst(e, OwnEntries(o, p, i)))
  <2>1. lockFile(o, p, i) = [e \in Entries |-> o[e]]
    BY <1>2 DEF lockFile
  <2> QED
    BY <2>1
<1> QED
  BY <1>1, <1>2

LEMMA LockGood ==
  ASSUME NEW o, GoodTable(o), NEW p \in Pids, NEW i \in Inodes
  PROVE  GoodTable(lockFile(o, p, i))
<1>1. CASE lockFile(o, p, i) = o
  BY <1>1
<1>2. CASE lockFile(o, p, i) # o
  <2>1. PICK e \in Entries :
          /\ fileAvailableToBeLocked(o, i) /\ o[e].inode = i /\ o[e].openedByPid = p
          /\ lockFile(o, p, i) = [o EXCEPT ![e].lockedForWriting = TRUE]
    <3>1. o \in [Entries -> Entry]
      BY DEF GoodTable
    <3>2. \/ lockFile(o, p, i) = o
          \/ /\ fileAvailableToBeLocked(o, i)
             /\ \E e \in Entries :
                  /\ o[e].inode = i /\ o[e].openedByPid = p
                  /\ lockFile(o, p, i) = [o EXCEPT ![e].lockedForWriting = TRUE]
      BY <3>1, LockFileEffect
    <3> QED
      BY <1>2, <3>2
  <2>2. PICK t : t = [o EXCEPT ![e].lockedForWriting = TRUE]
    OBVIOUS
  <2>3. /\ t \in [Entries -> Entry]
        /\ t[e].openedByPid = p /\ t[e].inode = i
        /\ \A f \in Entries \ {e} : t[f] = o[f]
    <3>1. o[e] \in Entry /\ o \in [Entries -> Entry]
      BY Zenon DEF GoodTable
    <3>2. t[e] = [o[e] EXCEPT !.lockedForWriting = TRUE] /\ \A f \in Entries \ {e} : t[f] = o[f]
      BY <2>2, <3>1
    <3>3. [o[e] EXCEPT !.lockedForWriting = TRUE] \in Entry
      BY <3>1, EntryFields
    <3>4. t \in [Entries -> Entry]
      BY <2>2, <3>1, <3>3
    <3>5. t[e].openedByPid = o[e].openedByPid /\ t[e].inode = o[e].inode
      BY <3>1, <3>2 DEF Entry
    <3> QED
      BY <2>1, <3>2, <3>4, <3>5
  <2>4. \A f \in Entries : Marked(o, f) => o[f].inode # i
    BY <2>1 DEF fileAvailableToBeLocked, Marked
  <2>5. GoodTable(t)
    BY <2>3, <2>4 DEF GoodTable, Marked
  <2> QED
    BY <2>1, <2>2, <2>5
<1> QED
  BY <1>1, <1>2

(* Clearing entries.                                                       *)
LEMMA ClearGood ==
  ASSUME NEW o, GoodTable(o), NEW t \in [Entries -> Entry],
         \A e \in Entries : t[e] = o[e] \/ t[e] = NoEntry
  PROVE  GoodTable(t)
<1>1. \A e \in Entries : Marked(t, e) => t[e] = o[e] /\ Marked(o, e)
  BY EntryFields DEF Marked
<1> QED
  BY <1>1 DEF GoodTable

LEMMA CloseEffect ==
  ASSUME NEW o \in [Entries -> Entry], NEW p \in Pids, NEW d,
         NEW fds \in [Pids -> [Fds -> Entries \union {0}]]
  PROVE  /\ CloseEntry(o, d, p, fds) \in [Entries -> Entry]
         /\ CloseFd(d, p, fds) \in [Pids -> [Fds -> Entries \union {0}]]
         /\ \/ CloseEntry(o, d, p, fds) = o
            \/ \E e \in Entries : CloseEntry(o, d, p, fds) = [o EXCEPT ![e] = NoEntry]
<1>1. CASE Closable(d, p, fds)
  <2>1. d \in Fds /\ fds[p][d] \in Entries
    BY <1>1 DEF Closable
  <2>2. CloseEntry(o, d, p, fds) = [o EXCEPT ![fds[p][d]] = NoEntry]
    BY <1>1 DEF CloseEntry
  <2>3. CloseFd(d, p, fds) = [fds EXCEPT ![p] = [@ EXCEPT ![d] = 0]]
    BY <1>1 DEF CloseFd
  <2>4. [fds[p] EXCEPT ![d] = 0] \in [Fds -> Entries \union {0}]
    BY <2>1
  <2>5. CloseFd(d, p, fds) \in [Pids -> [Fds -> Entries \union {0}]]
    BY <2>3, <2>4
  <2>6. CloseEntry(o, d, p, fds) \in [Entries -> Entry]
    BY <2>1, <2>2, EntryFields
  <2> QED
    BY <2>1, <2>2, <2>5, <2>6
<1>2. CASE ~Closable(d, p, fds)
  BY <1>2 DEF CloseEntry, CloseFd
<1> QED
  BY <1>1, <1>2

-----------------------------------------------------------------------------
(* One lemma for each kind of step: the types, and the table.              *)
LEMMA OpenIInv ==
  ASSUME IInv, NEW p \in Callers, NEW e \in Entries, NEW i \in Inodes, NEW mode \in Modes,
         sysOpen(p, i, mode, e)
  PROVE  IInv'
<1>1. p \in Pids /\ nextFd[p] \in Fds /\ nextFd[p] + 1 \in 0 .. MAX_FILE_DESCRIPTORS
  BY SMT DEF Callers, sysOpen, AtFdLimit, IInv, TypeOK
<1>2. GoodTable(oft')
  <2>1. GoodTable(insertOpenFileTableEntry(e, p, i))
    BY <1>1, GoodTableIInv, InsertGood DEF IInv, TypeOK
  <2>2. GoodTable(lockFile(insertOpenFileTableEntry(e, p, i), p, i))
    BY <1>1, <2>1, LockGood
  <2> QED
    BY <2>1, <2>2 DEF sysOpen
<1>3. fd' \in [Pids -> [Fds -> Entries \union {0}]]
  <2>1. [fd[p] EXCEPT ![nextFd[p]] = e] \in [Fds -> Entries \union {0}]
    BY <1>1 DEF IInv, TypeOK
  <2>2. fd' = [fd EXCEPT ![p] = [fd[p] EXCEPT ![nextFd[p]] = e]]
    BY DEF sysOpen
  <2> QED
    BY <1>1, <2>1, <2>2 DEF IInv, TypeOK
<1>4. nextFd' \in [Pids -> 0 .. MAX_FILE_DESCRIPTORS]
  BY <1>1 DEF sysOpen, IInv, TypeOK
<1> QED
  BY <1>2, <1>3, <1>4, Zenon DEF GoodTable, Marked, IInv, TypeOK, MarksOwned, LockExclusive

LEMMA OpenEmptyIInv ==
  ASSUME IInv, NEW p \in Callers, NEW e \in Entries, sysOpenEmpty(p, e)
  PROVE  IInv'
<1>1. p \in Pids /\ nextFd[p] \in Fds
  BY SMT DEF Callers, sysOpenEmpty, AtFdLimit, IInv, TypeOK
<1>2. PICK o, fds : /\ o = insertOpenFileTableEntry(e, p, EMPTY_FILE)
                    /\ fds = [fd EXCEPT ![p] = [fd[p] EXCEPT ![nextFd[p]] = e]]
  OBVIOUS
<1>3. GoodTable(o) /\ o \in [Entries -> Entry]
  BY <1>1, <1>2, GoodTableIInv, InsertGood DEF IInv, TypeOK, GoodTable
<1>4. fds \in [Pids -> [Fds -> Entries \union {0}]]
  <2>1. [fd[p] EXCEPT ![nextFd[p]] = e] \in [Fds -> Entries \union {0}]
    BY <1>1 DEF IInv, TypeOK
  <2> QED
    BY <1>1, <1>2, <2>1 DEF IInv, TypeOK
<1>5. oft' = CloseEntry(o, nextFd[p], p, fds) /\ fd' = CloseFd(nextFd[p], p, fds) /\ nextFd' = nextFd
  BY <1>2 DEF sysOpenEmpty
<1>6. GoodTable(oft') /\ fd' \in [Pids -> [Fds -> Entries \union {0}]]
  BY <1>1, <1>3, <1>4, <1>5, CloseEffect, ClearGood, EntryFields
<1> QED
  BY <1>5, <1>6, Zenon DEF GoodTable, Marked, IInv, TypeOK, MarksOwned, LockExclusive

LEMMA CloseIInv ==
  ASSUME IInv, NEW p \in Pids, NEW d \in Fds,
         sysClose(p, d) \/ CloseProcessFiles(p)
  PROVE  IInv'
<1>1. GoodTable(oft) /\ oft \in [Entries -> Entry] /\ fd \in [Pids -> [Fds -> Entries \union {0}]]
  BY GoodTableIInv DEF IInv, TypeOK
<1>2. /\ oft' \in [Entries -> Entry]
      /\ \A e \in Entries : oft'[e] = oft[e] \/ oft'[e] = NoEntry
      /\ fd' \in [Pids -> [Fds -> Entries \union {0}]] /\ nextFd' = nextFd
  <2>1. CASE sysClose(p, d)
    BY <1>1, <2>1, CloseEffect DEF sysClose
  <2>2. CASE CloseProcessFiles(p)
    BY <1>1, <2>2, EntryFields DEF CloseProcessFiles, closeAllFiles
  <2> QED
    BY <2>1, <2>2
<1>3. GoodTable(oft')
  BY <1>1, <1>2, ClearGood
<1> QED
  BY <1>2, <1>3, Zenon DEF GoodTable, Marked, IInv, TypeOK, MarksOwned, LockExclusive

LEMMA TaskIInv ==
  ASSUME IInv, NEW p \in Pids, NEW freed \in SUBSET Pids,
         NewTaskFiles(p) \/ ZeroTaskFiles(freed)
  PROVE  IInv'
<1>1. NoFds \in [Fds -> Entries \union {0}]
  BY DEF NoFds
<1>2. oft' = oft /\ fd' \in [Pids -> [Fds -> Entries \union {0}]]
      /\ nextFd' \in [Pids -> 0 .. MAX_FILE_DESCRIPTORS]
  BY <1>1 DEF NewTaskFiles, ZeroTaskFiles, IInv, TypeOK
<1> QED
  BY <1>2, Zenon DEF IInv, TypeOK, MarksOwned, LockExclusive

LEMMA NextIInv == IInv /\ [Next]_ovars => IInv'
<1> SUFFICES ASSUME IInv, [Next]_ovars PROVE IInv'
  OBVIOUS
<1>1. Callers \subseteq Pids /\ \E d : d \in Fds
  BY ConstantsAssumption, SMT DEF Callers, Fds, STD
<1>2. CASE UNCHANGED ovars
  BY <1>2, Zenon DEF ovars, IInv, TypeOK, MarksOwned, LockExclusive
<1>3. ASSUME NEW p \in Callers, NEW e \in Entries,
             \/ \E i \in Inodes, mode \in Modes : sysOpen(p, i, mode, e)
             \/ sysOpenEmpty(p, e)
      PROVE  IInv'
  BY <1>3, OpenIInv, OpenEmptyIInv
<1>4. ASSUME NEW p \in Callers, (\E d \in Fds : sysClose(p, d)) \/ CloseProcessFiles(p)
      PROVE  IInv'
  BY <1>1, <1>4, CloseIInv
<1>5. ASSUME NEW p \in Pids, NewTaskFiles(p)
      PROVE  IInv'
  <2>1. {} \in SUBSET Pids
    OBVIOUS
  <2> QED
    BY <1>5, <2>1, TaskIInv
<1>6. ASSUME NEW freed \in SUBSET (Callers \ {1}), ZeroTaskFiles(freed)
      PROVE  IInv'
  <2>1. freed \in SUBSET Pids /\ 1 \in Pids
    BY <1>1, ConstantsAssumption, SMT DEF Pids
  <2> QED
    BY <1>6, <2>1, TaskIInv
<1> QED
  BY <1>2, <1>3, <1>4, <1>5, <1>6 DEF Next

THEOREM Invariant == Spec => []IInv
  BY InitIInv, NextIInv, PTL DEF Spec

(* The open file table, the descriptors and the descriptor counters keep   *)
(* their types: no open writes past the descriptor array.                  *)
THEOREM TypeCorrect == Spec => []TypeOK
<1>1. IInv => TypeOK
  BY DEF IInv
<1> QED
  BY <1>1, Invariant, PTL

(* Two entries of one file are never both locked for writing.              *)
THEOREM Exclusion == Spec => []LockExclusive
<1>1. IInv => LockExclusive
  BY DEF IInv
<1> QED
  BY <1>1, Invariant, PTL

-----------------------------------------------------------------------------
(* Refinement of FileLock.                                                 *)
LEMMA WriterIs ==
  ASSUME NEW o, GoodTable(o), NEW i \in Inodes
  PROVE  /\ (\A e \in Entries : Marked(o, e) => o[e].inode # i) => Writer(o, i) = 0
         /\ \A e \in Entries :
              Marked(o, e) /\ o[e].inode = i => Writer(o, i) = o[e].openedByPid
<1>1. ASSUME \A e \in Entries : Marked(o, e) => o[e].inode # i
      PROVE  Writer(o, i) = 0
  BY <1>1 DEF Writer, fileAvailableToBeLocked, Marked
<1>2. ASSUME NEW e \in Entries, Marked(o, e), o[e].inode = i
      PROVE  Writer(o, i) = o[e].openedByPid
  <2> DEFINE c == CHOOSE f \in Entries : o[f].inode = i /\ o[f].lockedForWriting
  <2>1. c \in Entries /\ o[c].inode = i /\ Marked(o, c)
    BY <1>2 DEF Marked
  <2>2. c = e
    BY <1>2, <2>1 DEF GoodTable
  <2>3. Writer(o, i) = o[c].openedByPid
    BY <1>2 DEF Writer, fileAvailableToBeLocked, Marked
  <2> QED
    BY <2>2, <2>3
<1> QED
  BY <1>1, <1>2

(* Two tables with the same marks have the same writers.                   *)
LEMMA SameWriters ==
  ASSUME NEW o, NEW t, GoodTable(o), GoodTable(t), NEW i \in Inodes,
         \A e \in Entries : Marked(o, e) /\ o[e].inode = i => t[e] = o[e],
         \A e \in Entries : Marked(t, e) /\ t[e].inode = i => o[e] = t[e]
  PROVE  Writer(t, i) = Writer(o, i)
<1>1. CASE \E e \in Entries : Marked(o, e) /\ o[e].inode = i
  <2>1. PICK e \in Entries : Marked(o, e) /\ o[e].inode = i
    BY <1>1
  <2>2. Marked(t, e) /\ t[e].inode = i /\ t[e] = o[e]
    BY <2>1 DEF Marked
  <2>3. Writer(o, i) = o[e].openedByPid
    BY <2>1, WriterIs
  <2>4. Writer(t, i) = t[e].openedByPid
    BY <2>2, WriterIs
  <2> QED
    BY <2>2, <2>3, <2>4
<1>2. CASE ~ \E e \in Entries : Marked(o, e) /\ o[e].inode = i
  <2>1. \A e \in Entries : Marked(t, e) => t[e].inode # i
    BY <1>2 DEF Marked
  <2> QED
    BY <1>2, <2>1, WriterIs
<1> QED
  BY <1>1, <1>2

(* lockFile leaves every writer, or makes the caller the writer of a file  *)
(* that had none.                                                          *)
LEMMA LockLocks ==
  ASSUME NEW o, GoodTable(o), o \in [Entries -> Entry], NEW p \in Pids, NEW i \in Inodes,
         lockFile(o, p, i) # o
  PROVE  /\ Writer(o, i) = 0
         /\ \A j \in Inodes : Writer(lockFile(o, p, i), j) = IF j = i THEN p ELSE Writer(o, j)
<1>1. PICK f \in Entries :
        /\ fileAvailableToBeLocked(o, i) /\ o[f].inode = i /\ o[f].openedByPid = p
        /\ lockFile(o, p, i) = [o EXCEPT ![f].lockedForWriting = TRUE]
  <2>1. \/ lockFile(o, p, i) = o
        \/ /\ fileAvailableToBeLocked(o, i)
           /\ \E f \in Entries :
                /\ o[f].inode = i /\ o[f].openedByPid = p
                /\ lockFile(o, p, i) = [o EXCEPT ![f].lockedForWriting = TRUE]
    BY LockFileEffect, SMTT(60)
  <2> QED
    BY <2>1
<1>2. PICK t : t = lockFile(o, p, i)
  OBVIOUS
<1>3. GoodTable(t)
  BY <1>2, LockGood
<1>4. /\ Marked(t, f) /\ t[f].openedByPid = p /\ t[f].inode = i
      /\ \A g \in Entries \ {f} : t[g] = o[g]
  <2>1. t = [o EXCEPT ![f] = [o[f] EXCEPT !.lockedForWriting = TRUE]]
    BY <1>1, <1>2
  <2>2. t[f] = [o[f] EXCEPT !.lockedForWriting = TRUE] /\ o[f] \in Entry
    BY <2>1
  <2> QED
    BY <1>1, <2>1, <2>2 DEF Marked, Entry
<1>5. \A g \in Entries : Marked(o, g) => o[g].inode # i
  BY <1>1 DEF fileAvailableToBeLocked, Marked
<1>6. Writer(o, i) = 0
  BY <1>5, WriterIs
<1>7. Writer(t, i) = p
  BY <1>3, <1>4, WriterIs
<1>8. ASSUME NEW j \in Inodes, j # i
      PROVE  Writer(t, j) = Writer(o, j)
  BY <1>1, <1>3, <1>4, <1>8, SameWriters
<1> QED
  BY <1>2, <1>6, <1>7, <1>8

(* An open leaves every writer, or makes the caller the writer of a file   *)
(* that had none.                                                          *)
LEMMA OpenLocks ==
  ASSUME IInv, NEW p \in Pids, NEW e \in FreeEntries, NEW i \in Inodes, NEW o,
         o = insertOpenFileTableEntry(e, p, i)
  PROVE  /\ \A j \in Inodes : Writer(o, j) = Writer(oft, j)
         /\ \/ lockFile(o, p, i) = o
            \/ /\ Writer(oft, i) = 0
               /\ \A j \in Inodes :
                    Writer(lockFile(o, p, i), j) = IF j = i THEN p ELSE Writer(oft, j)
<1>1. GoodTable(oft) /\ oft \in [Entries -> Entry] /\ e \in Entries
  BY GoodTableIInv DEF IInv, TypeOK, FreeEntries
<1>2. GoodTable(o) /\ o \in [Entries -> Entry]
  BY <1>1, InsertGood DEF GoodTable
<1>3. ~Marked(oft, e) /\ ~Marked(o, e) /\ \A f \in Entries \ {e} : o[f] = oft[f]
  <2>1. ~Marked(oft, e)
    <3>1. oft[e].openedByPid = 0
      BY DEF FreeEntries
    <3> QED
      BY <1>1, <3>1, Zenon DEF GoodTable
  <2>2. o = [oft EXCEPT ![e] = Opened(p, i)]
    BY DEF insertOpenFileTableEntry
  <2> QED
    BY <1>1, <2>1, <2>2, EntryFields DEF Marked
<1>4. \A j \in Inodes : Writer(o, j) = Writer(oft, j)
  BY <1>1, <1>2, <1>3, SameWriters
<1>5. ASSUME lockFile(o, p, i) # o
      PROVE  /\ Writer(oft, i) = 0
             /\ \A j \in Inodes :
                  Writer(lockFile(o, p, i), j) = IF j = i THEN p ELSE Writer(oft, j)
  BY <1>2, <1>4, <1>5, LockLocks
<1> QED
  BY <1>4, <1>5

(* Clearing entries gives back the locks of their owners.                  *)
LEMMA ClearReleases ==
  ASSUME IInv, IInv', NEW p \in Pids,
         \A e \in Entries : oft'[e] = oft[e] \/ oft'[e] = NoEntry,
         \A e \in Entries : oft'[e] # oft[e] /\ Marked(oft, e) => oft[e].openedByPid = p
  PROVE  \E given \in SUBSET Inodes :
           /\ \A i \in given : Writer(oft, i) = p
           /\ \A i \in Inodes : Writer(oft', i) = IF i \in given THEN 0 ELSE Writer(oft, i)
<1>1. GoodTable(oft) /\ GoodTable(oft')
  <2>1. GoodTable(oft)
    BY GoodTableIInv DEF IInv, TypeOK
  <2>2. GoodTable(oft')
    BY Zenon DEF GoodTable, Marked, IInv, TypeOK, MarksOwned, LockExclusive
  <2> QED
    BY <2>1, <2>2
<1> DEFINE lost(e) == Marked(oft, e) /\ oft'[e] # oft[e]
           given == {i \in Inodes : \E e \in Entries : lost(e) /\ oft[e].inode = i}
<1>2. \A e \in Entries : Marked(oft', e) => oft'[e] = oft[e] /\ Marked(oft, e)
  BY EntryFields DEF Marked
<1>3. ASSUME NEW i \in given
      PROVE  Writer(oft, i) = p /\ Writer(oft', i) = 0
  <2>1. PICK e \in Entries : lost(e) /\ oft[e].inode = i
    OBVIOUS
  <2>2. Writer(oft, i) = p
    BY <1>1, <2>1, WriterIs
  <2>3. \A f \in Entries : Marked(oft', f) => oft'[f].inode # i
    BY <1>1, <1>2, <2>1 DEF GoodTable
  <2>4. Writer(oft', i) = 0
    BY <1>1, <2>3, WriterIs
  <2> QED
    BY <2>2, <2>4
<1>4. ASSUME NEW i \in Inodes \ given
      PROVE  Writer(oft', i) = Writer(oft, i)
  <2>1. \A e \in Entries : Marked(oft, e) /\ oft[e].inode = i => oft'[e] = oft[e]
    OBVIOUS
  <2> QED
    BY <1>1, <1>2, <2>1, SameWriters
<1> QED
  BY <1>3, <1>4

(* The variable of FileLock.                                               *)
writers == [i \in Inodes |-> Writer(oft, i)]

LEMMA InitRefines == Init => Lock!Init
<1> SUFFICES ASSUME Init PROVE \A i \in Inodes : Writer(oft, i) = 0
  BY DEF Lock!Init
<1>1. IInv
  BY InitIInv
<1>2. GoodTable(oft)
  BY <1>1, GoodTableIInv DEF IInv, TypeOK
<1>3. \A e \in Entries : ~Marked(oft, e)
  BY DEF Init, createOpenFileTable, Opened, NoEntry, Marked
<1> QED
  BY <1>2, <1>3, WriterIs

LEMMA NextRefines ==
  ASSUME IInv, IInv', [Next]_ovars
  PROVE  [Lock!Next]_writers
<1>1. ASSUME \A i \in Inodes : Writer(oft', i) = Writer(oft, i)
      PROVE  writers' = writers
  BY <1>1 DEF writers
<1>2. ASSUME oft' = oft PROVE writers' = writers
  BY <1>2 DEF writers
<1>3. ASSUME NEW p \in Pids,
             \A e \in Entries : oft'[e] = oft[e] \/ oft'[e] = NoEntry,
             \A e \in Entries : oft'[e] # oft[e] /\ Marked(oft, e) => oft[e].openedByPid = p
      PROVE  \E given \in SUBSET Inodes : Lock!Release(p, given)
  <2>1. PICK given \in SUBSET Inodes :
           /\ \A i \in given : Writer(oft, i) = p
           /\ \A i \in Inodes : Writer(oft', i) = IF i \in given THEN 0 ELSE Writer(oft, i)
    BY <1>3, ClearReleases
  <2>2. Lock!Release(p, given)
    BY <2>1 DEF Lock!Release, writers
  <2> QED
    BY <2>2
<1>4. ASSUME NEW p \in Callers, NEW e \in Entries, NEW i \in Inodes, NEW mode \in Modes,
             sysOpen(p, i, mode, e)
      PROVE  Lock!Next \/ writers' = writers
  <2>1. p \in Pids /\ e \in FreeEntries
    BY <1>4 DEF Callers, sysOpen, IsFirst
  <2>2. PICK o : o = insertOpenFileTableEntry(e, p, i)
    OBVIOUS
  <2>3. oft' = o \/ oft' = lockFile(o, p, i)
    BY <1>4, <2>2 DEF sysOpen
  <2>4. /\ \A j \in Inodes : Writer(o, j) = Writer(oft, j)
        /\ \/ lockFile(o, p, i) = o
           \/ /\ Writer(oft, i) = 0
              /\ \A j \in Inodes :
                   Writer(lockFile(o, p, i), j) = IF j = i THEN p ELSE Writer(oft, j)
    BY <2>1, <2>2, OpenLocks
  <2>5. CASE oft' = o
    BY <1>1, <2>4, <2>5
  <2>6. CASE oft' # o
    <3>1. writers[i] = 0 /\ writers' = [writers EXCEPT ![i] = p]
      BY <2>3, <2>4, <2>6 DEF writers
    <3>2. Lock!Acquire(p, i)
      BY <3>1 DEF Lock!Acquire, writers
    <3> QED
      BY <2>1, <3>2 DEF Lock!Next
  <2> QED
    BY <2>5, <2>6
<1>5. ASSUME NEW p \in Callers, NEW e \in Entries, sysOpenEmpty(p, e)
      PROVE  writers' = writers
  <2>1. p \in Pids /\ e \in FreeEntries /\ nextFd[p] \in Fds
    BY <1>5, SMT DEF Callers, sysOpenEmpty, IsFirst, AtFdLimit, IInv, TypeOK
  <2>2. PICK o, fds : /\ o = insertOpenFileTableEntry(e, p, EMPTY_FILE)
                      /\ fds = [fd EXCEPT ![p] = [fd[p] EXCEPT ![nextFd[p]] = e]]
    OBVIOUS
  <2>3. fds[p][nextFd[p]] = e
    BY <2>1, <2>2 DEF IInv, TypeOK
  <2>4. oft' = CloseEntry(o, nextFd[p], p, fds)
    BY <1>5, <2>2 DEF sysOpenEmpty
  <2>5. oft' = o \/ oft' = [o EXCEPT ![e] = NoEntry]
    BY <2>3, <2>4 DEF CloseEntry
  <2>6. GoodTable(oft) /\ GoodTable(oft') /\ oft \in [Entries -> Entry] /\ e \in Entries
    BY <2>1, GoodTablePrimed, GoodTableIInv DEF IInv, TypeOK, FreeEntries
  <2>7. ~Marked(oft, e)
    <3>1. oft[e].openedByPid = 0
      BY <2>1 DEF FreeEntries
    <3> QED
      BY <2>6, <3>1, Zenon DEF GoodTable
  <2>8. ~Marked(oft', e) /\ \A f \in Entries \ {e} : oft'[f] = oft[f]
    <3>1. o = [oft EXCEPT ![e] = Opened(p, EMPTY_FILE)]
      BY <2>2 DEF insertOpenFileTableEntry
    <3>2. o[e] = Opened(p, EMPTY_FILE) /\ \A f \in Entries \ {e} : o[f] = oft[f]
      BY <2>6, <3>1
    <3>3. CASE oft' = o
      BY <2>1, <3>2, <3>3, EntryFields DEF Marked
    <3>4. CASE oft' = [o EXCEPT ![e] = NoEntry]
      <4>1. oft'[e] = NoEntry /\ \A f \in Entries \ {e} : oft'[f] = o[f]
        BY <2>6, <3>1, <3>4
      <4> QED
        BY <3>2, <4>1, EntryFields DEF Marked
    <3> QED
      BY <2>5, <3>3, <3>4
  <2> QED
    BY <1>1, <2>6, <2>7, <2>8, SameWriters
<1>6. ASSUME NEW p \in Callers, NEW d \in Fds, sysClose(p, d)
      PROVE  Lock!Next \/ writers' = writers
  <2>1. \/ oft' = oft
        \/ \E e \in Entries : oft' = [oft EXCEPT ![e] = NoEntry]
    BY <1>6, CloseEffect, SMTT(40) DEF sysClose, Callers, IInv, TypeOK
  <2>2. CASE oft' = oft
    BY <1>2, <2>2
  <2>3. ASSUME NEW e \in Entries, oft' = [oft EXCEPT ![e] = NoEntry]
        PROVE  Lock!Next \/ writers' = writers
    <3>1. /\ \A f \in Entries : oft'[f] = oft[f] \/ oft'[f] = NoEntry
          /\ \A f \in Entries : oft'[f] # oft[f] => f = e
      BY <2>3 DEF IInv, TypeOK
    <3>2. \E q \in Pids : Marked(oft, e) => oft[e].openedByPid = q
      BY <1>6 DEF IInv, MarksOwned, Marked, Callers
    <3>3. PICK q \in Pids : Marked(oft, e) => oft[e].openedByPid = q
      BY <3>2
    <3>4. \E given \in SUBSET Inodes : Lock!Release(q, given)
      BY <1>3, <3>1, <3>3
    <3> QED
      BY <3>4 DEF Lock!Next
  <2> QED
    BY <2>1, <2>2, <2>3
<1>7. ASSUME NEW p \in Callers, CloseProcessFiles(p)
      PROVE  Lock!Next
  <2>1. /\ p \in Pids
        /\ \A e \in Entries : oft'[e] = oft[e] \/ oft'[e] = NoEntry
        /\ \A e \in Entries : oft'[e] # oft[e] => oft[e].openedByPid = p
    BY <1>7 DEF CloseProcessFiles, closeAllFiles, Callers
  <2>2. \E given \in SUBSET Inodes : Lock!Release(p, given)
    BY <1>3, <2>1
  <2> QED
    BY <2>1, <2>2 DEF Lock!Next
<1>8. ASSUME (\E p \in Pids : NewTaskFiles(p)) \/ (\E freed : ZeroTaskFiles(freed))
             \/ UNCHANGED ovars
      PROVE  writers' = writers
  BY <1>2, <1>8 DEF NewTaskFiles, ZeroTaskFiles, ovars
<1> QED
  BY <1>4, <1>5, <1>6, <1>7, <1>8 DEF Next

(* The marks in the open file table are a lock for each file: whatever     *)
(* entries and descriptors are opened, closed and used again, a lock is    *)
(* taken only when it is free and passes to another process only after it  *)
(* was given back.                                                         *)
THEOREM LockImplemented == Spec => ImplementsFileLock
<1>1. IInv /\ IInv' /\ [Next]_ovars => [Lock!Next]_writers
  BY NextRefines
<1> QED
  BY <1>1, InitRefines, Invariant, PTL DEF Spec, ImplementsFileLock, Lock!Spec, writers

HIDE Numbers

-----------------------------------------------------------------------------
(* The routines as lists: a piece of work, the semaphores that are taken   *)
(* and released until the next one, and the rest.                          *)
Sems     == {Files, Tasks, Frames}
SemSteps == {Acquire(s) : s \in Sems} \union {Release(s) : s \in Sems}
Works ==
  {"findEntry", "writeEntry", "setDescriptor", "findLocked", "findOwn", "countDescriptor", "close",
   "findSlot", "fillSlot", "closeEntries", "return", "panic"}
AnyStep  == {Work(n) : n \in Works} \union SemSteps

Do(w, q, rest) == <<Work(w)>> \o (q \o rest)
Begins(w, rest) ==
  \E q \in Seq(SemSteps), r \in Seq(AnyStep) : w \in Works /\ rest = Do(w, q, r)

(* Nothing but semaphores is in the way of the rest.                       *)
Toward(t, rest) == \E q \in Seq(SemSteps) : t = q \o rest

Kinds == Modes \union {"EMPTY"}

ReturnSteps  == Do("return", <<>>, <<>>)
PanicSteps   == Do("panic", <<>>, <<>>)
CountSteps   == Do("countDescriptor", <<>>, ReturnSteps)
OwnSteps     == Do("findOwn", <<Release(Files)>> \o freePage, CountSteps)
LockSteps    == Do("findLocked", <<>>, OwnSteps)
CloseSteps   == Do("close", <<>>, ReturnSteps)
DescriptorSteps(k) ==
  CASE k = "EMPTY"   -> Do("setDescriptor", <<>>, CloseSteps)
    [] k = "RDWRITE" -> Do("setDescriptor", <<Acquire(Files)>>, LockSteps)
    [] k = "RDONLY"  -> Do("setDescriptor", freePage, CountSteps)
WriteSteps(k) == Do("writeEntry", <<Release(Files)>>, DescriptorSteps(k))
FindSteps(k)  == Do("findEntry", <<>>, WriteSteps(k))
FillSteps == Do("fillSlot", <<Release(Tasks)>> \o (updateTaskState \o updateTaskState), ReturnSteps)
SlotSteps == Do("findSlot", <<>>, FillSteps)
CloseAllSteps == Do("closeEntries", <<Release(Files)>>, ReturnSteps)

LEMMA Sequences ==
  ASSUME NEW S
  PROVE  /\ <<>> \in Seq(S)
         /\ \A a \in S, s \in Seq(S) :
              /\ <<a>> \in Seq(S) /\ <<a>> \o s \in Seq(S) /\ <<a>> \o s # <<>>
              /\ Head(<<a>> \o s) = a /\ Tail(<<a>> \o s) = s
         /\ \A s \in Seq(S) :
              /\ <<>> \o s = s /\ s \o <<>> = s
              /\ s # <<>> => Head(s) \in S /\ Tail(s) \in Seq(S) /\ s = <<Head(s)>> \o Tail(s)
         /\ \A s, t \in Seq(S) : s \o t \in Seq(S)
<1>1. <<>> \in Seq(S) /\ \A s \in Seq(S) : <<>> \o s = s /\ s \o <<>> = s
  BY SMT
<1>2. ASSUME NEW a \in S, NEW s \in Seq(S)
      PROVE  /\ <<a>> \in Seq(S) /\ <<a>> \o s \in Seq(S) /\ <<a>> \o s # <<>>
             /\ Head(<<a>> \o s) = a /\ Tail(<<a>> \o s) = s
  BY SMT
<1>3. ASSUME NEW s \in Seq(S), s # <<>>
      PROVE  Head(s) \in S /\ Tail(s) \in Seq(S) /\ s = <<Head(s)>> \o Tail(s)
  BY <1>3, SMT
<1>4. ASSUME NEW s \in Seq(S), NEW t \in Seq(S)
      PROVE  s \o t \in Seq(S)
  BY SMT
<1> QED
  BY <1>1, <1>2, <1>3, <1>4

LEMMA Associative ==
  ASSUME NEW S, NEW s \in Seq(S), NEW t \in Seq(S), NEW u \in Seq(S)
  PROVE  (s \o t) \o u = s \o (t \o u)
BY SMT

(* The same for longer lists; Cat hides that it is about sequences.        *)
Cat(s, t) == s \o t

LEMMA CatProperties ==
  ASSUME NEW S
  PROVE  \A s, t \in Seq(S) :
           Cat(s, t) \in Seq(S) /\ \A u \in Seq(S) : Cat(Cat(s, t), u) = Cat(s, Cat(t, u))
<1>1. ASSUME NEW s \in Seq(S), NEW t \in Seq(S)
      PROVE  s \o t \in Seq(S)
  BY SMT
<1>2. ASSUME NEW s \in Seq(S), NEW t \in Seq(S), NEW u \in Seq(S)
      PROVE  (s \o t) \o u = s \o (t \o u)
  BY SMT
<1> QED
  BY <1>1, <1>2, Zenon DEF Cat

LEMMA CatSteps ==
  \A s, t \in Seq(AnyStep) :
    Cat(s, t) \in Seq(AnyStep) /\ \A u \in Seq(AnyStep) : Cat(Cat(s, t), u) = Cat(s, Cat(t, u))
BY CatProperties

LEMMA StepsDiffer ==
  /\ \A v, w : Work(v) = Work(w) => v = w
  /\ \A v : Work(v) \notin SemSteps
  /\ \A s \in Sems : Acquire(s) \in SemSteps /\ Release(s) \in SemSteps
  /\ SemSteps \subseteq AnyStep /\ Seq(SemSteps) \subseteq Seq(AnyStep)
  /\ \A w \in Works : Work(w) \in AnyStep
<1>1. \A v, w : Work(v) = Work(w) => v = w
  BY SMT DEF Work
<1>2. \A v : Work(v) \notin SemSteps
  <2>1. \A v, s : Work(v) # Acquire(s) /\ Work(v) # Release(s)
    BY SMT DEF Work, Acquire, Release
  <2> QED
    BY <2>1 DEF SemSteps
<1>3. SemSteps \subseteq AnyStep
  BY DEF AnyStep
<1>4. Seq(SemSteps) \subseteq Seq(AnyStep)
  BY <1>3, SMT
<1> QED
  BY <1>1, <1>2, <1>3, <1>4 DEF SemSteps, AnyStep

LEMMA DoIsSeq ==
  ASSUME NEW w \in Works, NEW q \in Seq(SemSteps), NEW r \in Seq(AnyStep)
  PROVE  /\ q \o r \in Seq(AnyStep) /\ Do(w, q, r) \in Seq(AnyStep) /\ Do(w, q, r) # <<>>
         /\ Head(Do(w, q, r)) = Work(w) /\ Tail(Do(w, q, r)) = q \o r
         /\ Begins(w, Do(w, q, r)) /\ Toward(q \o r, r) /\ Toward(r, r)
<1>1. q \in Seq(AnyStep) /\ Work(w) \in AnyStep
  BY StepsDiffer
<1>2. q \o r \in Seq(AnyStep)
  BY <1>1, Sequences
<1>3. /\ <<Work(w)>> \o (q \o r) \in Seq(AnyStep) /\ <<Work(w)>> \o (q \o r) # <<>>
      /\ Head(<<Work(w)>> \o (q \o r)) = Work(w) /\ Tail(<<Work(w)>> \o (q \o r)) = q \o r
    <2>1. PICK a \in AnyStep, s \in Seq(AnyStep) : a = Work(w) /\ s = q \o r
    BY <1>1, <1>2
  <2>2. /\ <<a>> \o s \in Seq(AnyStep) /\ <<a>> \o s # <<>>
        /\ Head(<<a>> \o s) = a /\ Tail(<<a>> \o s) = s
    BY Sequences
  <2> QED
    BY <2>1, <2>2
<1>4. Begins(w, Do(w, q, r))
  BY DEF Begins
<1>5. Toward(q \o r, r) /\ Toward(r, r)
  <2>1. <<>> \in Seq(SemSteps) /\ <<>> \o r = r
    BY Sequences
  <2> QED
    BY <2>1 DEF Toward
<1> QED
  BY <1>2, <1>3, <1>4, <1>5 DEF Do

LEMMA BeginsFacts ==
  ASSUME NEW rest, NEW w, Begins(w, rest)
  PROVE  rest \in Seq(AnyStep) /\ rest # <<>> /\ Head(rest) = Work(w) /\ Toward(rest, rest)
<1>1. PICK q \in Seq(SemSteps), r \in Seq(AnyStep) : w \in Works /\ rest = Do(w, q, r)
  BY DEF Begins
<1>2. rest \in Seq(AnyStep) /\ rest # <<>> /\ Head(rest) = Work(w)
  BY <1>1, DoIsSeq
<1>3. <<>> \in Seq(SemSteps) /\ <<>> \o rest = rest
  BY <1>2, Sequences
<1> QED
  BY <1>2, <1>3 DEF Toward

(* A semaphore brings a call nearer to its next piece of work.             *)
LEMMA TowardSemaphore ==
  ASSUME NEW t, NEW rest, NEW w, Begins(w, rest), Toward(t, rest), Head(t) \in SemSteps
  PROVE  Toward(Tail(t), rest)
<1>1. PICK q \in Seq(SemSteps) : t = q \o rest
  BY DEF Toward
<1>2. rest \in Seq(AnyStep) /\ Head(rest) = Work(w)
  BY BeginsFacts
<1>3. q # <<>>
  <2>1. <<>> \o rest = rest
    BY <1>2, Sequences
  <2> QED
    BY <1>1, <1>2, <2>1, StepsDiffer
<1>4. Head(q) \in SemSteps /\ Tail(q) \in Seq(SemSteps) /\ q = <<Head(q)>> \o Tail(q)
  BY <1>3, Sequences
<1>5. PICK a \in SemSteps, r \in Seq(SemSteps) : q = <<a>> \o r
  BY <1>4, Zenon
<1>6. a \in AnyStep /\ r \in Seq(AnyStep) /\ <<a>> \in Seq(AnyStep)
  BY StepsDiffer, Sequences
<1>7. t = <<a>> \o (r \o rest) /\ r \o rest \in Seq(AnyStep)
  BY <1>1, <1>2, <1>5, <1>6, Associative, Sequences
<1>8. Tail(t) = r \o rest
  BY <1>6, <1>7, Sequences
<1> QED
  BY <1>8 DEF Toward

(* The work a call is about to do tells how far it has got.                *)
LEMMA TowardWork ==
  ASSUME NEW t, NEW rest, NEW v, NEW w, Begins(v, rest), Toward(t, rest), Head(t) = Work(w)
  PROVE  v = w /\ t = rest
<1>1. PICK q \in Seq(SemSteps) : t = q \o rest
  BY Zenon DEF Toward
<1>2. rest \in Seq(AnyStep) /\ Head(rest) = Work(v)
  BY BeginsFacts
<1>3. q = <<>>
  <2> SUFFICES ASSUME q # <<>> PROVE FALSE
    OBVIOUS
  <2>1. Head(q) \in SemSteps /\ Tail(q) \in Seq(SemSteps) /\ q = <<Head(q)>> \o Tail(q)
    BY Sequences, Zenon
  <2>2. PICK a \in SemSteps, r \in Seq(SemSteps) : q = <<a>> \o r
    BY <2>1, Zenon
  <2>3. a \in AnyStep /\ r \in Seq(AnyStep) /\ <<a>> \in Seq(AnyStep)
    BY StepsDiffer, Sequences
  <2>4. t = <<a>> \o (r \o rest) /\ r \o rest \in Seq(AnyStep)
    BY <1>1, <1>2, <2>2, <2>3, Associative, Sequences
  <2>5. Head(t) = a
    BY <2>3, <2>4, Sequences
  <2> QED
    BY <2>5, StepsDiffer
<1>4. t = rest
  BY <1>1, <1>2, <1>3, Sequences
<1> QED
  BY <1>2, <1>4, StepsDiffer

(* The lists of file.cpp and vm.cpp.                                       *)
LEMMA Lists ==
  /\ Begins("return", ReturnSteps) /\ Begins("panic", PanicSteps)
  /\ Begins("countDescriptor", CountSteps) /\ Begins("findOwn", OwnSteps)
  /\ Begins("findLocked", LockSteps) /\ Begins("close", CloseSteps)
  /\ \A k \in Kinds : /\ Begins("setDescriptor", DescriptorSteps(k))
                      /\ Begins("writeEntry", WriteSteps(k)) /\ Begins("findEntry", FindSteps(k))
  /\ Begins("fillSlot", FillSteps) /\ Begins("findSlot", SlotSteps)
  /\ Begins("closeEntries", CloseAllSteps)
  /\ freePage \in Seq(SemSteps)
  /\ <<Release(Files)>> \o freePage \in Seq(SemSteps)
  /\ <<Release(Tasks)>> \o (updateTaskState \o updateTaskState) \in Seq(SemSteps)
  /\ \A s \in Sems : <<Acquire(s)>> \in Seq(SemSteps) /\ <<Release(s)>> \in Seq(SemSteps)
<1>1. <<>> \in Seq(SemSteps) /\ <<>> \in Seq(AnyStep)
  BY Sequences
<1>2. \A s \in Sems : <<Acquire(s)>> \in Seq(SemSteps) /\ <<Release(s)>> \in Seq(SemSteps)
  BY StepsDiffer, Sequences
<1>3. \A s \in Sems, q \in Seq(SemSteps) : Holding(s, q) \in Seq(SemSteps)
  BY <1>2, Sequences DEF Holding
<1>4. Files \in Sems /\ Tasks \in Sems /\ Frames \in Sems
  BY DEF Sems
<1>5. freePage \in Seq(SemSteps) /\ updateTaskState \in Seq(SemSteps)
  BY <1>1, <1>3, <1>4 DEF freePage, freeFrame, updateTaskState
<1> /\ "return" \in Works /\ "panic" \in Works /\ "countDescriptor" \in Works /\ "close" \in Works
    /\ "findOwn" \in Works /\ "findLocked" \in Works /\ "setDescriptor" \in Works
    /\ "writeEntry" \in Works /\ "findEntry" \in Works /\ "fillSlot" \in Works
    /\ "findSlot" \in Works /\ "closeEntries" \in Works
  BY DEF Works
<1>6. /\ <<Release(Files)>> \o freePage \in Seq(SemSteps)
      /\ <<Release(Tasks)>> \o (updateTaskState \o updateTaskState) \in Seq(SemSteps)
  BY <1>2, <1>4, <1>5, Sequences
<1>7. \A w \in Works, q \in Seq(SemSteps), r \in Seq(AnyStep) :
        Do(w, q, r) \in Seq(AnyStep) /\ Begins(w, Do(w, q, r))
  BY DoIsSeq
<1>8. /\ Begins("return", ReturnSteps) /\ Begins("panic", PanicSteps)
      /\ ReturnSteps \in Seq(AnyStep)
  BY <1>1, <1>7 DEF ReturnSteps, PanicSteps
<1>9. /\ Begins("countDescriptor", CountSteps) /\ Begins("close", CloseSteps)
      /\ CountSteps \in Seq(AnyStep) /\ CloseSteps \in Seq(AnyStep)
  BY <1>1, <1>7, <1>8 DEF CountSteps, CloseSteps
<1>10. Begins("findOwn", OwnSteps) /\ OwnSteps \in Seq(AnyStep)
  BY <1>6, <1>7, <1>9 DEF OwnSteps
<1>11. Begins("findLocked", LockSteps) /\ LockSteps \in Seq(AnyStep)
  BY <1>1, <1>7, <1>10 DEF LockSteps
<1>12. ASSUME NEW k \in Kinds
       PROVE  /\ Begins("setDescriptor", DescriptorSteps(k))
              /\ Begins("writeEntry", WriteSteps(k)) /\ Begins("findEntry", FindSteps(k))
  <2>1. Begins("setDescriptor", DescriptorSteps(k)) /\ DescriptorSteps(k) \in Seq(AnyStep)
    <3>1. CASE k = "EMPTY"
      BY <1>1, <1>7, <1>9, <3>1 DEF DescriptorSteps
    <3>2. CASE k = "RDWRITE"
      BY <1>2, <1>4, <1>7, <1>11, <3>2 DEF DescriptorSteps
    <3>3. CASE k = "RDONLY"
      BY <1>5, <1>7, <1>9, <3>3 DEF DescriptorSteps
    <3> QED
      BY <3>1, <3>2, <3>3 DEF Kinds, Modes
  <2>2. Begins("writeEntry", WriteSteps(k)) /\ WriteSteps(k) \in Seq(AnyStep)
    BY <1>2, <1>4, <1>7, <2>1 DEF WriteSteps
  <2>3. Begins("findEntry", FindSteps(k))
    BY <1>1, <1>7, <2>2 DEF FindSteps
  <2> QED
    BY <2>1, <2>2, <2>3
<1>13. Begins("fillSlot", FillSteps) /\ FillSteps \in Seq(AnyStep)
  BY <1>6, <1>7, <1>8 DEF FillSteps
<1>14. Begins("findSlot", SlotSteps)
  BY <1>1, <1>7, <1>13 DEF SlotSteps
<1>15. Begins("closeEntries", CloseAllSteps)
  BY <1>2, <1>4, <1>7, <1>8 DEF CloseAllSteps
<1> QED
  BY <1>2, <1>5, <1>6, <1>8, <1>9, <1>10, <1>11, <1>12, <1>13, <1>14, <1>15

LEMMA Tails ==
  /\ \A k \in Kinds : /\ Toward(Tail(FindSteps(k)), WriteSteps(k))
                      /\ Toward(Tail(WriteSteps(k)), DescriptorSteps(k))
  /\ Toward(Tail(DescriptorSteps("EMPTY")), CloseSteps)
  /\ Toward(Tail(DescriptorSteps("RDWRITE")), LockSteps)
  /\ Toward(Tail(DescriptorSteps("RDONLY")), CountSteps)
  /\ Toward(Tail(LockSteps), OwnSteps) /\ Toward(Tail(Tail(LockSteps)), CountSteps)
  /\ Toward(Tail(OwnSteps), CountSteps)
  /\ Toward(Tail(CountSteps), ReturnSteps) /\ Toward(Tail(CloseSteps), ReturnSteps)
  /\ Toward(Tail(SlotSteps), FillSteps) /\ Toward(Tail(FillSteps), ReturnSteps)
  /\ Toward(Tail(CloseAllSteps), ReturnSteps)
  /\ Tail(ReturnSteps) = <<>>
  /\ \A s \in Sems : Toward(<<Release(s), Panic>>, PanicSteps)
<1> /\ "return" \in Works /\ "panic" \in Works /\ "countDescriptor" \in Works /\ "close" \in Works
    /\ "findOwn" \in Works /\ "findLocked" \in Works /\ "setDescriptor" \in Works
    /\ "writeEntry" \in Works /\ "findEntry" \in Works /\ "fillSlot" \in Works
    /\ "findSlot" \in Works /\ "closeEntries" \in Works
  BY DEF Works
<1>1. <<>> \in Seq(SemSteps) /\ <<>> \in Seq(AnyStep)
  BY Sequences
<1>2. ASSUME NEW w \in Works, NEW q \in Seq(SemSteps), NEW rest, NEW v, Begins(v, rest)
      PROVE  Toward(Tail(Do(w, q, rest)), rest) /\ Tail(Do(w, q, rest)) = q \o rest
  <2>1. PICK r \in Seq(AnyStep) : r = rest
    BY <1>2, BeginsFacts
  <2>2. Tail(Do(w, q, r)) = q \o r /\ Toward(q \o r, r)
    BY DoIsSeq
  <2> QED
    BY <2>1, <2>2
<1>3. ASSUME NEW k \in Kinds
      PROVE  /\ Toward(Tail(FindSteps(k)), WriteSteps(k))
             /\ Toward(Tail(WriteSteps(k)), DescriptorSteps(k))
  <2>1. Begins("writeEntry", WriteSteps(k)) /\ Begins("setDescriptor", DescriptorSteps(k))
    BY Lists
  <2>2. <<Release(Files)>> \in Seq(SemSteps)
    BY Lists DEF Sems
  <2> QED
    BY <1>1, <1>2, <2>1, <2>2 DEF FindSteps, WriteSteps
<1>4. Toward(Tail(DescriptorSteps("EMPTY")), CloseSteps)
  BY <1>1, <1>2, Lists DEF DescriptorSteps
<1>5. Toward(Tail(DescriptorSteps("RDWRITE")), LockSteps)
  <2>1. <<Acquire(Files)>> \in Seq(SemSteps)
    BY Lists DEF Sems
  <2> QED
    BY <1>2, <2>1, Lists DEF DescriptorSteps
<1>6. Toward(Tail(DescriptorSteps("RDONLY")), CountSteps)
  BY <1>2, Lists DEF DescriptorSteps
<1>7. Toward(Tail(OwnSteps), CountSteps)
  BY <1>2, Lists DEF OwnSteps
<1>8. Tail(LockSteps) = OwnSteps
  <2>1. Begins("findOwn", OwnSteps)
    BY Lists
  <2>2. OwnSteps \in Seq(AnyStep)
    BY <2>1, BeginsFacts
  <2>3. Tail(LockSteps) = <<>> \o OwnSteps
    BY <1>1, DoIsSeq, <2>2 DEF LockSteps
  <2> QED
    BY <2>2, <2>3, Sequences
<1>9. Toward(OwnSteps, OwnSteps)
  BY Lists, BeginsFacts
<1>10. Toward(Tail(CountSteps), ReturnSteps) /\ Toward(Tail(CloseSteps), ReturnSteps)
  BY <1>1, <1>2, Lists DEF CountSteps, CloseSteps
<1>11. Toward(Tail(SlotSteps), FillSteps)
  BY <1>1, <1>2, Lists DEF SlotSteps
<1>12. Toward(Tail(FillSteps), ReturnSteps)
  BY <1>2, Lists DEF FillSteps
<1>13. Toward(Tail(CloseAllSteps), ReturnSteps)
  <2>1. <<Release(Files)>> \in Seq(SemSteps)
    BY Lists DEF Sems
  <2> QED
    BY <1>2, <2>1, Lists DEF CloseAllSteps
<1>14. Tail(ReturnSteps) = <<>>
  <2>1. Tail(ReturnSteps) = <<>> \o <<>>
    BY <1>1, DoIsSeq DEF ReturnSteps
  <2> QED
    BY <1>1, <2>1, Sequences
<1>15. ASSUME NEW s \in Sems
       PROVE  Toward(<<Release(s), Panic>>, PanicSteps)
  <2>1. <<Release(s)>> \in Seq(SemSteps)
    BY Lists
  <2>2. PanicSteps = <<Panic>>
    <3>1. Work("panic") \in AnyStep
      BY StepsDiffer
    <3>2. <<Work("panic")>> \in Seq(AnyStep)
      BY <1>1, <3>1, Sequences
    <3>3. <<>> \o <<>> = <<>>
      BY <1>1, Sequences
    <3> QED
      BY <3>2, <3>3, Sequences DEF PanicSteps, Do, Panic
  <2>3. <<Release(s), Panic>> = <<Release(s)>> \o <<Panic>>
    BY SMT
  <2> QED
    BY <2>1, <2>2, <2>3 DEF Toward
<1> QED
  BY <1>3, <1>4, <1>5, <1>6, <1>7, <1>8, <1>9, <1>10, <1>11, <1>12, <1>13, <1>14, <1>15

(* The calls, begun.                                                       *)
TwoHeld(s, v, w, rest) ==
  Holding(s, <<Work(v), Work(w)>>) \o rest
    = <<Acquire(s)>> \o Do(v, <<>>, Do(w, <<Release(s)>>, rest))

LEMMA HoldingTwo ==
  \A s \in Sems, v, w \in Works, rest \in Seq(AnyStep) : TwoHeld(s, v, w, rest)
<1> SUFFICES ASSUME NEW s \in Sems, NEW v \in Works, NEW w \in Works, NEW rest \in Seq(AnyStep)
             PROVE  TwoHeld(s, v, w, rest)
  OBVIOUS
<1>1. PICK a, b, c, d : a = <<Acquire(s)>> /\ b = <<Work(v)>> /\ c = <<Work(w)>> /\ d = <<Release(s)>>
  OBVIOUS
<1>2. a \in Seq(AnyStep) /\ b \in Seq(AnyStep) /\ c \in Seq(AnyStep) /\ d \in Seq(AnyStep)
  <2>1. /\ Acquire(s) \in AnyStep /\ Work(v) \in AnyStep
        /\ Work(w) \in AnyStep /\ Release(s) \in AnyStep
    BY StepsDiffer
  <2>2. \A x \in AnyStep : <<x>> \in Seq(AnyStep)
    BY Sequences
  <2> QED
    BY <1>1, <2>1, <2>2
<1>3. <<Work(v), Work(w)>> = b \o c
  BY <1>1, SMT
<1>4. ((a \o (b \o c)) \o d) \o rest = a \o (b \o (c \o (d \o rest)))
  <2>1. Cat(Cat(Cat(a, Cat(b, c)), d), rest) = Cat(a, Cat(b, Cat(c, Cat(d, rest))))
    BY <1>2, CatSteps
  <2> QED
    BY <2>1, Zenon DEF Cat
<1>5. c \o (d \o rest) \in Seq(AnyStep) /\ b \o (c \o (d \o rest)) \in Seq(AnyStep)
  BY <1>2, Sequences
<1>6. Do(w, d, rest) = c \o (d \o rest)
  BY <1>1 DEF Do
<1>7. Do(v, <<>>, Do(w, d, rest)) = b \o (c \o (d \o rest))
  BY <1>1, <1>5, <1>6, Sequences DEF Do
<1> QED
  BY <1>1, <1>3, <1>4, <1>7 DEF Holding, TwoHeld

LEMMA Started ==
  /\ \A mode \in Modes : Toward(OpenSteps(mode) \o <<Work("return")>>, FindSteps(mode))
  /\ Toward(OpenEmptySteps \o <<Work("return")>>, FindSteps("EMPTY"))
  /\ Toward(ForkSteps \o <<Work("return")>>, SlotSteps)
  /\ Toward(ExitSteps \o <<Work("return")>>, CloseAllSteps)
<1> /\ "return" \in Works /\ "panic" \in Works /\ "countDescriptor" \in Works /\ "close" \in Works
    /\ "findOwn" \in Works /\ "findLocked" \in Works /\ "setDescriptor" \in Works
    /\ "writeEntry" \in Works /\ "findEntry" \in Works /\ "fillSlot" \in Works
    /\ "findSlot" \in Works /\ "closeEntries" \in Works
  BY DEF Works
<1>1. Files \in Sems /\ Tasks \in Sems
  BY DEF Sems
<1>2. \A x \in AnyStep : <<x>> \in Seq(AnyStep)
  BY Sequences
<1>3. <<>> \in Seq(AnyStep) /\ \A s \in Seq(AnyStep) : <<>> \o s = s /\ s \o <<>> = s
  BY Sequences
<1>4. \A w \in Works : <<Work(w)>> \in Seq(AnyStep)
  BY <1>2, StepsDiffer
<1>5. \A w \in Works, r \in Seq(AnyStep) : Do(w, <<>>, r) = <<Work(w)>> \o r
  BY <1>3 DEF Do
<1>6. ReturnSteps = <<Work("return")>> /\ ReturnSteps \in Seq(AnyStep)
  <2>1. <<Work("return")>> \in Seq(AnyStep) /\ <<>> \o <<>> = <<>>
    BY <1>3, <1>4
  <2>2. <<Work("return")>> \o <<>> = <<Work("return")>>
    BY <1>3, <2>1
  <2> QED
    BY <2>1, <2>2 DEF ReturnSteps, Do
<1>7. \A w \in Works, r \in Seq(AnyStep) : <<Work(w)>> \o r \in Seq(AnyStep)
  BY <1>4, Sequences
<1>8. \A k \in Kinds : DescriptorSteps(k) \in Seq(AnyStep) /\ FindSteps(k) \in Seq(AnyStep)
  BY Lists, BeginsFacts
<1>9. /\ freePage \in Seq(AnyStep) /\ updateTaskState \in Seq(SemSteps)
      /\ \A s \in Sems : /\ <<Acquire(s)>> \in Seq(SemSteps) /\ <<Release(s)>> \in Seq(SemSteps)
                        /\ <<Acquire(s)>> \in Seq(AnyStep) /\ <<Release(s)>> \in Seq(AnyStep)
  <2>1. freePage \in Seq(AnyStep)
    BY Lists, StepsDiffer
  <2>2. \A s \in Sems : /\ <<Acquire(s)>> \in Seq(SemSteps) /\ <<Release(s)>> \in Seq(SemSteps)
                      /\ <<Acquire(s)>> \in Seq(AnyStep) /\ <<Release(s)>> \in Seq(AnyStep)
    BY Lists, StepsDiffer
  <2>3. <<>> \in Seq(SemSteps) /\ updateTaskState \in Seq(SemSteps)
    BY <1>1, <2>2, Sequences DEF updateTaskState, Holding
  <2> QED
    BY <2>1, <2>2, <2>3
(* What comes after an entry is inserted.                                  *)
<1>10. ASSUME NEW k \in Kinds
       PROVE  insertEntry \o DescriptorSteps(k) = <<Acquire(Files)>> \o FindSteps(k)
  <2>1. PICK v \in Works, w \in Works : v = "findEntry" /\ w = "writeEntry"
    OBVIOUS
  <2>2. TwoHeld(Files, v, w, DescriptorSteps(k))
    BY <1>1, <1>8, HoldingTwo
  <2> QED
    BY <2>1, <2>2 DEF TwoHeld, insertEntry, FindSteps, WriteSteps
<1>11. insertEntry \in Seq(AnyStep) /\ lockEntry \in Seq(AnyStep)
  <2>1. \A v, w \in Works : <<Work(v), Work(w)>> = <<Work(v)>> \o <<Work(w)>>
    BY SMT
  <2>2. \A v, w \in Works : <<Work(v), Work(w)>> \in Seq(AnyStep)
    BY <1>4, <1>7, <2>1
  <2>3. \A s \in Sems, q \in Seq(AnyStep) : Holding(s, q) \in Seq(AnyStep)
    BY <1>9, Sequences DEF Holding
  <2> QED
    BY <1>1, <2>2, <2>3 DEF insertEntry, lockEntry
<1>12. ASSUME NEW k \in Kinds
       PROVE  Toward(insertEntry \o DescriptorSteps(k), FindSteps(k))
  <2>1. <<Acquire(Files)>> \in Seq(SemSteps)
    BY <1>1, <1>9
  <2> QED
    BY <1>10, <2>1 DEF Toward
<1>13. ASSUME NEW mode \in Modes
       PROVE  Toward(OpenSteps(mode) \o <<Work("return")>>, FindSteps(mode))
  <2> DEFINE set == <<Work("setDescriptor")>>
             lock == IF mode = "RDWRITE" THEN lockEntry ELSE <<>>
             count == <<Work("countDescriptor")>>
  <2>1. set \in Seq(AnyStep) /\ lock \in Seq(AnyStep) /\ count \in Seq(AnyStep)
    BY <1>3, <1>4, <1>11
  <2>2. OpenSteps(mode) = (((insertEntry \o set) \o lock) \o freePage) \o count
    BY DEF OpenSteps
  <2>3. CountSteps = count \o ReturnSteps /\ CountSteps \in Seq(AnyStep)
    BY <1>3, <1>6, <1>7 DEF CountSteps, Do
  <2>4. DescriptorSteps(mode) = set \o (lock \o (freePage \o CountSteps))
    <3>1. freePage \o CountSteps \in Seq(AnyStep)
      BY <1>9, <2>3, Sequences
    <3>2. CASE mode = "RDONLY"
      BY <1>3, <3>1, <3>2 DEF DescriptorSteps, Do
    <3>3. CASE mode = "RDWRITE"
      <4>1. lockEntry \o (freePage \o CountSteps)
              = <<Acquire(Files)>> \o Do("findLocked", <<>>, Do("findOwn", <<Release(Files)>>, freePage \o CountSteps))
        <5>1. PICK v \in Works, w \in Works : v = "findLocked" /\ w = "findOwn"
          OBVIOUS
        <5>2. PICK rest \in Seq(AnyStep) : rest = freePage \o CountSteps
          BY <3>1
        <5>3. TwoHeld(Files, v, w, rest)
          BY <1>1, HoldingTwo
        <5> QED
          BY <5>1, <5>2, <5>3 DEF TwoHeld, lockEntry
      <4>2. <<Release(Files)>> \o (freePage \o CountSteps) = (<<Release(Files)>> \o freePage) \o CountSteps
        <5>1. PICK release \in Seq(AnyStep) : release = <<Release(Files)>>
          BY <1>1, <1>9
        <5>2. freePage \in Seq(AnyStep) /\ CountSteps \in Seq(AnyStep)
          BY <1>9, <2>3
        <5>3. Cat(release, Cat(freePage, CountSteps)) = Cat(Cat(release, freePage), CountSteps)
          BY <5>2, CatSteps
        <5> QED
          BY <5>1, <5>3, Zenon DEF Cat
      <4>3. Do("findOwn", <<Release(Files)>>, freePage \o CountSteps) = OwnSteps
        BY <4>2 DEF OwnSteps, Do
      <4> QED
        BY <3>3, <4>1, <4>3 DEF DescriptorSteps, Do, LockSteps
    <3> QED
      BY <3>2, <3>3 DEF Modes
  <2> HIDE DEF set, lock, count
  <2>5. ((((insertEntry \o set) \o lock) \o freePage) \o count) \o ReturnSteps
          = insertEntry \o (set \o (lock \o (freePage \o (count \o ReturnSteps))))
    <3>1. Cat(Cat(Cat(Cat(Cat(insertEntry, set), lock), freePage), count), ReturnSteps)
            = Cat(insertEntry, Cat(set, Cat(lock, Cat(freePage, Cat(count, ReturnSteps)))))
      <4>1. /\ insertEntry \in Seq(AnyStep) /\ set \in Seq(AnyStep) /\ lock \in Seq(AnyStep)
            /\ freePage \in Seq(AnyStep) /\ count \in Seq(AnyStep) /\ ReturnSteps \in Seq(AnyStep)
        BY <1>6, <1>9, <1>11, <2>1
      <4> HIDE DEF set, lock, count
      <4>2. Cat(count, ReturnSteps) \in Seq(AnyStep)
        BY <4>1, CatSteps
      <4>3. Cat(freePage, Cat(count, ReturnSteps)) \in Seq(AnyStep)
        BY <4>1, <4>2, CatSteps
      <4>4. Cat(Cat(Cat(insertEntry, set), lock), freePage) \in Seq(AnyStep)
        BY <4>1, CatSteps
      <4>5. Cat(Cat(Cat(Cat(Cat(insertEntry, set), lock), freePage), count), ReturnSteps)
              = Cat(Cat(Cat(Cat(insertEntry, set), lock), freePage), Cat(count, ReturnSteps))
        BY <4>1, <4>4, CatSteps
      <4>6. Cat(Cat(Cat(Cat(insertEntry, set), lock), freePage), Cat(count, ReturnSteps))
              = Cat(Cat(Cat(insertEntry, set), lock), Cat(freePage, Cat(count, ReturnSteps)))
        <5>1. Cat(Cat(insertEntry, set), lock) \in Seq(AnyStep)
          BY <4>1, CatSteps
        <5> QED
          BY <4>1, <4>2, <5>1, CatSteps
      <4>7. Cat(Cat(Cat(insertEntry, set), lock), Cat(freePage, Cat(count, ReturnSteps)))
              = Cat(insertEntry, Cat(set, Cat(lock, Cat(freePage, Cat(count, ReturnSteps)))))
        BY <4>1, <4>3, CatSteps
      <4> QED
        BY <4>5, <4>6, <4>7
    <3> QED
      BY <3>1, Zenon DEF Cat
  <2>6. OpenSteps(mode) \o ReturnSteps = insertEntry \o DescriptorSteps(mode)
    BY <2>2, <2>3, <2>4, <2>5, Zenon
  <2> QED
    BY <1>6, <1>12, <2>6, Zenon DEF Kinds
<1>14. Toward(OpenEmptySteps \o <<Work("return")>>, FindSteps("EMPTY"))
  <2>1. <<Work("setDescriptor"), Work("close")>> = <<Work("setDescriptor")>> \o <<Work("close")>>
    BY SMT
  <2>2. CloseSteps = <<Work("close")>> \o ReturnSteps /\ CloseSteps \in Seq(AnyStep)
    BY <1>3, <1>6, <1>7 DEF CloseSteps, Do
  <2>3. DescriptorSteps("EMPTY") = <<Work("setDescriptor")>> \o CloseSteps
    BY <1>5, <2>2 DEF DescriptorSteps
  <2>4. <<Work("setDescriptor"), Work("close")>> \in Seq(AnyStep)
    BY <1>4, <1>7, <2>1
  <2> DEFINE set == <<Work("setDescriptor")>>
             close_ == <<Work("close")>>
  <2>5. OpenEmptySteps \o ReturnSteps = insertEntry \o (set \o (close_ \o ReturnSteps))
    <3>1. /\ set \in Seq(AnyStep) /\ close_ \in Seq(AnyStep)
          /\ insertEntry \in Seq(AnyStep) /\ ReturnSteps \in Seq(AnyStep)
      BY <1>4, <1>6, <1>11
    <3>2. OpenEmptySteps = insertEntry \o (set \o close_)
      BY <2>1 DEF OpenEmptySteps
    <3> HIDE DEF set, close_
    <3>3. Cat(Cat(insertEntry, Cat(set, close_)), ReturnSteps) = Cat(insertEntry, Cat(set, Cat(close_, ReturnSteps)))
      BY <3>1, CatSteps
    <3> QED
      BY <3>2, <3>3, Zenon DEF Cat
  <2>6. OpenEmptySteps \o ReturnSteps = insertEntry \o DescriptorSteps("EMPTY")
    BY <2>2, <2>3, <2>5
  <2> QED
    BY <1>6, <1>12, <2>6 DEF Kinds
<1>15. Toward(ForkSteps \o <<Work("return")>>, SlotSteps)
  <2> DEFINE uts == updateTaskState \o updateTaskState
  <2>1. uts \in Seq(SemSteps) /\ uts \in Seq(AnyStep) /\ updateTaskState \in Seq(AnyStep)
    BY <1>9, StepsDiffer, Sequences
  <2>2. uts \o ReturnSteps \in Seq(AnyStep)
    BY <1>6, <2>1, Sequences
  <2>3. initializeTask \in Seq(AnyStep)
    <3>1. <<Work("findSlot"), Work("fillSlot")>> = <<Work("findSlot")>> \o <<Work("fillSlot")>>
      BY SMT
    <3>2. <<Work("findSlot"), Work("fillSlot")>> \in Seq(AnyStep)
      BY <1>4, <1>7, <3>1
    <3> QED
      BY <1>1, <1>9, <3>2, Sequences DEF initializeTask, Holding
  <2>5. ForkSteps \o ReturnSteps = initializeTask \o (uts \o ReturnSteps)
    <3>1. Cat(Cat(Cat(initializeTask, updateTaskState), updateTaskState), ReturnSteps)
            = Cat(initializeTask, Cat(Cat(updateTaskState, updateTaskState), ReturnSteps))
      <4>1. /\ initializeTask \in Seq(AnyStep) /\ updateTaskState \in Seq(AnyStep)
            /\ ReturnSteps \in Seq(AnyStep)
        BY <1>6, <2>1, <2>3
      <4> QED
        BY <4>1, CatSteps
    <3> QED
      BY <3>1, Zenon DEF Cat, ForkSteps
  <2>6. initializeTask \o (uts \o ReturnSteps)
          = <<Acquire(Tasks)>> \o Do("findSlot", <<>>, Do("fillSlot", <<Release(Tasks)>>, uts \o ReturnSteps))
    <3>1. PICK v \in Works, w \in Works : v = "findSlot" /\ w = "fillSlot"
      OBVIOUS
    <3>2. PICK rest \in Seq(AnyStep) : rest = uts \o ReturnSteps
      BY <2>2
    <3>3. TwoHeld(Tasks, v, w, rest)
      BY <1>1, HoldingTwo
    <3> QED
      BY <3>1, <3>2, <3>3 DEF TwoHeld, initializeTask
  <2>7. <<Release(Tasks)>> \o (uts \o ReturnSteps) = (<<Release(Tasks)>> \o uts) \o ReturnSteps
    <3>1. PICK release \in Seq(AnyStep) : release = <<Release(Tasks)>>
      BY <1>1, <1>9
    <3>2. uts \in Seq(AnyStep) /\ ReturnSteps \in Seq(AnyStep)
      BY <1>6, <2>1
    <3> HIDE DEF uts
    <3>3. Cat(release, Cat(uts, ReturnSteps)) = Cat(Cat(release, uts), ReturnSteps)
      BY <3>2, CatSteps
    <3> QED
      BY <3>1, <3>3, Zenon DEF Cat
  <2>8. Do("fillSlot", <<Release(Tasks)>>, uts \o ReturnSteps) = FillSteps
    BY <2>7 DEF FillSteps, Do
  <2>9. ForkSteps \o ReturnSteps = <<Acquire(Tasks)>> \o SlotSteps
    BY <2>5, <2>6, <2>8 DEF SlotSteps
  <2> QED
    BY <1>1, <1>6, <1>9, <2>9 DEF Toward
<1>16. Toward(ExitSteps \o <<Work("return")>>, CloseAllSteps)
  <2> DEFINE uts == updateTaskState \o updateTaskState
             one == <<Work("closeEntries")>>
  <2>1. /\ uts \in Seq(SemSteps) /\ uts \in Seq(AnyStep) /\ one \in Seq(AnyStep)
        /\ <<Acquire(Files)>> \in Seq(SemSteps) /\ <<Acquire(Files)>> \in Seq(AnyStep)
        /\ <<Release(Files)>> \in Seq(AnyStep)
    BY <1>1, <1>4, <1>9, StepsDiffer, Sequences
  <2>2. ExitSteps = uts \o ((<<Acquire(Files)>> \o one) \o <<Release(Files)>>)
    BY DEF ExitSteps, closeAll, Holding
  <2>3. CloseAllSteps = one \o (<<Release(Files)>> \o ReturnSteps) /\ CloseAllSteps \in Seq(AnyStep)
    <3>1. CloseAllSteps \in Seq(AnyStep)
      BY Lists, BeginsFacts
    <3> QED
      BY <3>1 DEF CloseAllSteps, Do
  <2> HIDE DEF uts, one
  <2>4. uts \o <<Acquire(Files)>> \in Seq(SemSteps)
    BY <2>1, Sequences
  <2>5. (uts \o ((<<Acquire(Files)>> \o one) \o <<Release(Files)>>)) \o ReturnSteps
          = (uts \o <<Acquire(Files)>>) \o (one \o (<<Release(Files)>> \o ReturnSteps))
    <3>1. PICK acquire \in Seq(AnyStep), release \in Seq(AnyStep) :
            acquire = <<Acquire(Files)>> /\ release = <<Release(Files)>>
      BY <2>1
    <3>2. uts \in Seq(AnyStep) /\ one \in Seq(AnyStep) /\ ReturnSteps \in Seq(AnyStep)
      BY <1>6, <2>1
    <3>3. Cat(Cat(uts, Cat(Cat(acquire, one), release)), ReturnSteps)
            = Cat(Cat(uts, acquire), Cat(one, Cat(release, ReturnSteps)))
      BY <3>2, CatSteps
    <3> QED
      BY <3>1, <3>3, Zenon DEF Cat
  <2>6. ExitSteps \o ReturnSteps = (uts \o <<Acquire(Files)>>) \o CloseAllSteps
    BY <2>2, <2>3, <2>5, Zenon
  <2> QED
    BY <1>6, <2>4, <2>6, Zenon DEF Toward
<1> QED
  BY <1>13, <1>14, <1>15, <1>16

-----------------------------------------------------------------------------
(* What is known of the tables when a call has got to a piece of work, in  *)
(* terms of the tables it began with.                                      *)
OldOft == before[1]
OldFd == before[2]
OldNextFd == before[3]
OldFree == {e \in Entries : OldOft[e].openedByPid = 0}

Untouched == oft = OldOft /\ fd = OldFd /\ nextFd = OldNextFd

Opening(k) ==
  /\ k \in Kinds
  /\ OldNextFd[pid] \in Fds
  /\ inode \in IF k = "EMPTY" THEN {EMPTY_FILE} ELSE Inodes
FirstFree == IsFirst(avail, OldFree) /\ ~(OldFree \subseteq {MAX_SYSTEM_OPEN_FILES})
Inserted  == [OldOft EXCEPT ![avail] = Opened(pid, inode)]
Descriptor == [OldFd EXCEPT ![pid][OldNextFd[pid]] = avail]
Locked(k) == IF k = "RDWRITE" THEN lockFile(Inserted, pid, inode) ELSE Inserted

Finding(k) ==
  /\ Toward(todo, FindSteps(k)) /\ Untouched
  /\ at \in Entries /\ \A e \in Entries : e < at => oft[e].openedByPid # 0
Writing(k) == Toward(todo, WriteSteps(k)) /\ Untouched /\ FirstFree
Describing(k) ==
  Toward(todo, DescriptorSteps(k)) /\ FirstFree /\ oft = Inserted /\ fd = OldFd /\ nextFd = OldNextFd
Described == FirstFree /\ fd = Descriptor /\ nextFd = OldNextFd
LookingForLock(k) ==
  /\ k = "RDWRITE" /\ Toward(todo, LockSteps) /\ Described /\ oft = Inserted
  /\ at \in Entries
  /\ \A e \in Entries : e < at => ~(oft[e].inode = inode /\ oft[e].lockedForWriting)
LookingForOwn(k) ==
  /\ k = "RDWRITE" /\ Toward(todo, OwnSteps) /\ Described /\ oft = Inserted
  /\ fileAvailableToBeLocked(oft, inode)
  /\ at \in Entries
  /\ \A e \in Entries : e < at => ~(oft[e].inode = inode /\ oft[e].openedByPid = pid)
Counting(k) == k \in Modes /\ Toward(todo, CountSteps) /\ Described /\ oft = Locked(k)
Closing(k)  == k = "EMPTY" /\ Toward(todo, CloseSteps) /\ Described /\ oft = Inserted

AnOpen(k) ==
  \/ Finding(k) \/ Writing(k) \/ Describing(k)
  \/ LookingForLock(k) \/ LookingForOwn(k) \/ Counting(k) \/ Closing(k)

FindingSlot ==
  Toward(todo, SlotSteps) /\ Untouched /\ at \in Pids
FillingSlot ==
  Toward(todo, FillSteps) /\ Untouched /\ avail \in Pids /\ OldNextFd[avail] = 0

ClosingAll ==
  /\ Toward(todo, CloseAllSteps) /\ fd = OldFd /\ nextFd = OldNextFd
  /\ at \in Entries /\ (todo = CloseAllSteps \/ at = 1)
  /\ oft = [e \in Entries |-> IF e < at /\ OldOft[e].openedByPid = pid THEN NoEntry ELSE OldOft[e]]

DoneOpen(k) ==
  /\ k \in Modes /\ Opening(k) /\ FirstFree
  /\ oft = Locked(k) /\ fd = Descriptor /\ nextFd = [OldNextFd EXCEPT ![pid] = @ + 1]
DoneOpenEmpty ==
  /\ Opening("EMPTY") /\ FirstFree /\ nextFd = OldNextFd
  /\ oft = CloseEntry(Inserted, OldNextFd[pid], pid, Descriptor)
  /\ fd = CloseFd(OldNextFd[pid], pid, Descriptor)
DoneFork ==
  /\ avail \in Pids /\ OldNextFd[avail] = 0
  /\ oft = OldOft /\ fd = OldFd /\ nextFd = [OldNextFd EXCEPT ![avail] = STD]
DoneExit ==
  oft = closeAllFiles(OldOft, pid) /\ fd = OldFd /\ nextFd = OldNextFd
Returning ==
  /\ Toward(todo, ReturnSteps)
  /\ (\E k \in Modes : DoneOpen(k)) \/ DoneOpenEmpty \/ DoneFork \/ DoneExit

Panicking == Toward(todo, PanicSteps)

InCall ==
  /\ before \in [Entries -> Entry] \X [Pids -> [Fds -> Entries \union {0}]] \X [Pids -> 0 .. MAX_FILE_DESCRIPTORS]
  /\ pid \in Callers /\ OldNextFd[pid] >= STD
  /\ \/ \E k \in Kinds : Opening(k) /\ AnOpen(k)
     \/ FindingSlot \/ FillingSlot \/ ClosingAll \/ Returning \/ Panicking

StepsInv ==
  /\ IInv
  /\ sem \in [Sems -> {0, 1}]
  /\ pid \in Callers \union {0} /\ inode \in Inodes \union {0, EMPTY_FILE}
  /\ at \in Entries \union Pids
  /\ avail \in Entries \union Pids \union {0}
  /\ \/ todo = <<>> /\ pid = 0 /\ at = 1
     \/ InCall

-----------------------------------------------------------------------------
LEMMA SomeNumbers ==
  /\ 1 \in Entries /\ 1 \in Pids /\ 1 # MAX_SYSTEM_OPEN_FILES
  /\ \A e \in Entries : e \in Int /\ ~(e < 1) /\ e <= MAX_SYSTEM_OPEN_FILES
  /\ \A e \in Entries : e # MAX_SYSTEM_OPEN_FILES => e + 1 \in Entries
  /\ \A n \in Pids : n # MAX_PROCESSES => n + 1 \in Pids
  /\ Callers \subseteq Pids
  /\ Files \in Sems /\ Tasks \in Sems /\ Frames \in Sems
<1>1. 1 \in Entries /\ 1 \in Pids /\ 1 # MAX_SYSTEM_OPEN_FILES
  BY ConstantsAssumption, SMT DEF Entries, Pids, STD
<1>2. \A e \in Entries : e \in Int /\ ~(e < 1) /\ e <= MAX_SYSTEM_OPEN_FILES
  BY ConstantsAssumption, SMT DEF Entries
<1>3. \A e \in Entries : e # MAX_SYSTEM_OPEN_FILES => e + 1 \in Entries
  BY ConstantsAssumption, SMT DEF Entries
<1>4. \A n \in Pids : n # MAX_PROCESSES => n + 1 \in Pids
  BY ConstantsAssumption, SMT DEF Pids, KERNEL_OWNED
<1> QED
  BY <1>1, <1>2, <1>3, <1>4 DEF Callers, Sems

LEMMA TowardNotEmpty ==
  ASSUME NEW t, NEW rest, NEW w, Begins(w, rest), Toward(t, rest)
  PROVE  t # <<>>
<1>1. PICK q \in Seq(SemSteps) : t = q \o rest
  BY DEF Toward
<1>2. PICK r \in Seq(AnyStep) : r = rest /\ r # <<>>
  BY BeginsFacts
<1>3. CASE q = <<>>
  BY <1>1, <1>2, <1>3, Sequences
<1>4. CASE q # <<>>
  <2>1. PICK a \in SemSteps, u \in Seq(SemSteps) : q = <<a>> \o u
    <3>1. Head(q) \in SemSteps /\ Tail(q) \in Seq(SemSteps) /\ q = <<Head(q)>> \o Tail(q)
      BY <1>4, Sequences
    <3> QED
      BY <3>1, Zenon
  <2>2. PICK c \in Seq(AnyStep) : c = <<a>> /\ a \in AnyStep
    BY StepsDiffer, Sequences
  <2>3. u \in Seq(AnyStep)
    BY StepsDiffer
  <2>4. Cat(Cat(c, u), r) = Cat(c, Cat(u, r)) /\ Cat(u, r) \in Seq(AnyStep)
    BY <2>3, CatSteps
  <2>5. t = <<a>> \o (u \o r) /\ u \o r \in Seq(AnyStep)
    BY <1>1, <1>2, <2>1, <2>2, <2>4 DEF Cat
  <2> QED
    BY <2>2, <2>5, Sequences, SMTT(40)
<1> QED
  BY <1>3, <1>4

LEMMA CallIsBusy == InCall => todo # <<>>
<1> SUFFICES ASSUME InCall PROVE todo # <<>>
  OBVIOUS
<1>1. ASSUME NEW k \in Kinds, AnOpen(k) PROVE todo # <<>>
  <2>1. PICK rest, w : Begins(w, rest) /\ Toward(todo, rest)
    BY <1>1, Lists DEF AnOpen, Finding, Writing, Describing, LookingForLock, LookingForOwn, Counting, Closing
  <2> QED
    BY <2>1, TowardNotEmpty
<1>2. ASSUME FindingSlot \/ FillingSlot \/ ClosingAll \/ Returning \/ Panicking PROVE todo # <<>>
  <2>1. PICK rest, w : Begins(w, rest) /\ Toward(todo, rest)
    BY <1>2, Lists DEF FindingSlot, FillingSlot, ClosingAll, Returning, Panicking
  <2> QED
    BY <2>1, TowardNotEmpty
<1> QED
  BY <1>1, <1>2 DEF InCall

(* Where a call is that is about to do a piece of work.                    *)
LEMMA AtWork ==
  ASSUME InCall, NEW w, Head(todo) = Work(w)
  PROVE  /\ w = "findEntry" => \E k \in Kinds : Opening(k) /\ Finding(k) /\ todo = FindSteps(k)
         /\ w = "writeEntry" => \E k \in Kinds : Opening(k) /\ Writing(k) /\ todo = WriteSteps(k)
         /\ w = "setDescriptor" =>
              \E k \in Kinds : Opening(k) /\ Describing(k) /\ todo = DescriptorSteps(k)
         /\ w = "findLocked" => Opening("RDWRITE") /\ LookingForLock("RDWRITE") /\ todo = LockSteps
         /\ w = "findOwn" => Opening("RDWRITE") /\ LookingForOwn("RDWRITE") /\ todo = OwnSteps
         /\ w = "countDescriptor" =>
              \E k \in Modes : Opening(k) /\ Counting(k) /\ todo = CountSteps
         /\ w = "close" => Opening("EMPTY") /\ Closing("EMPTY") /\ todo = CloseSteps
         /\ w = "findSlot" => FindingSlot /\ todo = SlotSteps
         /\ w = "fillSlot" => FillingSlot /\ todo = FillSteps
         /\ w = "closeEntries" => ClosingAll /\ todo = CloseAllSteps
         /\ w = "return" => Returning /\ todo = ReturnSteps
<1> DEFINE Here(k) ==
      \/ w = "findEntry" /\ Finding(k) /\ todo = FindSteps(k)
      \/ w = "writeEntry" /\ Writing(k) /\ todo = WriteSteps(k)
      \/ w = "setDescriptor" /\ Describing(k) /\ todo = DescriptorSteps(k)
      \/ w = "findLocked" /\ k = "RDWRITE" /\ LookingForLock(k) /\ todo = LockSteps
      \/ w = "findOwn" /\ k = "RDWRITE" /\ LookingForOwn(k) /\ todo = OwnSteps
      \/ w = "countDescriptor" /\ k \in Modes /\ Counting(k) /\ todo = CountSteps
      \/ w = "close" /\ k = "EMPTY" /\ Closing(k) /\ todo = CloseSteps
<1>1. ASSUME NEW k \in Kinds, AnOpen(k) PROVE Here(k)
  <2>1. CASE Finding(k)
    <3>1. Begins("findEntry", FindSteps(k)) /\ Toward(todo, FindSteps(k))
      BY <2>1, Lists DEF Finding
    <3>2. w = "findEntry" /\ todo = FindSteps(k)
      BY <3>1, TowardWork
    <3> QED
      BY <2>1, <3>2
  <2>2. CASE Writing(k)
    <3>1. Begins("writeEntry", WriteSteps(k)) /\ Toward(todo, WriteSteps(k))
      BY <2>2, Lists DEF Writing
    <3>2. w = "writeEntry" /\ todo = WriteSteps(k)
      BY <3>1, TowardWork
    <3> QED
      BY <2>2, <3>2
  <2>3. CASE Describing(k)
    <3>1. Begins("setDescriptor", DescriptorSteps(k)) /\ Toward(todo, DescriptorSteps(k))
      BY <2>3, Lists DEF Describing
    <3>2. w = "setDescriptor" /\ todo = DescriptorSteps(k)
      BY <3>1, TowardWork
    <3> QED
      BY <2>3, <3>2
  <2>4. CASE LookingForLock(k)
    <3>1. k = "RDWRITE" /\ Begins("findLocked", LockSteps) /\ Toward(todo, LockSteps)
      BY <2>4, Lists DEF LookingForLock
    <3>2. w = "findLocked" /\ todo = LockSteps
      BY <3>1, TowardWork
    <3> QED
      BY <2>4, <3>1, <3>2
  <2>5. CASE LookingForOwn(k)
    <3>1. k = "RDWRITE" /\ Begins("findOwn", OwnSteps) /\ Toward(todo, OwnSteps)
      BY <2>5, Lists DEF LookingForOwn
    <3>2. w = "findOwn" /\ todo = OwnSteps
      BY <3>1, TowardWork
    <3> QED
      BY <2>5, <3>1, <3>2
  <2>6. CASE Counting(k)
    <3>1. k \in Modes /\ Begins("countDescriptor", CountSteps) /\ Toward(todo, CountSteps)
      BY <2>6, Lists DEF Counting
    <3>2. w = "countDescriptor" /\ todo = CountSteps
      BY <3>1, TowardWork
    <3> QED
      BY <2>6, <3>1, <3>2
  <2>7. CASE Closing(k)
    <3>1. k = "EMPTY" /\ Begins("close", CloseSteps) /\ Toward(todo, CloseSteps)
      BY <2>7, Lists DEF Closing
    <3>2. w = "close" /\ todo = CloseSteps
      BY <3>1, TowardWork
    <3> QED
      BY <2>7, <3>1, <3>2
  <2> QED
    BY <1>1, <2>1, <2>2, <2>3, <2>4, <2>5, <2>6, <2>7 DEF AnOpen
<1>2. ASSUME FindingSlot PROVE w = "findSlot" /\ todo = SlotSteps
  BY <1>2, Lists, TowardWork DEF FindingSlot
<1>3. ASSUME FillingSlot PROVE w = "fillSlot" /\ todo = FillSteps
  BY <1>3, Lists, TowardWork DEF FillingSlot
<1>4. ASSUME ClosingAll PROVE w = "closeEntries" /\ todo = CloseAllSteps
  BY <1>4, Lists, TowardWork DEF ClosingAll
<1>5. ASSUME Returning PROVE w = "return" /\ todo = ReturnSteps
  BY <1>5, Lists, TowardWork DEF Returning
<1>6. ASSUME Panicking PROVE w = "panic" /\ todo = PanicSteps
  BY <1>6, Lists, TowardWork DEF Panicking
<1>7. \/ \E k \in Kinds : Opening(k) /\ Here(k)
      \/ FindingSlot /\ w = "findSlot" /\ todo = SlotSteps
      \/ FillingSlot /\ w = "fillSlot" /\ todo = FillSteps
      \/ ClosingAll /\ w = "closeEntries" /\ todo = CloseAllSteps
      \/ Returning /\ w = "return" /\ todo = ReturnSteps
      \/ w = "panic"
  BY <1>1, <1>2, <1>3, <1>4, <1>5, <1>6 DEF InCall
<1> QED
  BY <1>7 DEF Modes, Kinds

LEMMA SameTables ==
  ASSUME IInv, UNCHANGED ovars
  PROVE  IInv' /\ oft' = oft /\ fd' = fd /\ nextFd' = nextFd /\ Callers' = Callers
<1>1. oft' = oft /\ fd' = fd /\ nextFd' = nextFd
  BY DEF ovars
<1> QED
  BY <1>1, NextIInv DEF Callers

LEMMA StepsInitInv == StepsInit => StepsInv
<1> SUFFICES ASSUME StepsInit PROVE StepsInv
  OBVIOUS
<1>1. IInv
  BY InitIInv DEF StepsInit
<1>2. sem \in [Sems -> {0, 1}]
  BY DEF StepsInit, Sems
<1> QED
  BY <1>1, <1>2, SomeNumbers DEF StepsInit, StepsInv

LEMMA BeginInv ==
  ASSUME StepsInv, NEW p \in Callers, BeginCall(p)
  PROVE  StepsInv'
<1>1. todo = <<>> /\ pid = 0 /\ at = 1 /\ IInv
  BY CallIsBusy DEF StepsInv, BeginCall, Begin
<1>2. /\ pid' = p /\ before' = ovars /\ UNCHANGED ovars
      /\ sem' = sem /\ at' = 1 /\ avail' = avail /\ inode' \in Inodes \union {0, EMPTY_FILE}
  BY <1>1, Zenon DEF BeginCall, Begin
<1>3. IInv' /\ oft' = oft /\ fd' = fd /\ nextFd' = nextFd /\ Callers' = Callers
  BY <1>1, <1>2, SameTables
<1>4. OldOft' = oft' /\ OldFd' = fd' /\ OldNextFd' = nextFd'
  BY <1>2, <1>3 DEF OldOft, OldFd, OldNextFd, ovars
<1>5. before' \in [Entries -> Entry] \X [Pids -> [Fds -> Entries \union {0}]] \X [Pids -> 0 .. MAX_FILE_DESCRIPTORS]
  BY <1>1, <1>2 DEF IInv, TypeOK, ovars
<1>6. pid' \in Callers' /\ p \in Pids /\ OldNextFd'[pid'] >= STD
  BY <1>2, <1>3, <1>4, SomeNumbers DEF Callers
<1>7. Untouched'
  BY <1>4 DEF Untouched
<1>8. ASSUME NEW k \in Kinds, Toward(todo', FindSteps(k)), ~AtFdLimit(p),
             inode' \in IF k = "EMPTY" THEN {EMPTY_FILE} ELSE Inodes
      PROVE  Opening(k)' /\ Finding(k)'
  <2>1. nextFd[p] \in Fds
    BY <1>1, <1>6, <1>8, Numbers, SMT DEF IInv, TypeOK, AtFdLimit, Callers
  <2>2. Opening(k)'
    BY <1>2, <1>3, <1>4, <1>8, <2>1 DEF Opening
  <2>3. Finding(k)'
    BY <1>2, <1>7, <1>8, SomeNumbers DEF Finding
  <2> QED
    BY <2>2, <2>3
<1>9. InCall'
  <2>1. CASE \E i \in Inodes, mode \in Modes : ~AtFdLimit(p) /\ Begin(p, i, OpenSteps(mode))
    <3>1. PICK i \in Inodes, mode \in Modes : ~AtFdLimit(p) /\ Begin(p, i, OpenSteps(mode))
      BY <2>1
    <3>2. Toward(todo', FindSteps(mode)) /\ inode' = i
      BY <3>1, Started DEF Begin
    <3>3. Opening(mode)' /\ Finding(mode)'
      BY <1>8, <3>1, <3>2 DEF Kinds, Modes
    <3> QED
      BY <1>5, <1>6, <3>3 DEF InCall, AnOpen, Kinds
  <2>2. CASE ~AtFdLimit(p) /\ Begin(p, EMPTY_FILE, OpenEmptySteps)
    <3>1. Toward(todo', FindSteps("EMPTY")) /\ inode' = EMPTY_FILE
      BY <2>2, Started DEF Begin
    <3>2. Opening("EMPTY")' /\ Finding("EMPTY")'
      BY <1>8, <2>2, <3>1 DEF Kinds
    <3> QED
      BY <1>5, <1>6, <3>2 DEF InCall, AnOpen, Kinds
  <2>3. CASE Begin(p, 0, ForkSteps)
    <3>1. Toward(todo', SlotSteps)
      BY <2>3, Started DEF Begin
    <3>2. FindingSlot'
      BY <1>2, <1>7, <3>1, SomeNumbers DEF FindingSlot
    <3> QED
      BY <1>5, <1>6, <3>2 DEF InCall
  <2>4. CASE Begin(p, 0, ExitSteps)
    <3>1. Toward(todo', CloseAllSteps)
      BY <2>4, Started DEF Begin
    <3>2. oft \in [Entries -> Entry]
      BY <1>1 DEF IInv, TypeOK
    <3>3. oft = [e \in Entries |-> IF e < 1 /\ oft[e].openedByPid = p THEN NoEntry ELSE oft[e]]
      BY <3>2, SomeNumbers
    <3>4. ClosingAll'
      BY <1>2, <1>3, <1>4, <3>1, <3>3, SomeNumbers DEF ClosingAll
    <3> QED
      BY <1>5, <1>6, <3>4 DEF InCall
  <2> QED
    BY <2>1, <2>2, <2>3, <2>4 DEF BeginCall
<1> QED
  BY <1>2, <1>3, <1>6, <1>9, SomeNumbers DEF StepsInv

(* Semaphores change nothing that the invariant speaks of.                 *)
LEMMA QuietStep ==
  ASSUME IInv, InCall, UNCHANGED ovars, UNCHANGED call, avail' = avail,
         \/ todo' = todo /\ at' = at
         \/ Head(todo) \in SemSteps /\ todo' = Tail(todo) /\ at' = 1
  PROVE  InCall'
<1>2. pid' = pid /\ inode' = inode /\ before' = before /\ avail' = avail
  BY DEF call
<1>3. oft' = oft /\ fd' = fd /\ nextFd' = nextFd /\ Callers' = Callers
  BY SameTables
<1>4. OldOft' = OldOft /\ OldFd' = OldFd /\ OldNextFd' = OldNextFd
  BY <1>2 DEF OldOft, OldFd, OldNextFd
<1>6. \/ todo' = todo /\ at' = at
      \/ Head(todo) \in SemSteps /\ todo' = Tail(todo) /\ at' = 1
  OBVIOUS
<1>7. /\ Untouched => Untouched'
      /\ FirstFree => FirstFree'
      /\ Inserted' = Inserted /\ Descriptor' = Descriptor
      /\ \A k : Locked(k)' = Locked(k) /\ (Opening(k) => Opening(k)')
  BY <1>2, <1>3, <1>4 DEF Untouched, FirstFree, OldFree, Inserted, Descriptor, Locked, Opening
<1>8. Described => Described'
  BY <1>2, <1>3, <1>4, <1>7 DEF Described
<1>9. ASSUME NEW rest, NEW w, Begins(w, rest), Toward(todo, rest)
      PROVE  Toward(todo', rest)
  BY <1>6, <1>9, TowardSemaphore
<1>10. ASSUME NEW k \in Kinds, AnOpen(k) PROVE AnOpen(k)'
  <2>1. CASE Finding(k)
    <3>1. Toward(todo', FindSteps(k))
      BY <1>9, <2>1, Lists DEF Finding
    <3>2. Finding(k)'
      BY <1>2, <1>3, <1>6, <1>7, <2>1, <3>1, SomeNumbers DEF Finding
    <3> QED
      BY <3>2 DEF AnOpen
  <2>2. CASE Writing(k)
    BY <1>7, <1>9, <2>2, Lists DEF Writing, AnOpen
  <2>3. CASE Describing(k)
    BY <1>3, <1>4, <1>7, <1>9, <2>3, Lists DEF Describing, AnOpen
  <2>4. CASE LookingForLock(k)
    <3>1. Toward(todo', LockSteps)
      BY <1>9, <2>4, Lists DEF LookingForLock
    <3>2. LookingForLock(k)'
      BY <1>2, <1>3, <1>6, <1>7, <1>8, <2>4, <3>1, SomeNumbers DEF LookingForLock
    <3> QED
      BY <3>2 DEF AnOpen
  <2>5. CASE LookingForOwn(k)
    <3>1. Toward(todo', OwnSteps)
      BY <1>9, <2>5, Lists DEF LookingForOwn
    <3>2. fileAvailableToBeLocked(oft, inode)' = fileAvailableToBeLocked(oft, inode)
      BY <1>2, <1>3 DEF fileAvailableToBeLocked
    <3>3. LookingForOwn(k)'
      BY <1>2, <1>3, <1>6, <1>7, <1>8, <2>5, <3>1, <3>2, SomeNumbers DEF LookingForOwn
    <3> QED
      BY <3>3 DEF AnOpen
  <2>6. CASE Counting(k)
    BY <1>3, <1>7, <1>8, <1>9, <2>6, Lists DEF Counting, AnOpen
  <2>7. CASE Closing(k)
    BY <1>3, <1>7, <1>8, <1>9, <2>7, Lists DEF Closing, AnOpen
  <2> QED
    BY <1>10, <2>1, <2>2, <2>3, <2>4, <2>5, <2>6, <2>7 DEF AnOpen
<1>11. FindingSlot => FindingSlot'
  BY <1>6, <1>7, <1>9, Lists, SomeNumbers DEF FindingSlot
<1>12. FillingSlot => FillingSlot'
  BY <1>2, <1>4, <1>7, <1>9, Lists DEF FillingSlot
<1>13. ClosingAll => ClosingAll'
  <2> SUFFICES ASSUME ClosingAll PROVE ClosingAll'
    OBVIOUS
  <2>1. Toward(todo', CloseAllSteps)
    BY <1>9, Lists DEF ClosingAll
  <2>2. (todo' = todo /\ at' = at) \/ (at = 1 /\ at' = 1)
    <3>1. Begins("closeEntries", CloseAllSteps)
      BY Lists
    <3>2. Head(todo) \in SemSteps => todo # CloseAllSteps
      BY <3>1, BeginsFacts, StepsDiffer
    <3>3. todo = CloseAllSteps \/ at = 1
      BY DEF ClosingAll
    <3>4. CASE todo' = todo /\ at' = at
      BY <3>4
    <3>5. CASE at' = 1 /\ Head(todo) \in SemSteps
      BY <3>2, <3>3, <3>5
    <3> QED
      BY <1>6, <3>4, <3>5
  <2> QED
    BY <1>2, <1>3, <1>4, <2>1, <2>2, SomeNumbers DEF ClosingAll
<1>14. Returning => Returning'
  <2>2. \A k \in Modes : DoneOpen(k) => DoneOpen(k)'
    BY <1>2, <1>3, <1>4, <1>7 DEF DoneOpen
  <2>3. DoneOpenEmpty => DoneOpenEmpty'
    BY <1>2, <1>3, <1>4, <1>7 DEF DoneOpenEmpty, CloseEntry, CloseFd, Closable
  <2>4. (DoneFork => DoneFork') /\ (DoneExit => DoneExit')
    BY <1>2, <1>3, <1>4 DEF DoneFork, DoneExit, closeAllFiles
  <2>5. Returning => Toward(todo', ReturnSteps)
    BY <1>9, Lists DEF Returning
  <2> QED
    BY <2>2, <2>3, <2>4, <2>5 DEF Returning
<1>15. Panicking => Panicking'
  BY <1>9, Lists DEF Panicking
<1>16. /\ before' \in [Entries -> Entry] \X [Pids -> [Fds -> Entries \union {0}]]
                          \X [Pids -> 0 .. MAX_FILE_DESCRIPTORS]
       /\ pid' \in Callers' /\ OldNextFd'[pid'] >= STD
  BY <1>2, <1>3, <1>4 DEF InCall
<1> QED
  BY <1>7, <1>10, <1>11, <1>12, <1>13, <1>14, <1>15, <1>16 DEF InCall

LEMMA SemaphoreInv ==
  ASSUME StepsInv, NEW s \in Sems, acquireLock(s) \/ releaseLock(s)
  PROVE  StepsInv'
<1>1. InCall /\ IInv /\ Head(todo) \in SemSteps
  BY StepsDiffer DEF StepsInv, acquireLock, releaseLock, Now
<1>2. UNCHANGED ovars /\ UNCHANGED call /\ avail' = avail
  BY DEF acquireLock, releaseLock
<1>3. IInv'
  BY <1>1, <1>2, SameTables
<1>4. sem' \in [Sems -> {0, 1}]
  <2>1. sem[s] \in {0, 1} /\ (sem[s] # 0 => sem[s] - 1 \in {0, 1}) /\ (sem[s] # 1 => sem[s] + 1 \in {0, 1})
    BY SMT DEF StepsInv
  <2>2. sem' = sem \/ (sem[s] # 0 /\ sem' = [sem EXCEPT ![s] = sem[s] - 1])
                 \/ (sem[s] # 1 /\ sem' = [sem EXCEPT ![s] = sem[s] + 1])
    BY DEF acquireLock, releaseLock
  <2> QED
    BY <2>1, <2>2 DEF StepsInv
<1>5. \/ todo' = todo /\ at' = at
      \/ todo' = Tail(todo) /\ at' = 1
  BY DEF acquireLock, releaseLock, NextStep
<1>6. InCall'
  BY <1>1, <1>2, <1>5, QuietStep
<1>7. pid' \in Callers' \union {0} /\ inode' \in Inodes \union {0, EMPTY_FILE}
  BY <1>2, <1>6 DEF InCall, StepsInv, call
<1>8. at' \in Entries \union Pids /\ avail' \in Entries \union Pids \union {0}
  BY <1>2, <1>5, SomeNumbers DEF StepsInv
<1> QED
  BY <1>3, <1>4, <1>6, <1>7, <1>8 DEF StepsInv

-----------------------------------------------------------------------------
(* A piece of work leaves the call's own variables as they are.            *)
LEMMA WorkFrame ==
  ASSUME StepsInv, InCall, UNCHANGED call, nextFd'[pid] >= STD, nextFd' \in [Pids -> 0 .. MAX_FILE_DESCRIPTORS]
  PROVE  /\ pid' = pid /\ inode' = inode /\ before' = before
         /\ OldOft' = OldOft /\ OldFd' = OldFd /\ OldNextFd' = OldNextFd /\ OldFree' = OldFree
         /\ pid \in Pids /\ pid \in Callers' /\ OldNextFd'[pid'] >= STD
         /\ before' \in [Entries -> Entry] \X [Pids -> [Fds -> Entries \union {0}]]
                          \X [Pids -> 0 .. MAX_FILE_DESCRIPTORS]
         /\ \A k : Opening(k) => Opening(k)'
<1>1. pid' = pid /\ inode' = inode /\ before' = before
  BY DEF call
<1>2. OldOft' = OldOft /\ OldFd' = OldFd /\ OldNextFd' = OldNextFd /\ OldFree' = OldFree
  BY <1>1 DEF OldOft, OldFd, OldNextFd, OldFree
<1>3. pid \in Pids /\ pid \in Callers'
  BY SomeNumbers DEF InCall, Callers
<1>4. \A k : Opening(k) => Opening(k)'
  BY <1>1, <1>2 DEF Opening
<1> QED
  BY <1>1, <1>2, <1>3, <1>4 DEF InCall

LEMMA WorkInv ==
  ASSUME StepsInv, UNCHANGED call, sem' = sem, IInv', InCall',
         at' \in Entries \union Pids, avail' \in Entries \union Pids \union {0}
  PROVE  StepsInv'
<1>1. inode' \in Inodes \union {0, EMPTY_FILE}
  BY DEF StepsInv, call
<1>2. sem' \in [Sems -> {0, 1}]
  BY DEF StepsInv
<1>3. pid' \in Callers' \union {0}
  BY DEF InCall
<1> QED
  BY <1>1, <1>2, <1>3 DEF StepsInv

LEMMA FindEntryInv ==
  ASSUME StepsInv, findEntry
  PROVE  StepsInv'
<1>1. InCall /\ IInv /\ Head(todo) = Work("findEntry")
  BY DEF StepsInv, findEntry, Now
<1>2. PICK k \in Kinds : Opening(k) /\ Finding(k) /\ todo = FindSteps(k)
  BY <1>1, AtWork
<1>3. UNCHANGED ovars /\ UNCHANGED call /\ sem' = sem
  BY DEF findEntry, Find
<1>4. IInv' /\ oft' = oft /\ fd' = fd /\ nextFd' = nextFd
  BY <1>1, <1>3, SameTables
<1>5. nextFd'[pid] >= STD /\ nextFd' \in [Pids -> 0 .. MAX_FILE_DESCRIPTORS]
  BY <1>1, <1>4 DEF InCall, Callers, IInv, TypeOK
<1>6. Untouched' /\ Opening(k)'
  BY <1>1, <1>2, <1>3, <1>4, <1>5, WorkFrame DEF Finding, Untouched
<1>7. avail' = (IF oft[at].openedByPid = 0 THEN at ELSE 0) /\ at \in Entries
  BY <1>2 DEF findEntry, Find, Finding
<1>8. CASE at = MAX_SYSTEM_OPEN_FILES
  <2>1. todo' = <<Release(Files), Panic>> /\ at' = 1
    BY <1>8 DEF findEntry, Find
  <2>2. Panicking'
    BY <2>1, Tails, SomeNumbers DEF Panicking
  <2>3. InCall'
    BY <1>1, <1>3, <1>5, <2>2, WorkFrame DEF InCall
  <2> QED
    BY <1>3, <1>4, <1>5, <1>7, <2>1, <2>3, SomeNumbers, WorkInv
<1>9. CASE at # MAX_SYSTEM_OPEN_FILES /\ oft[at].openedByPid = 0
  <2>1. todo' = Tail(todo) /\ at' = 1 /\ avail' = at
    BY <1>7, <1>9 DEF findEntry, Find, NextStep
  <2>2. Toward(todo', WriteSteps(k))
    BY <1>2, <2>1, Tails
  <2>3. at \in OldFree /\ \A m \in OldFree : at <= m
    BY <1>2, <1>7, <1>9, SomeNumbers, SMT DEF Finding, Untouched, OldFree
  <2>4. FirstFree'
    BY <1>1, <1>3, <1>5, <1>9, <2>1, <2>3, WorkFrame DEF FirstFree, IsFirst
  <2>5. Writing(k)'
    BY <1>6, <2>2, <2>4 DEF Writing
  <2>6. InCall'
    BY <1>1, <1>3, <1>5, <1>6, <2>5, WorkFrame DEF InCall, AnOpen
  <2> QED
    BY <1>3, <1>4, <1>5, <1>7, <2>1, <2>6, SomeNumbers, WorkInv
<1>10. CASE at # MAX_SYSTEM_OPEN_FILES /\ oft[at].openedByPid # 0
  <2>1. todo' = todo /\ at' = at + 1 /\ avail' = 0
    BY <1>7, <1>10 DEF findEntry, Find, ScanOn
  <2>2. at' \in Entries /\ \A e \in Entries : e < at + 1 => e < at \/ e = at
    BY <1>7, <1>10, <2>1, SomeNumbers, SMT
  <2>3. Finding(k)'
    BY <1>2, <1>4, <1>6, <1>10, <2>1, <2>2 DEF Finding
  <2>4. InCall'
    BY <1>1, <1>3, <1>5, <1>6, <2>3, WorkFrame DEF InCall, AnOpen
  <2> QED
    BY <1>3, <1>4, <1>5, <2>1, <2>2, <2>4, SomeNumbers, WorkInv
<1> QED
  BY <1>8, <1>9, <1>10

LEMMA FindSlotInv ==
  ASSUME StepsInv, findSlot
  PROVE  StepsInv'
<1>1. InCall /\ IInv /\ Head(todo) = Work("findSlot")
  BY DEF StepsInv, findSlot, Now
<1>2. FindingSlot /\ todo = SlotSteps
  BY <1>1, AtWork
<1>3. UNCHANGED ovars /\ UNCHANGED call /\ sem' = sem
  BY DEF findSlot, Find
<1>4. IInv' /\ oft' = oft /\ fd' = fd /\ nextFd' = nextFd
  BY <1>1, <1>3, SameTables
<1>5. nextFd'[pid] >= STD /\ nextFd' \in [Pids -> 0 .. MAX_FILE_DESCRIPTORS]
  BY <1>1, <1>4 DEF InCall, Callers, IInv, TypeOK
<1>6. Untouched'
  BY <1>1, <1>2, <1>3, <1>4, <1>5, WorkFrame DEF FindingSlot, Untouched
<1>7. avail' = (IF nextFd[at] = 0 THEN at ELSE 0) /\ at \in Pids
  BY <1>2 DEF findSlot, Find, FindingSlot
<1>8. CASE at = MAX_PROCESSES
  <2>1. todo' = <<Release(Tasks), Panic>> /\ at' = 1
    BY <1>8 DEF findSlot, Find
  <2>2. Panicking'
    BY <2>1, Tails, SomeNumbers DEF Panicking
  <2>3. InCall'
    BY <1>1, <1>3, <1>5, <2>2, WorkFrame DEF InCall
  <2> QED
    BY <1>3, <1>4, <1>5, <1>7, <2>1, <2>3, SomeNumbers, WorkInv
<1>9. CASE at # MAX_PROCESSES /\ nextFd[at] = 0
  <2>1. todo' = Tail(todo) /\ at' = 1 /\ avail' = at
    BY <1>7, <1>9 DEF findSlot, Find, NextStep
  <2>2. Toward(todo', FillSteps)
    BY <1>2, <2>1, Tails
  <2>3. OldNextFd[at] = 0
    BY <1>2, <1>9 DEF FindingSlot, Untouched
  <2>4. FillingSlot'
    BY <1>1, <1>3, <1>5, <1>6, <1>7, <2>1, <2>2, <2>3, WorkFrame DEF FillingSlot
  <2>5. InCall'
    BY <1>1, <1>3, <1>5, <2>4, WorkFrame DEF InCall
  <2> QED
    BY <1>3, <1>4, <1>5, <1>7, <2>1, <2>5, SomeNumbers, WorkInv
<1>10. CASE at # MAX_PROCESSES /\ nextFd[at] # 0
  <2>1. todo' = todo /\ at' = at + 1 /\ avail' = 0 /\ at + 1 \in Pids
    BY <1>7, <1>10, SomeNumbers DEF findSlot, Find, ScanOn
  <2>2. FindingSlot'
    BY <1>2, <1>6, <2>1 DEF FindingSlot
  <2>3. InCall'
    BY <1>1, <1>3, <1>5, <2>2, WorkFrame DEF InCall
  <2> QED
    BY <1>3, <1>4, <1>5, <2>1, <2>3, SomeNumbers, WorkInv
<1> QED
  BY <1>8, <1>9, <1>10

LEMMA FillSlotInv ==
  ASSUME StepsInv, fillSlot
  PROVE  StepsInv'
<1>1. InCall /\ IInv /\ Head(todo) = Work("fillSlot")
  BY DEF StepsInv, fillSlot, Now
<1>2. FillingSlot /\ todo = FillSteps
  BY <1>1, AtWork
<1>3. /\ NewTaskFiles(avail) /\ todo' = Tail(todo) /\ at' = 1
      /\ UNCHANGED call /\ sem' = sem /\ avail' = avail /\ avail \in Pids
  BY <1>2 DEF fillSlot, NextStep, FillingSlot
<1>4. IInv'
  <2>1. {} \in SUBSET Pids
    OBVIOUS
  <2> QED
    BY <1>1, <1>3, <2>1, TaskIInv
<1>5. nextFd'[pid] >= STD /\ nextFd' \in [Pids -> 0 .. MAX_FILE_DESCRIPTORS]
  <2>1. nextFd' = [nextFd EXCEPT ![avail] = STD] /\ STD >= STD
    BY <1>3, SMT DEF NewTaskFiles, STD
  <2>2. pid \in Pids /\ nextFd[pid] >= STD /\ nextFd \in [Pids -> 0 .. MAX_FILE_DESCRIPTORS]
    BY <1>1 DEF InCall, Callers, IInv, TypeOK
  <2>3. nextFd'[pid] = STD \/ nextFd'[pid] = nextFd[pid]
    BY <2>1, <2>2
  <2> QED
    BY <1>4, <2>1, <2>2, <2>3 DEF IInv, TypeOK
<1>6. DoneFork'
  BY <1>1, <1>2, <1>3, <1>5, WorkFrame DEF DoneFork, FillingSlot, Untouched, NewTaskFiles
<1>7. Returning'
  BY <1>2, <1>3, <1>6, Tails DEF Returning
<1>8. InCall'
  BY <1>1, <1>3, <1>5, <1>7, WorkFrame DEF InCall
<1> QED
  BY <1>1, <1>3, <1>4, <1>5, <1>8, SomeNumbers, WorkInv

LEMMA TableInv ==
  ASSUME GoodTable(oft'), fd' \in [Pids -> [Fds -> Entries \union {0}]],
         nextFd' \in [Pids -> 0 .. MAX_FILE_DESCRIPTORS]
  PROVE  IInv'
BY Zenon DEF GoodTable, Marked, IInv, TypeOK, MarksOwned, LockExclusive

LEMMA WriteEntryInv ==
  ASSUME StepsInv, writeEntry
  PROVE  StepsInv'
<1>1. InCall /\ IInv /\ Head(todo) = Work("writeEntry")
  BY DEF StepsInv, writeEntry, Now
<1>2. PICK k \in Kinds : Opening(k) /\ Writing(k) /\ todo = WriteSteps(k)
  BY <1>1, AtWork
<1>3. /\ oft' = insertOpenFileTableEntry(avail, pid, inode) /\ fd' = fd /\ nextFd' = nextFd
      /\ todo' = Tail(todo) /\ at' = 1 /\ UNCHANGED call /\ sem' = sem /\ avail' = avail
  BY DEF writeEntry, NextStep
<1>4. nextFd'[pid] >= STD /\ nextFd' \in [Pids -> 0 .. MAX_FILE_DESCRIPTORS]
  BY <1>1, <1>3 DEF InCall, Callers, IInv, TypeOK
<1>5. avail \in Entries /\ inode \in Inodes \union {EMPTY_FILE}
  BY <1>2 DEF Writing, FirstFree, IsFirst, OldFree, Opening
<1>6. IInv'
  <2>1. GoodTable(oft)
    BY <1>1, GoodTableIInv DEF IInv, TypeOK
  <2>2. GoodTable(oft')
    BY <1>1, <1>3, <1>4, <1>5, <2>1, InsertGood, WorkFrame
  <2> QED
    BY <1>1, <1>3, <1>4, <2>2, TableInv DEF IInv, TypeOK
<1>7. Describing(k)'
  <2>1. Toward(todo', DescriptorSteps(k))
    BY <1>2, <1>3, Tails
  <2>2. FirstFree' /\ Inserted' = Inserted
    BY <1>1, <1>2, <1>3, <1>4, WorkFrame DEF FirstFree, Writing, Inserted
  <2>3. oft' = Inserted
    BY <1>2, <1>3 DEF Writing, Untouched, insertOpenFileTableEntry, Inserted
  <2> QED
    BY <1>1, <1>2, <1>3, <1>4, <2>1, <2>2, <2>3, WorkFrame DEF Describing, Writing, Untouched
<1>8. InCall'
  BY <1>1, <1>2, <1>3, <1>4, <1>7, WorkFrame DEF InCall, AnOpen
<1> QED
  BY <1>3, <1>5, <1>6, <1>8, SomeNumbers, WorkInv

LEMMA SetDescriptorInv ==
  ASSUME StepsInv, setDescriptor
  PROVE  StepsInv'
<1>1. InCall /\ IInv /\ Head(todo) = Work("setDescriptor")
  BY DEF StepsInv, setDescriptor, Now
<1>2. PICK k \in Kinds : Opening(k) /\ Describing(k) /\ todo = DescriptorSteps(k)
  BY <1>1, AtWork
<1>3. /\ fd' = [fd EXCEPT ![pid][nextFd[pid]] = avail] /\ oft' = oft /\ nextFd' = nextFd
      /\ todo' = Tail(todo) /\ at' = 1 /\ UNCHANGED call /\ sem' = sem /\ avail' = avail
  BY DEF setDescriptor, NextStep
<1>4. nextFd'[pid] >= STD /\ nextFd' \in [Pids -> 0 .. MAX_FILE_DESCRIPTORS]
  BY <1>1, <1>3 DEF InCall, Callers, IInv, TypeOK
<1>5. avail \in Entries /\ nextFd[pid] \in Fds /\ pid \in Pids
  BY <1>1, <1>2, SomeNumbers DEF Describing, FirstFree, IsFirst, OldFree, Opening, InCall
<1>6. IInv'
  <2>1. [fd[pid] EXCEPT ![nextFd[pid]] = avail] \in [Fds -> Entries \union {0}]
    BY <1>1, <1>5 DEF IInv, TypeOK
  <2>2. fd' = [fd EXCEPT ![pid] = [fd[pid] EXCEPT ![nextFd[pid]] = avail]]
    BY <1>3
  <2>3. fd' \in [Pids -> [Fds -> Entries \union {0}]]
    BY <1>1, <1>5, <2>1, <2>2 DEF IInv, TypeOK
  <2>4. GoodTable(oft')
    BY <1>1, <1>3, GoodTableIInv DEF IInv, TypeOK
  <2> QED
    BY <1>4, <2>3, <2>4, TableInv
<1>7. Described' /\ oft' = Inserted'
  <2>1. FirstFree' /\ Inserted' = Inserted /\ Descriptor' = Descriptor
    BY <1>1, <1>2, <1>3, <1>4, WorkFrame DEF FirstFree, Describing, Inserted, Descriptor
  <2>2. fd' = Descriptor /\ nextFd' = OldNextFd' /\ oft' = Inserted
    BY <1>1, <1>2, <1>3, <1>4, WorkFrame DEF Describing, Descriptor
  <2> QED
    BY <2>1, <2>2 DEF Described
<1>8. AnOpen(k)'
  <2>1. CASE k = "EMPTY"
    BY <1>2, <1>3, <1>7, <2>1, Tails DEF Closing, AnOpen
  <2>2. CASE k = "RDWRITE"
    BY <1>2, <1>3, <1>7, <2>2, Tails, SomeNumbers DEF LookingForLock, AnOpen
  <2>3. CASE k = "RDONLY"
    BY <1>2, <1>3, <1>7, <2>3, Tails DEF Counting, AnOpen, Locked, Modes
  <2> QED
    BY <2>1, <2>2, <2>3 DEF Kinds, Modes
<1>9. InCall'
  BY <1>1, <1>2, <1>3, <1>4, <1>8, WorkFrame DEF InCall
<1> QED
  BY <1>3, <1>5, <1>6, <1>9, SomeNumbers, WorkInv

LEMMA CountDescriptorInv ==
  ASSUME StepsInv, countDescriptor
  PROVE  StepsInv'
<1>1. InCall /\ IInv /\ Head(todo) = Work("countDescriptor")
  BY DEF StepsInv, countDescriptor, Now
<1>2. PICK k \in Modes : Opening(k) /\ Counting(k) /\ todo = CountSteps
  BY <1>1, AtWork
<1>3. /\ nextFd' = [nextFd EXCEPT ![pid] = nextFd[pid] + 1] /\ oft' = oft /\ fd' = fd
      /\ todo' = Tail(todo) /\ at' = 1 /\ UNCHANGED call /\ sem' = sem /\ avail' = avail
  BY DEF countDescriptor, NextStep
<1>4. avail \in Entries /\ nextFd[pid] \in Fds /\ pid \in Pids
  BY <1>1, <1>2, SomeNumbers DEF Counting, Described, FirstFree, IsFirst, OldFree, Opening, InCall
<1>5. nextFd'[pid] >= STD /\ nextFd' \in [Pids -> 0 .. MAX_FILE_DESCRIPTORS]
  <2>1. nextFd[pid] + 1 >= STD /\ nextFd[pid] + 1 \in 0 .. MAX_FILE_DESCRIPTORS
    BY <1>4, ConstantsAssumption, SMT DEF Fds, STD
  <2>2. nextFd \in [Pids -> 0 .. MAX_FILE_DESCRIPTORS]
    BY <1>1 DEF IInv, TypeOK
  <2> QED
    BY <1>3, <1>4, <2>1, <2>2
<1>6. IInv'
  <2>1. GoodTable(oft')
    BY <1>1, <1>3, GoodTableIInv DEF IInv, TypeOK
  <2> QED
    BY <1>1, <1>3, <1>5, <2>1, TableInv DEF IInv, TypeOK
<1>7. DoneOpen(k)'
  <2>1. /\ FirstFree' /\ Inserted' = Inserted /\ Descriptor' = Descriptor
        /\ Locked(k)' = Locked(k)
    BY <1>1, <1>2, <1>3, <1>5, WorkFrame DEF FirstFree, Counting, Described, Inserted, Descriptor, Locked
  <2> QED
    BY <1>1, <1>2, <1>3, <1>5, <2>1, WorkFrame DEF DoneOpen, Counting, Described
<1>8. Returning'
  BY <1>2, <1>3, <1>7, Tails DEF Returning
<1>9. InCall'
  BY <1>1, <1>3, <1>5, <1>8, WorkFrame DEF InCall
<1> QED
  BY <1>3, <1>4, <1>6, <1>9, SomeNumbers, WorkInv

LEMMA CloseInv ==
  ASSUME StepsInv, close
  PROVE  StepsInv'
<1>1. InCall /\ IInv /\ Head(todo) = Work("close")
  BY DEF StepsInv, close, Now
<1>2. Opening("EMPTY") /\ Closing("EMPTY") /\ todo = CloseSteps
  BY <1>1, AtWork
<1>3. /\ sysClose(pid, nextFd[pid])
      /\ todo' = Tail(todo) /\ at' = 1 /\ UNCHANGED call /\ sem' = sem /\ avail' = avail
  BY DEF close, NextStep
<1>4. avail \in Entries /\ nextFd[pid] \in Fds /\ pid \in Pids /\ nextFd' = nextFd
  BY <1>1, <1>2, <1>3, SomeNumbers DEF Closing, Described, FirstFree, IsFirst, OldFree, Opening, InCall, sysClose
<1>5. nextFd'[pid] >= STD /\ nextFd' \in [Pids -> 0 .. MAX_FILE_DESCRIPTORS]
  BY <1>1, <1>4 DEF InCall, Callers, IInv, TypeOK
<1>6. IInv'
  BY <1>1, <1>3, <1>4, CloseIInv
<1>7. DoneOpenEmpty'
  <2>1. /\ FirstFree' /\ Inserted' = Inserted /\ Descriptor' = Descriptor /\ Opening("EMPTY")'
    BY <1>1, <1>2, <1>3, <1>5, WorkFrame DEF FirstFree, Closing, Described, Inserted, Descriptor
  <2>2. /\ oft' = CloseEntry(oft, nextFd[pid], pid, fd) /\ fd' = CloseFd(nextFd[pid], pid, fd)
        /\ nextFd = OldNextFd /\ oft = Inserted /\ fd = Descriptor
    BY <1>2, <1>3 DEF sysClose, Closing, Described
  <2>3. pid' = pid /\ OldNextFd' = OldNextFd
    BY <1>1, <1>3, <1>5, WorkFrame
  <2> QED
    BY <1>4, <2>1, <2>2, <2>3 DEF DoneOpenEmpty, CloseEntry, CloseFd, Closable
<1>8. Returning'
  BY <1>2, <1>3, <1>7, Tails DEF Returning
<1>9. InCall'
  BY <1>1, <1>3, <1>5, <1>8, WorkFrame DEF InCall
<1> QED
  BY <1>3, <1>4, <1>6, <1>9, SomeNumbers, WorkInv

(* lockFile's two scans.                                                   *)
LEMMA LockFileIs ==
  ASSUME NEW o \in [Entries -> Entry], NEW p, NEW i
  PROVE  /\ ~fileAvailableToBeLocked(o, i) => lockFile(o, p, i) = o
         /\ OwnEntries(o, p, i) = {} => lockFile(o, p, i) = o
         /\ \A e \in Entries :
              fileAvailableToBeLocked(o, i) /\ IsFirst(e, OwnEntries(o, p, i))
                => lockFile(o, p, i) = [o EXCEPT ![e].lockedForWriting = TRUE]
<1>1. o = [e \in Entries |-> o[e]]
  OBVIOUS
<1>2. ~fileAvailableToBeLocked(o, i) => lockFile(o, p, i) = o
  BY <1>1 DEF lockFile
<1>3. OwnEntries(o, p, i) = {} => lockFile(o, p, i) = o
  BY <1>1 DEF lockFile, IsFirst
<1>4. ASSUME NEW e \in Entries, fileAvailableToBeLocked(o, i), IsFirst(e, OwnEntries(o, p, i))
      PROVE  lockFile(o, p, i) = [o EXCEPT ![e].lockedForWriting = TRUE]
  <2>1. \A f \in Entries : IsFirst(f, OwnEntries(o, p, i)) <=> f = e
    BY <1>4, SMT DEF IsFirst, OwnEntries, Entries
  <2>2. \A f \in Entries :
          lockFile(o, p, i)[f] = IF f = e THEN [o[f] EXCEPT !.lockedForWriting = TRUE] ELSE o[f]
    BY <1>4, <2>1 DEF lockFile
  <2>3. lockFile(o, p, i) = [f \in Entries |-> lockFile(o, p, i)[f]]
    BY DEF lockFile
  <2>4. [o EXCEPT ![e].lockedForWriting = TRUE]
          = [f \in Entries |-> IF f = e THEN [o[f] EXCEPT !.lockedForWriting = TRUE] ELSE o[f]]
    OBVIOUS
  <2> QED
    BY <2>2, <2>3, <2>4
<1> QED
  BY <1>2, <1>3, <1>4

LEMMA FindLockedInv ==
  ASSUME StepsInv, findLocked
  PROVE  StepsInv'
<1>1. InCall /\ IInv /\ Head(todo) = Work("findLocked")
  BY DEF StepsInv, findLocked, Now
<1>2. Opening("RDWRITE") /\ LookingForLock("RDWRITE") /\ todo = LockSteps
  BY <1>1, AtWork
<1>3. UNCHANGED ovars /\ UNCHANGED call /\ sem' = sem /\ avail' = avail
  BY DEF findLocked
<1>4. IInv' /\ oft' = oft /\ fd' = fd /\ nextFd' = nextFd
  BY <1>1, <1>3, SameTables
<1>5. nextFd'[pid] >= STD /\ nextFd' \in [Pids -> 0 .. MAX_FILE_DESCRIPTORS]
  BY <1>1, <1>4 DEF InCall, Callers, IInv, TypeOK
<1>6. /\ Described' /\ oft' = Inserted' /\ Inserted' = Inserted /\ inode' = inode /\ pid' = pid
  <2>1. FirstFree' /\ Inserted' = Inserted /\ Descriptor' = Descriptor
    BY <1>1, <1>2, <1>3, <1>5, WorkFrame DEF FirstFree, LookingForLock, Described, Inserted, Descriptor
  <2> QED
    BY <1>1, <1>2, <1>3, <1>4, <1>5, <2>1, WorkFrame DEF LookingForLock, Described
<1>7. at \in Entries /\ \A e \in Entries : e < at => ~(oft[e].inode = inode /\ oft[e].lockedForWriting)
  BY <1>2 DEF LookingForLock
<1>8. avail \in Entries \union Pids \union {0} /\ "RDWRITE" \in Kinds /\ "RDWRITE" \in Modes
  BY DEF StepsInv, Kinds, Modes
<1>9. AnOpen("RDWRITE")' /\ at' \in Entries
  <2>1. CASE oft[at].inode = inode /\ oft[at].lockedForWriting
    <3>1. todo' = Tail(Tail(todo)) /\ at' = 1
      BY <2>1 DEF findLocked
    <3>2. ~fileAvailableToBeLocked(oft, inode)
      BY <1>7, <2>1 DEF fileAvailableToBeLocked
    <3>3. oft' = Locked("RDWRITE")'
      BY <1>1, <1>2, <1>4, <1>6, <3>2, LockFileIs DEF Locked, LookingForLock, IInv, TypeOK
    <3>4. Counting("RDWRITE")'
      BY <1>2, <1>6, <1>8, <3>1, <3>3, Tails DEF Counting
    <3> QED
      BY <3>1, <3>4, SomeNumbers DEF AnOpen
  <2>2. CASE ~(oft[at].inode = inode /\ oft[at].lockedForWriting) /\ at = MAX_SYSTEM_OPEN_FILES
    <3>1. todo' = Tail(todo) /\ at' = 1
      BY <2>2 DEF findLocked, NextStep
    <3>2. \A e \in Entries : e < at \/ e = at
      BY <2>2, SomeNumbers, ConstantsAssumption, SMT
    <3>3. fileAvailableToBeLocked(oft, inode)
      BY <1>7, <2>2, <3>2 DEF fileAvailableToBeLocked
    <3>4. fileAvailableToBeLocked(oft, inode)'
      BY <1>4, <1>6, <3>3 DEF fileAvailableToBeLocked
    <3>5. LookingForOwn("RDWRITE")'
      BY <1>2, <1>6, <3>1, <3>4, Tails, SomeNumbers DEF LookingForOwn
    <3> QED
      BY <3>1, <3>5, SomeNumbers DEF AnOpen
  <2>3. CASE ~(oft[at].inode = inode /\ oft[at].lockedForWriting) /\ at # MAX_SYSTEM_OPEN_FILES
    <3>1. todo' = todo /\ at' = at + 1
      BY <2>3 DEF findLocked, ScanOn
    <3>2. at + 1 \in Entries /\ \A e \in Entries : e < at + 1 => e < at \/ e = at
      BY <1>7, <2>3, SomeNumbers, SMT
    <3>3. LookingForLock("RDWRITE")'
      BY <1>2, <1>4, <1>6, <1>7, <2>3, <3>1, <3>2 DEF LookingForLock
    <3> QED
      BY <3>1, <3>2, <3>3 DEF AnOpen
  <2> QED
    BY <2>1, <2>2, <2>3
<1>10. InCall'
  BY <1>1, <1>2, <1>3, <1>5, <1>8, <1>9, WorkFrame DEF InCall
<1> QED
  BY <1>3, <1>4, <1>8, <1>9, <1>10, WorkInv

LEMMA FindOwnInv ==
  ASSUME StepsInv, findOwn
  PROVE  StepsInv' /\ oft' \in {oft, lockFile(oft, pid, inode)}
<1>1. InCall /\ IInv /\ Head(todo) = Work("findOwn")
  BY DEF StepsInv, findOwn, Now
<1>2. Opening("RDWRITE") /\ LookingForOwn("RDWRITE") /\ todo = OwnSteps
  BY <1>1, AtWork
<1>3. fd' = fd /\ nextFd' = nextFd /\ UNCHANGED call /\ sem' = sem /\ avail' = avail
  BY DEF findOwn
<1>4. nextFd'[pid] >= STD /\ nextFd' \in [Pids -> 0 .. MAX_FILE_DESCRIPTORS]
  BY <1>1, <1>3 DEF InCall, Callers, IInv, TypeOK
<1>5. /\ Described' /\ oft = Inserted' /\ Inserted' = Inserted /\ inode' = inode /\ pid' = pid /\ pid \in Pids
  <2>1. FirstFree' /\ Inserted' = Inserted /\ Descriptor' = Descriptor
    BY <1>1, <1>2, <1>3, <1>4, WorkFrame DEF FirstFree, LookingForOwn, Described, Inserted, Descriptor
  <2> QED
    BY <1>1, <1>2, <1>3, <1>4, <2>1, WorkFrame DEF LookingForOwn, Described
<1>6. /\ at \in Entries /\ fileAvailableToBeLocked(oft, inode)
      /\ \A e \in Entries : e < at => ~(oft[e].inode = inode /\ oft[e].openedByPid = pid)
  BY <1>2 DEF LookingForOwn
<1>7. /\ avail \in Entries \union Pids \union {0} /\ "RDWRITE" \in Kinds /\ "RDWRITE" \in Modes
      /\ oft \in [Entries -> Entry] /\ inode \in Inodes
  BY <1>1, <1>2 DEF StepsInv, Kinds, Modes, IInv, TypeOK, Opening
<1>8. AnOpen("RDWRITE")' /\ at' \in Entries /\ oft' \in {oft, lockFile(oft, pid, inode)}
  <2>1. CASE oft[at].inode = inode /\ oft[at].openedByPid = pid
    <3>1. todo' = Tail(todo) /\ at' = 1 /\ oft' = [oft EXCEPT ![at].lockedForWriting = TRUE]
      BY <2>1 DEF findOwn, NextStep
    <3>2. at \in OwnEntries(oft, pid, inode)
      BY <1>6, <2>1 DEF OwnEntries
    <3>3. \A e \in OwnEntries(oft, pid, inode) : at <= e
      BY <1>6, SomeNumbers, SMT DEF OwnEntries
    <3>4. oft' = lockFile(oft, pid, inode)
      BY <1>6, <1>7, <3>1, <3>2, <3>3, LockFileIs DEF IsFirst
    <3>5. oft' = Locked("RDWRITE")'
      BY <1>5, <3>4 DEF Locked
    <3>6. Counting("RDWRITE")'
      BY <1>2, <1>5, <1>7, <3>1, <3>5, Tails DEF Counting
    <3> QED
      BY <3>1, <3>4, <3>6, SomeNumbers DEF AnOpen
  <2>2. CASE ~(oft[at].inode = inode /\ oft[at].openedByPid = pid) /\ at = MAX_SYSTEM_OPEN_FILES
    <3>1. todo' = Tail(todo) /\ at' = 1 /\ oft' = oft
      BY <2>2 DEF findOwn, NextStep
    <3>2. \A e \in Entries : e < at \/ e = at
      BY <2>2, SomeNumbers, ConstantsAssumption, SMT
    <3>3. OwnEntries(oft, pid, inode) = {}
      BY <1>6, <2>2, <3>2 DEF OwnEntries
    <3>4. oft' = Locked("RDWRITE")'
      BY <1>5, <1>7, <3>1, <3>3, LockFileIs DEF Locked
    <3>5. Counting("RDWRITE")'
      BY <1>2, <1>5, <1>7, <3>1, <3>4, Tails DEF Counting
    <3> QED
      BY <3>1, <3>5, SomeNumbers DEF AnOpen
  <2>3. CASE ~(oft[at].inode = inode /\ oft[at].openedByPid = pid) /\ at # MAX_SYSTEM_OPEN_FILES
    <3>1. todo' = todo /\ at' = at + 1 /\ oft' = oft
      BY <2>3 DEF findOwn, ScanOn
    <3>2. at + 1 \in Entries /\ \A e \in Entries : e < at + 1 => e < at \/ e = at
      BY <1>6, <2>3, SomeNumbers, SMT
    <3>3. fileAvailableToBeLocked(oft, inode)'
      BY <1>5, <1>6, <3>1 DEF fileAvailableToBeLocked
    <3>4. LookingForOwn("RDWRITE")'
      BY <1>2, <1>5, <1>6, <2>3, <3>1, <3>2, <3>3 DEF LookingForOwn
    <3> QED
      BY <3>1, <3>2, <3>4 DEF AnOpen
  <2> QED
    BY <2>1, <2>2, <2>3
<1>9. IInv'
  <2>1. GoodTable(oft)
    BY <1>1, GoodTableIInv DEF IInv, TypeOK
  <2>2. GoodTable(oft')
    BY <1>5, <1>7, <1>8, <2>1, LockGood
  <2> QED
    BY <1>1, <1>3, <1>4, <2>2, TableInv DEF IInv, TypeOK
<1>10. InCall'
  BY <1>1, <1>2, <1>3, <1>4, <1>7, <1>8, WorkFrame DEF InCall
<1> QED
  BY <1>3, <1>7, <1>8, <1>9, <1>10, WorkInv

LEMMA CloseEntriesInv ==
  ASSUME StepsInv, closeEntries
  PROVE  StepsInv'
<1>1. InCall /\ IInv /\ Head(todo) = Work("closeEntries")
  BY DEF StepsInv, closeEntries, Now
<1>2. ClosingAll /\ todo = CloseAllSteps
  BY <1>1, AtWork
<1>3. /\ oft' = IF oft[at].openedByPid = pid THEN [oft EXCEPT ![at] = NoEntry] ELSE oft
      /\ fd' = fd /\ nextFd' = nextFd /\ UNCHANGED call /\ sem' = sem /\ avail' = avail
  BY DEF closeEntries
<1>4. nextFd'[pid] >= STD /\ nextFd' \in [Pids -> 0 .. MAX_FILE_DESCRIPTORS]
  BY <1>1, <1>3 DEF InCall, Callers, IInv, TypeOK
<1>5. /\ at \in Entries /\ fd = OldFd /\ nextFd = OldNextFd
      /\ oft = [e \in Entries |-> IF e < at /\ OldOft[e].openedByPid = pid THEN NoEntry ELSE OldOft[e]]
  BY <1>2 DEF ClosingAll
<1>6. /\ pid' = pid /\ OldOft' = OldOft /\ OldFd' = OldFd /\ OldNextFd' = OldNextFd
  BY <1>1, <1>3, <1>4, WorkFrame
<1>7. oft \in [Entries -> Entry] /\ oft' \in [Entries -> Entry]
      /\ \A e \in Entries : oft'[e] = oft[e] \/ oft'[e] = NoEntry
  BY <1>1, <1>3, EntryFields DEF IInv, TypeOK
<1>8. IInv'
  <2>1. GoodTable(oft)
    BY <1>1, GoodTableIInv DEF IInv, TypeOK
  <2>2. GoodTable(oft')
    BY <1>7, <2>1, ClearGood
  <2> QED
    BY <1>1, <1>3, <1>4, <2>2, TableInv DEF IInv, TypeOK
<1>9. oft' = [e \in Entries |-> IF e < at + 1 /\ OldOft[e].openedByPid = pid THEN NoEntry ELSE OldOft[e]]
  <2>1. oft[at] = OldOft[at]
    BY <1>5, SomeNumbers, SMT
  <2>2. ASSUME NEW e \in Entries
        PROVE  oft'[e] = IF e < at + 1 /\ OldOft[e].openedByPid = pid THEN NoEntry ELSE OldOft[e]
    <3>1. e < at + 1 <=> e < at \/ e = at
      BY <1>5, SomeNumbers, SMT
    <3>2. CASE e = at
      BY <1>3, <1>7, <2>1, <3>1, <3>2
    <3>3. CASE e # at
      <4>1. oft'[e] = oft[e]
        BY <1>3, <1>7, <3>3
      <4> QED
        BY <1>5, <3>1, <3>3, <4>1
    <3> QED
      BY <3>2, <3>3
  <2>3. oft' = [e \in Entries |-> oft'[e]]
    BY <1>7
  <2> QED
    BY <2>2, <2>3
<1>10. (ClosingAll \/ Returning)' /\ at' \in Entries
  <2>1. CASE at = MAX_SYSTEM_OPEN_FILES
    <3>1. todo' = Tail(todo) /\ at' = 1
      BY <2>1 DEF closeEntries, NextStep
    <3>2. \A e \in Entries : e < at + 1
      BY <2>1, SomeNumbers, ConstantsAssumption, SMT
    <3>3. oft' = closeAllFiles(OldOft, pid)
      BY <1>9, <3>2 DEF closeAllFiles
    <3>4. DoneExit'
      BY <1>3, <1>5, <1>6, <3>3 DEF DoneExit, closeAllFiles
    <3> QED
      BY <1>2, <3>1, <3>4, Tails, SomeNumbers DEF Returning
  <2>2. CASE at # MAX_SYSTEM_OPEN_FILES
    <3>1. todo' = todo /\ at' = at + 1 /\ at + 1 \in Entries
      BY <1>5, <2>2, SomeNumbers DEF closeEntries, ScanOn
    <3>2. ClosingAll'
      BY <1>2, <1>3, <1>5, <1>6, <1>9, <3>1 DEF ClosingAll
    <3> QED
      BY <3>1, <3>2
  <2> QED
    BY <2>1, <2>2
<1>11. InCall'
  BY <1>1, <1>3, <1>4, <1>10, WorkFrame DEF InCall
<1> QED
  BY <1>3, <1>8, <1>10, <1>11, WorkInv DEF StepsInv

LEMMA ReturnInv ==
  ASSUME StepsInv, Return
  PROVE  StepsInv' /\ todo' = <<>>
<1>1. InCall /\ IInv /\ Head(todo) = Work("return")
  BY DEF StepsInv, Return, Now
<1>2. todo = ReturnSteps
  BY <1>1, AtWork
<1>3. /\ todo' = <<>> /\ at' = 1 /\ pid' = 0 /\ inode' = 0 /\ avail' = 0
      /\ UNCHANGED ovars /\ sem' = sem
  BY <1>2, Tails DEF Return, NextStep
<1>4. IInv'
  BY <1>1, <1>3, SameTables
<1> QED
  BY <1>3, <1>4, SomeNumbers DEF StepsInv

LEMMA OneStepInv ==
  ASSUME StepsInv, OneStepCall
  PROVE  StepsInv'
<1>1. todo = <<>> /\ pid = 0 /\ at = 1 /\ IInv
  BY CallIsBusy DEF StepsInv, OneStepCall
<1>2. sem' = sem /\ todo' = todo /\ UNCHANGED call /\ at' = at /\ avail' = avail
  BY DEF OneStepCall
<1>3. IInv'
  <2>1. CASE \E p \in Callers, d \in Fds : sysClose(p, d)
    BY <1>1, <2>1, CloseIInv, SomeNumbers
  <2>2. CASE \E freed \in SUBSET (Callers \ {1}) : ZeroTaskFiles(freed)
    <3>1. PICK freed \in SUBSET (Callers \ {1}) : ZeroTaskFiles(freed)
      BY <2>2
    <3>2. freed \in SUBSET Pids
      BY SomeNumbers
    <3> QED
      BY <1>1, <3>1, <3>2, TaskIInv, SomeNumbers
  <2> QED
    BY <2>1, <2>2 DEF OneStepCall
<1> QED
  BY <1>1, <1>2, <1>3 DEF StepsInv, call

LEMMA StepsNextInv == StepsInv /\ [StepsNext]_vars => StepsInv'
<1> SUFFICES ASSUME StepsInv, [StepsNext]_vars PROVE StepsInv'
  OBVIOUS
<1>1. CASE Step
  <2>1. ASSUME NEW s \in {Files, Tasks, Frames}, acquireLock(s) \/ releaseLock(s) PROVE StepsInv'
    BY <2>1, SemaphoreInv DEF Sems
  <2> QED
    BY <1>1, <2>1, FindEntryInv, WriteEntryInv, FindSlotInv, FillSlotInv, FindLockedInv, FindOwnInv,
       CloseEntriesInv, SetDescriptorInv, CountDescriptorInv, CloseInv, ReturnInv DEF Step
<1>2. CASE UNCHANGED vars
  <2>1. /\ UNCHANGED ovars /\ UNCHANGED call /\ sem' = sem /\ todo' = todo /\ at' = at /\ avail' = avail
    BY <1>2 DEF vars
  <2>2. IInv' /\ Callers' = Callers
    BY <2>1, SameTables DEF StepsInv
  <2>3. InCall => InCall'
    BY <2>1, QuietStep DEF StepsInv
  <2> QED
    BY <2>1, <2>2, <2>3 DEF StepsInv, call
<1>3. Halted => UNCHANGED vars
  BY DEF Halted
<1> QED
  BY <1>1, <1>2, <1>3, BeginInv, OneStepInv DEF StepsNext

(* A call's list of steps, and what the tables hold at each of its pieces  *)
(* of work, is an invariant (file.cpp, vm.cpp).                            *)
THEOREM StepsInvariant == StepsSpec => []StepsInv
BY StepsInitInv, StepsNextInv, PTL DEF StepsSpec

(* The variables keep their types at every step of every call: no          *)
(* semaphore is acquired twice or released when it is free (acquireLock,   *)
(* releaseLock), and no scan leaves its table.                             *)
THEOREM StepsTypeCorrect == StepsSpec => []StepsTypeOK
<1>1. StepsInv => StepsTypeOK
  BY DEF StepsInv, IInv, StepsTypeOK, Sems
<1> QED
  BY <1>1, StepsInvariant, PTL

(* At most one entry of an inode is marked, also between the scans of      *)
(* lockFile, and between the entries that closeAllFiles clears.            *)
THEOREM StepsExclusion == StepsSpec => []LockExclusive
<1>1. StepsInv => LockExclusive
  BY DEF StepsInv, IInv
<1> QED
  BY <1>1, StepsInvariant, PTL

-----------------------------------------------------------------------------
(* The steps of a call implement the one step of OpenFiles: nothing is     *)
(* seen of it until it returns.                                            *)
LEMMA SeenTables ==
  /\ todo = <<>> => Seen(1) = oft /\ Seen(2) = fd /\ Seen(3) = nextFd
  /\ todo # <<>> => Seen(1) = OldOft /\ Seen(2) = OldFd /\ Seen(3) = OldNextFd
BY DEF Seen, OldOft, OldFd, OldNextFd, ovars

LEMMA SeenTablesPrimed ==
  /\ todo' = <<>> => Seen(1)' = oft' /\ Seen(2)' = fd' /\ Seen(3)' = nextFd'
  /\ todo' # <<>> => Seen(1)' = OldOft' /\ Seen(2)' = OldFd' /\ Seen(3)' = OldNextFd'
BY DEF Seen, OldOft, OldFd, OldNextFd, ovars

LEMMA CallIsBusyPrimed == InCall' => todo' # <<>>
<1>1. (InCall => todo # <<>>)'
  BY CallIsBusy, PTL
<1> QED
  BY <1>1, Zenon

LEMMA SameOperators ==
  /\ Calls!Pids = Pids /\ Calls!Entries = Entries /\ Calls!Fds = Fds /\ Calls!Modes = Modes
  /\ Calls!EMPTY_FILE = EMPTY_FILE /\ Calls!STD = STD /\ Calls!NoFds = NoFds
  /\ \A e, S : Calls!IsFirst(e, S) = IsFirst(e, S)
  /\ \A p, i : Calls!Opened(p, i) = Opened(p, i)
  /\ Calls!NoEntry = NoEntry
  /\ \A o, p : Calls!closeAllFiles(o, p) = closeAllFiles(o, p)
  /\ \A o, p, i : Calls!lockFile(o, p, i) = lockFile(o, p, i)
<1>1. /\ Calls!Pids = Pids /\ Calls!Entries = Entries /\ Calls!Fds = Fds /\ Calls!Modes = Modes
      /\ Calls!EMPTY_FILE = EMPTY_FILE /\ Calls!STD = STD /\ Calls!NoFds = NoFds
  BY DEF Calls!Pids, Pids, Calls!Entries, Entries, Calls!Fds, Fds, Calls!Modes, Modes,
         Calls!EMPTY_FILE, EMPTY_FILE, Calls!STD, STD, Calls!NoFds, NoFds,
         Calls!KERNEL_OWNED, KERNEL_OWNED
<1>2. \A e, S : Calls!IsFirst(e, S) = IsFirst(e, S)
  BY DEF Calls!IsFirst, IsFirst
<1>3. (\A p, i : Calls!Opened(p, i) = Opened(p, i)) /\ Calls!NoEntry = NoEntry
  BY DEF Calls!Opened, Opened, Calls!NoEntry, NoEntry
<1>4. \A o, p : Calls!closeAllFiles(o, p) = closeAllFiles(o, p)
  BY <1>1, <1>3 DEF Calls!closeAllFiles, closeAllFiles
<1>5. \A o, p, i : Calls!lockFile(o, p, i) = lockFile(o, p, i)
  <2>1. \A o, p, i : /\ Calls!fileAvailableToBeLocked(o, i) = fileAvailableToBeLocked(o, i)
                     /\ Calls!OwnEntries(o, p, i) = OwnEntries(o, p, i)
    BY <1>1 DEF Calls!fileAvailableToBeLocked, fileAvailableToBeLocked, Calls!OwnEntries, OwnEntries
  <2> QED
    BY <1>1, <1>2, <2>1 DEF Calls!lockFile, lockFile
<1> QED
  BY <1>1, <1>2, <1>3, <1>4, <1>5

LEMMA InitCalls == StepsInit => Calls!Init
<1> SUFFICES ASSUME StepsInit PROVE Calls!Init
  OBVIOUS
<1>1. Seen(1) = oft /\ Seen(2) = fd /\ Seen(3) = nextFd
  BY SeenTables DEF StepsInit
<1>2. Calls!createOpenFileTable = createOpenFileTable
  BY SameOperators DEF Calls!createOpenFileTable, createOpenFileTable,
                       Calls!KERNEL_OWNED, KERNEL_OWNED
<1> QED
  BY <1>1, <1>2, SameOperators DEF StepsInit, Init, Calls!Init

(* Closing a descriptor depends on nextFd, which is that of the call's     *)
(* beginning.                                                              *)
LEMMA SameClose ==
  ASSUME Seen(3) = nextFd
  PROVE  \A o, d, p, fds : /\ Calls!CloseEntry(o, d, p, fds) = CloseEntry(o, d, p, fds)
                           /\ Calls!CloseFd(d, p, fds) = CloseFd(d, p, fds)
<1>1. \A d, p, fds : Calls!Closable(d, p, fds) = Closable(d, p, fds)
  BY SameOperators DEF Calls!Closable, Closable
<1> QED
  BY <1>1, SameOperators DEF Calls!CloseEntry, CloseEntry, Calls!CloseFd, CloseFd

LEMMA OneStepCalls ==
  ASSUME StepsInv, OneStepCall
  PROVE  Calls!Next
<1>1. todo = <<>> /\ todo' = <<>>
  BY DEF OneStepCall
<1>2. Seen(1) = oft /\ Seen(2) = fd /\ Seen(3) = nextFd
  BY <1>1, SeenTables
<1>3. Seen(1)' = oft' /\ Seen(2)' = fd' /\ Seen(3)' = nextFd'
  BY <1>1, SeenTablesPrimed
<1>4. Calls!Callers = Callers
  BY <1>2, SameOperators DEF Calls!Callers, Callers
<1>5. CASE \E p \in Callers, d \in Fds : sysClose(p, d)
  <2>1. PICK p \in Callers, d \in Fds : sysClose(p, d)
    BY <1>5
  <2>2. Calls!sysClose(p, d)
    BY <1>2, <1>3, <2>1, SameClose DEF sysClose, Calls!sysClose
  <2> QED
    BY <1>4, <2>2, SameOperators DEF Calls!Next
<1>6. CASE \E freed \in SUBSET (Callers \ {1}) : ZeroTaskFiles(freed)
  <2>1. PICK freed \in SUBSET (Callers \ {1}) : ZeroTaskFiles(freed)
    BY <1>6
  <2>2. Calls!ZeroTaskFiles(freed)
    BY <1>2, <1>3, <2>1, SameOperators DEF ZeroTaskFiles, Calls!ZeroTaskFiles
  <2> QED
    BY <1>4, <2>2 DEF Calls!Next
<1> QED
  BY <1>5, <1>6 DEF OneStepCall

LEMMA ReturnCalls ==
  ASSUME StepsInv, Return
  PROVE  Calls!Next
<1>1. InCall /\ IInv /\ Head(todo) = Work("return") /\ todo # <<>>
  BY DEF StepsInv, Return, Now
<1>2. Returning
  BY <1>1, AtWork
<1>3. todo' = <<>> /\ oft' = oft /\ fd' = fd /\ nextFd' = nextFd
  BY ReturnInv DEF Return, ovars
<1>4. Seen(1) = OldOft /\ Seen(2) = OldFd /\ Seen(3) = OldNextFd
  BY <1>1, SeenTables
<1>5. Seen(1)' = oft /\ Seen(2)' = fd /\ Seen(3)' = nextFd
  <2>1. Seen(1)' = oft' /\ Seen(2)' = fd' /\ Seen(3)' = nextFd'
    BY <1>3, SeenTablesPrimed
  <2> QED
    BY <1>3, <2>1
<1>6. /\ pid \in Pids /\ OldNextFd[pid] >= STD /\ pid \in Calls!Callers
      /\ OldNextFd \in [Pids -> 0 .. MAX_FILE_DESCRIPTORS]
  BY <1>1, <1>4, SomeNumbers, SameOperators DEF InCall, OldNextFd, Calls!Callers
<1>7. ASSUME NEW k \in Kinds, Opening(k), FirstFree
      PROVE  /\ ~Calls!AtFdLimit(pid) /\ ~Calls!insertPanics
             /\ Calls!IsFirst(avail, Calls!FreeEntries) /\ avail \in Calls!Entries
             /\ Calls!insertOpenFileTableEntry(avail, pid, inode) = Inserted
  <2>1. ~(OldNextFd[pid] >= MAX_FILE_DESCRIPTORS)
    BY <1>7, ConstantsAssumption, SMT DEF Opening, Fds, STD
  <2>2. Calls!FreeEntries = OldFree
    BY <1>4, SameOperators DEF Calls!FreeEntries, OldFree
  <2>3. avail \in Entries
    BY <1>7 DEF FirstFree, IsFirst, OldFree
  <2> QED
    BY <1>4, <1>7, <2>1, <2>2, <2>3, SameOperators
       DEF Calls!AtFdLimit, Calls!insertPanics, FirstFree, Inserted, Calls!insertOpenFileTableEntry
<1>8. ASSUME NEW mode \in Modes, DoneOpen(mode)
      PROVE  Calls!Next
  <2>1. /\ Opening(mode) /\ FirstFree /\ mode \in Kinds /\ mode # "EMPTY" /\ oft = Locked(mode)
        /\ fd = Descriptor /\ nextFd = [OldNextFd EXCEPT ![pid] = @ + 1]
    BY <1>8 DEF DoneOpen, Kinds, Modes
  <2>2. inode \in Inodes
    BY <2>1 DEF Opening
  <2>3. Calls!sysOpen(pid, inode, mode, avail)
    BY <1>4, <1>5, <1>7, <2>1, SameOperators DEF Calls!sysOpen, Locked, Descriptor
  <2> QED
    BY <1>6, <1>7, <2>1, <2>2, <2>3, SameOperators DEF Calls!Next
<1>9. ASSUME DoneOpenEmpty
      PROVE  Calls!Next
  <2>1. /\ Opening("EMPTY") /\ FirstFree /\ "EMPTY" \in Kinds /\ nextFd = OldNextFd
        /\ oft = CloseEntry(Inserted, OldNextFd[pid], pid, Descriptor)
        /\ fd = CloseFd(OldNextFd[pid], pid, Descriptor)
    BY <1>9 DEF DoneOpenEmpty, Kinds
  <2>2. inode = EMPTY_FILE /\ Seen(3) = nextFd
    BY <1>4, <2>1 DEF Opening
  <2>3. Calls!sysOpenEmpty(pid, avail)
    BY <1>4, <1>5, <1>7, <2>1, <2>2, SameClose, SameOperators DEF Calls!sysOpenEmpty, Descriptor
  <2> QED
    BY <1>6, <1>7, <2>1, <2>3 DEF Calls!Next
<1>10. ASSUME DoneFork
       PROVE  Calls!Next
  <2>1. avail \in Calls!Pids \ Calls!Callers
    BY <1>4, <1>10, SameOperators, SMT DEF DoneFork, Calls!Callers, STD
  <2>2. Calls!NewTaskFiles(avail)
    BY <1>4, <1>5, <1>10, SameOperators DEF DoneFork, Calls!NewTaskFiles
  <2> QED
    BY <2>1, <2>2 DEF Calls!Next
<1>11. ASSUME DoneExit
       PROVE  Calls!Next
  <2>1. Calls!CloseProcessFiles(pid)
    BY <1>4, <1>5, <1>11, SameOperators DEF DoneExit, Calls!CloseProcessFiles
  <2> QED
    BY <1>6, <2>1 DEF Calls!Next
<1> QED
  BY <1>2, <1>8, <1>9, <1>10, <1>11 DEF Returning

(* Everything else is hidden: the call is as far as when it began.         *)
LEMMA NextCalls == StepsInv /\ StepsInv' /\ [StepsNext]_vars => [Calls!Next]_(Calls!ovars)
<1> SUFFICES ASSUME StepsInv, StepsInv', [StepsNext]_vars PROVE [Calls!Next]_(Calls!ovars)
  OBVIOUS
<1>1. ASSUME NEW p \in Callers, BeginCall(p)
      PROVE  UNCHANGED Calls!ovars
  <2>1. todo = <<>> /\ pid' = p /\ before' = ovars
    BY <1>1, Zenon DEF BeginCall, Begin
  <2>2. todo' # <<>>
    <3>1. pid' # 0
      BY <2>1, SomeNumbers, Numbers
    <3>2. InCall'
      BY <3>1 DEF StepsInv
    <3> QED
      BY <3>2, CallIsBusyPrimed
  <2>3. OldOft' = oft /\ OldFd' = fd /\ OldNextFd' = nextFd
    BY <2>1 DEF OldOft, OldFd, OldNextFd, ovars
  <2>4. Seen(1)' = OldOft' /\ Seen(2)' = OldFd' /\ Seen(3)' = OldNextFd'
    BY <2>2, SeenTablesPrimed
  <2> QED
    BY <2>1, <2>3, <2>4, SeenTables DEF Calls!ovars
<1>2. ASSUME todo # <<>>, UNCHANGED call
      PROVE  UNCHANGED Calls!ovars
  <2>1. InCall /\ pid' = pid /\ before' = before
    BY <1>2 DEF StepsInv, call
  <2>2. pid' # 0
    BY <2>1, SomeNumbers, Numbers DEF InCall
  <2>3. InCall'
    BY <2>2 DEF StepsInv
  <2>4. todo' # <<>>
    BY <2>3, CallIsBusyPrimed
  <2> QED
    BY <1>2, <2>1, <2>4 DEF Calls!ovars, Seen
<1>3. CASE Step
  <2>1. CASE Return
    BY <2>1, ReturnCalls
  <2>2. CASE ~Return
    <3>1. todo # <<>> /\ UNCHANGED call
      BY <1>3, <2>2, Zenon
         DEF Step, acquireLock, releaseLock, findEntry, findSlot, Find, writeEntry, fillSlot,
             findLocked, findOwn, closeEntries, setDescriptor, countDescriptor, close, Now
    <3> QED
      BY <1>2, <3>1
  <2> QED
    BY <2>1, <2>2
<1>4. CASE UNCHANGED vars
  <2>1. /\ oft' = oft /\ fd' = fd /\ nextFd' = nextFd /\ todo' = todo /\ before' = before
    BY <1>4 DEF vars, ovars, call
  <2> QED
    BY <2>1 DEF Calls!ovars, Seen, ovars
<1>5. CASE Halted
  BY <1>4, <1>5 DEF Halted
<1> QED
  BY <1>1, <1>3, <1>4, <1>5, OneStepCalls DEF StepsNext

(* Semaphore by semaphore and entry by entry, with the early returns of    *)
(* lockFile and the panics in the middle, a call does to the tables what   *)
(* OpenFiles says it does in one step (file.cpp, syscalls.cpp).            *)
THEOREM CallsImplemented == StepsSpec => StepsImplementCalls
<1>1. StepsInv /\ StepsInv' /\ [StepsNext]_vars => [Calls!Next]_(Calls!ovars)
  BY NextCalls
<1> QED
  BY <1>1, InitCalls, StepsInvariant, PTL DEF StepsSpec, StepsImplementCalls, Calls!Spec

-----------------------------------------------------------------------------
(* The steps implement FileLock too: no scan in the middle of lockFile     *)
(* gives a lock away.                                                      *)
LEMMA WriteEntryLocks ==
  ASSUME StepsInv, StepsInv', writeEntry
  PROVE  \A i \in Inodes : Writer(oft', i) = Writer(oft, i)
<1>1. InCall /\ IInv /\ IInv' /\ Head(todo) = Work("writeEntry")
  BY DEF StepsInv, writeEntry, Now
<1>2. PICK k \in Kinds : Opening(k) /\ Writing(k)
  BY <1>1, AtWork
<1>3. GoodTable(oft) /\ GoodTable(oft') /\ oft \in [Entries -> Entry]
  BY <1>1, GoodTableIInv, GoodTablePrimed DEF IInv, TypeOK
<1>4. avail \in Entries /\ oft[avail].openedByPid = 0
  BY <1>2 DEF Writing, FirstFree, Untouched, IsFirst, OldFree
<1>5. oft' = [oft EXCEPT ![avail] = Opened(pid, inode)]
  BY DEF writeEntry, insertOpenFileTableEntry
<1>6. ~Marked(oft, avail)
  BY <1>3, <1>4, Numbers, Zenon DEF GoodTable
<1>7. ~Marked(oft', avail) /\ \A e \in Entries \ {avail} : oft'[e] = oft[e]
  BY <1>3, <1>4, <1>5 DEF Marked, Opened
<1> QED
  BY <1>3, <1>4, <1>6, <1>7, SameWriters

LEMMA FindOwnLocks ==
  ASSUME StepsInv, findOwn
  PROVE  [Lock!Next]_writers
<1>1. InCall /\ IInv /\ Head(todo) = Work("findOwn")
  BY DEF StepsInv, findOwn, Now
<1>2. Opening("RDWRITE") /\ pid \in Pids
  BY <1>1, AtWork, SomeNumbers DEF InCall
<1>3. inode \in Inodes /\ oft' \in {oft, lockFile(oft, pid, inode)}
  BY <1>2, FindOwnInv DEF Opening
<1>4. GoodTable(oft) /\ oft \in [Entries -> Entry]
  BY <1>1, GoodTableIInv DEF IInv, TypeOK
<1>5. CASE oft' = oft
  BY <1>5 DEF writers
<1>6. CASE oft' # oft
  <2>1. /\ Writer(oft, inode) = 0
        /\ \A j \in Inodes : Writer(oft', j) = IF j = inode THEN pid ELSE Writer(oft, j)
    BY <1>2, <1>3, <1>4, <1>6, LockLocks
  <2>2. writers[inode] = 0 /\ writers' = [writers EXCEPT ![inode] = pid]
    BY <1>3, <2>1 DEF writers
  <2>3. Lock!Acquire(pid, inode)
    BY <2>2 DEF Lock!Acquire, writers
  <2> QED
    BY <1>2, <1>3, <2>3 DEF Lock!Next
<1> QED
  BY <1>5, <1>6

LEMMA CloseEntriesLocks ==
  ASSUME StepsInv, StepsInv', closeEntries
  PROVE  Lock!Next
<1>1. InCall /\ IInv /\ IInv' /\ Head(todo) = Work("closeEntries")
  BY DEF StepsInv, closeEntries, Now
<1>2. pid \in Pids /\ at \in Entries /\ oft \in [Entries -> Entry]
  BY <1>1, AtWork, SomeNumbers DEF InCall, ClosingAll, IInv, TypeOK
<1>3. oft' = IF oft[at].openedByPid = pid THEN [oft EXCEPT ![at] = NoEntry] ELSE oft
  BY DEF closeEntries
<1>4. /\ \A e \in Entries : oft'[e] = oft[e] \/ oft'[e] = NoEntry
      /\ \A e \in Entries : oft'[e] # oft[e] => oft[e].openedByPid = pid
  BY <1>2, <1>3
<1>5. PICK given \in SUBSET Inodes :
        /\ \A i \in given : Writer(oft, i) = pid
        /\ \A i \in Inodes : Writer(oft', i) = IF i \in given THEN 0 ELSE Writer(oft, i)
  BY <1>1, <1>2, <1>4, ClearReleases
<1>6. Lock!Release(pid, given)
  BY <1>5 DEF Lock!Release, writers
<1> QED
  BY <1>2, <1>6 DEF Lock!Next

LEMMA StepsRefineLock == StepsInv /\ StepsInv' /\ [StepsNext]_vars => [Lock!Next]_writers
<1> SUFFICES ASSUME StepsInv, StepsInv', [StepsNext]_vars PROVE [Lock!Next]_writers
  OBVIOUS
<1>1. IInv /\ IInv'
  BY DEF StepsInv
<1>2. ASSUME oft' = oft PROVE writers' = writers
  BY <1>2 DEF writers
<1>3. CASE OneStepCall
  BY <1>1, <1>3, NextRefines DEF OneStepCall, Next
<1>4. CASE close
  <2>1. InCall /\ Head(todo) = Work("close")
    BY <1>4, CallIsBusy DEF StepsInv, close, Now
  <2>2. pid \in Callers /\ nextFd[pid] \in Fds
    BY <2>1, AtWork DEF InCall, Closing, Described, Opening
  <2>3. Next
    BY <1>4, <2>2 DEF close, Next
  <2> QED
    BY <1>1, <2>3, NextRefines
<1>5. CASE writeEntry
  BY <1>5, WriteEntryLocks DEF writers
<1>6. CASE Step /\ ~close /\ ~writeEntry /\ ~findOwn /\ ~closeEntries
  <2>1. oft' = oft
    BY <1>6, Zenon
       DEF Step, acquireLock, releaseLock, findEntry, findSlot, Find, fillSlot, NewTaskFiles,
           findLocked, setDescriptor, countDescriptor, Return, ovars
  <2> QED
    BY <1>2, <2>1
<1>7. CASE \E p \in Callers : BeginCall(p)
  <2>1. oft' = oft
    BY <1>7, Zenon DEF BeginCall, Begin, ovars
  <2> QED
    BY <1>2, <2>1
<1>8. CASE Halted \/ UNCHANGED vars
  BY <1>2, <1>8 DEF Halted, vars, ovars
<1> QED
  BY <1>3, <1>4, <1>5, <1>6, <1>7, <1>8, FindOwnLocks, CloseEntriesLocks DEF StepsNext

(* The marks are a lock for each file at every step of a call, not only    *)
(* when it is done: the lock is taken while it is free, and given back by  *)
(* the owner (lockFile, closeAllFiles, sysClose).                          *)
THEOREM StepsImplementLock == StepsSpec => ImplementsFileLock
<1>1. StepsInit => Lock!Init
  BY InitRefines DEF StepsInit
<1>2. StepsInv /\ StepsInv' /\ [StepsNext]_vars => [Lock!Next]_writers
  BY StepsRefineLock
<1> QED
  BY <1>1, <1>2, StepsInvariant, PTL DEF StepsSpec, ImplementsFileLock, Lock!Spec, writers
=============================================================================
