------------------------------ MODULE OpenFiles ------------------------------
(***************************************************************************)
(* The system-wide open file table, the descriptors of every task that     *)
(* point into it, and the write lock of a file, which is a mark on one of  *)
(* the entries of its inode.  Every routine of file.cpp holds the          *)
(* OPEN_FILE_TABLE semaphore while it works, so each call is one step;     *)
(* FileTable.tla has the routines step by step.                            *)
(***************************************************************************)
EXTENDS Constants

CONSTANT Inodes   (* inode numbers of the files that can be opened         *)

EMPTY_FILE == 65535   (* the inode sysOpenEmpty writes: it has none yet    *)

ASSUME InodesAssumption == Inodes \subseteq 1 .. (EMPTY_FILE - 1)

VARIABLES
  oft,      (* the open file table                                         *)
  fd,       (* task.fileDescriptor: number of an entry, 0 when null        *)
  nextFd    (* task.nextAvailableFileDescriptor                            *)

ovars == <<oft, fd, nextFd>>

Entries == 1 .. MAX_SYSTEM_OPEN_FILES
Fds     == STD .. (MAX_FILE_DESCRIPTORS - 1)
Modes   == {"RDONLY", "RDWRITE"}

Entry == [openedByPid : Pids \union {0, KERNEL_OWNED},
          inode : Inodes \union {0, EMPTY_FILE},
          lockedForWriting : BOOLEAN]
Opened(p, i) == [openedByPid |-> p, inode |-> i, lockedForWriting |-> FALSE]
NoEntry == Opened(0, 0)
NoFds   == [d \in Fds |-> 0]

createOpenFileTable ==
  [e \in Entries |-> IF e <= STD THEN Opened(KERNEL_OWNED, 0) ELSE NoEntry]

Init ==
  /\ oft = createOpenFileTable
  /\ fd = [p \in Pids |-> NoFds]
  /\ nextFd = [p \in Pids |-> IF p = 1 THEN STD ELSE 0]

-----------------------------------------------------------------------------
(* The routines of file.cpp.                                               *)

(* insertOpenFileTableEntry takes the first free entry; its scan panics    *)
(* when it looks at the last one, even if that one is free.                *)
FreeEntries == {e \in Entries : oft[e].openedByPid = 0}
insertPanics == FreeEntries \subseteq {MAX_SYSTEM_OPEN_FILES}
insertOpenFileTableEntry(e, p, i) == [oft EXCEPT ![e] = Opened(p, i)]

Mutant_closeAllFiles(o, p) == [o EXCEPT ![p + STD] = NoEntry]    \* one entry, by pid
closeAllFiles(o, p) ==
  [e \in Entries |-> IF o[e].openedByPid = p THEN NoEntry ELSE o[e]]

fileAvailableToBeLocked(o, i) ==
  ~ \E e \in Entries : o[e].inode = i /\ o[e].lockedForWriting

(* The lock goes to the first entry that the process has of this inode.    *)
OwnEntries(o, p, i) == {e \in Entries : o[e].inode = i /\ o[e].openedByPid = p}
Mutant_lockFile(o, p, i) ==    (* the lock of another process is not seen   *)
  [e \in Entries |->
     IF IsFirst(e, OwnEntries(o, p, i)) THEN [o[e] EXCEPT !.lockedForWriting = TRUE] ELSE o[e]]
lockFile(o, p, i) ==
  [e \in Entries |->
     IF fileAvailableToBeLocked(o, i) /\ IsFirst(e, OwnEntries(o, p, i))
       THEN [o[e] EXCEPT !.lockedForWriting = TRUE]
       ELSE o[e]]

(* sysClose, once written: clears the entry and the descriptor.            *)
Closable(d, p, fds) == "sysClose" \in Solved /\ nextFd[p] > 2 /\ d \in Fds /\ fds[p][d] # 0
Mutant_CloseEntry(o, d, p, fds) == [o EXCEPT ![d] = NoEntry]    \* descriptor as entry
Mutant_CloseEntryLeft(o, d, p, fds) == o    \* the entry stays
CloseEntry(o, d, p, fds) == IF Closable(d, p, fds) THEN [o EXCEPT ![fds[p][d]] = NoEntry] ELSE o
CloseFd(d, p, fds) == IF Closable(d, p, fds) THEN [fds EXCEPT ![p][d] = 0] ELSE fds

-----------------------------------------------------------------------------
(* What the system calls do to the table, for the calling process p.       *)

Mutant_AtFdLimit(p) == nextFd[p] > MAX_FILE_DESCRIPTORS    \* off by one
AtFdLimit(p) == nextFd[p] >= MAX_FILE_DESCRIPTORS

(* A file of inode i is opened in entry e.  A file locked by somebody else *)
(* is reported, and opened all the same.                                   *)
sysOpen(p, i, mode, e) ==
  /\ ~AtFdLimit(p)
  /\ ~insertPanics
  /\ IsFirst(e, FreeEntries)
  /\ LET opened == insertOpenFileTableEntry(e, p, i)
     IN oft' = IF mode = "RDWRITE" THEN lockFile(opened, p, i) ELSE opened
  /\ fd' = [fd EXCEPT ![p][nextFd[p]] = e]
  /\ nextFd' = [nextFd EXCEPT ![p] = @ + 1]

(* The descriptor of the new, empty file is closed again once the file is  *)
(* on disk; nextAvailableFileDescriptor stays.                             *)
sysOpenEmpty(p, e) ==
  /\ ~AtFdLimit(p)
  /\ ~insertPanics
  /\ IsFirst(e, FreeEntries)
  /\ LET opened == insertOpenFileTableEntry(e, p, EMPTY_FILE)
         fds == [fd EXCEPT ![p][nextFd[p]] = e]
     IN /\ oft' = CloseEntry(opened, nextFd[p], p, fds)
        /\ fd' = CloseFd(nextFd[p], p, fds)
  /\ UNCHANGED nextFd

sysClose(p, d) ==
  /\ oft' = CloseEntry(oft, d, p, fd)
  /\ fd' = CloseFd(d, p, fd)
  /\ UNCHANGED nextFd

(* sysExit, and sysKill once written, close every file of a process; the   *)
(* descriptors of its task are left as they are.                           *)
CloseProcessFiles(p) ==
  /\ oft' = closeAllFiles(oft, p)
  /\ UNCHANGED <<fd, nextFd>>

(* initializeTask sets nextAvailableFileDescriptor and clears no           *)
(* descriptor: the slot is taken to be zero.                               *)
NewTaskFiles(p) ==
  /\ nextFd' = [nextFd EXCEPT ![p] = STD]
  /\ UNCHANGED <<oft, fd>>

(* sysFree, once written, zeroes the slots of dead tasks.                  *)
Mutant_ZeroTaskFiles(freed) ==    (* the descriptors are not zeroed          *)
  /\ nextFd' = [p \in Pids |-> IF p \in freed THEN 0 ELSE nextFd[p]]
  /\ UNCHANGED <<oft, fd>>
ZeroTaskFiles(freed) ==
  /\ fd' = [p \in Pids |-> IF p \in freed THEN NoFds ELSE fd[p]]
  /\ nextFd' = [p \in Pids |-> IF p \in freed THEN 0 ELSE nextFd[p]]
  /\ UNCHANGED oft

(* Alone, the table serves any initialised tasks in any order; Kernel.tla  *)
(* says which tasks there are.                                             *)
Callers == {p \in Pids : nextFd[p] >= STD}

Next ==
  \/ \E p \in Callers, e \in Entries :
       \/ \E i \in Inodes, mode \in Modes : sysOpen(p, i, mode, e)
       \/ sysOpenEmpty(p, e)
  \/ \E p \in Callers, d \in Fds : sysClose(p, d)
  \/ \E p \in Callers : CloseProcessFiles(p)
  \/ \E p \in Pids \ Callers : NewTaskFiles(p)
  \/ \E freed \in SUBSET (Callers \ {1}) : ZeroTaskFiles(freed)

Spec == Init /\ [][Next]_ovars

-----------------------------------------------------------------------------
(* Properties.                                                             *)

TypeOK ==
  /\ oft \in [Entries -> Entry]
  /\ fd \in [Pids -> [Fds -> Entries \union {0}]]
  /\ nextFd \in [Pids -> 0 .. MAX_FILE_DESCRIPTORS]

(* At most one entry of an inode is locked for writing (lockFile,          *)
(* fileAvailableToBeLocked), whoever opened the file, how often, and       *)
(* whichever entries were closed and used again in between.                *)
LockExclusive ==
  \A e1, e2 \in Entries :
    oft[e1].lockedForWriting /\ oft[e2].lockedForWriting /\ oft[e1].inode = oft[e2].inode
      => e1 = e2

(* lockedForWriting: "Is this file locked for writing (i.e., opened with   *)
(* RDWRITE permissions)" (file.h:42).  The entry made by opening a file    *)
(* with RDWRITE, while nobody has it locked, is the one with the mark.     *)
LockMarksItsEntry ==
  [][\A p \in Callers, e \in Entries, i \in Inodes :
       sysOpen(p, i, "RDWRITE", e) /\ fileAvailableToBeLocked(oft, i)
         => oft'[e].lockedForWriting]_ovars

(* The writer of a file in table o: 0 when nobody holds its lock.          *)
Writer(o, i) ==
  IF fileAvailableToBeLocked(o, i)
    THEN 0
    ELSE o[CHOOSE e \in Entries : o[e].inode = i /\ o[e].lockedForWriting].openedByPid

(* The marks in the table implement one lock per file: it is taken only    *)
(* when free, kept by its owner, and freed before another process has it.  *)
Lock == INSTANCE FileLock WITH Owners <- Pids, Files <- Inodes, Nobody <- 0,
                               writer <- [i \in Inodes |-> Writer(oft, i)]
ImplementsFileLock == Lock!Spec
=============================================================================
