----------------------------- MODULE Kernel_proofs -----------------------------
(***************************************************************************)
(* Proofs about Kernel.  What is proved of Processes and of OpenFiles is   *)
(* carried over: a step of Kernel is a step of Processes, and a step of    *)
(* OpenFiles or none.  On top of that come the invariants that relate the  *)
(* two tables.                                                             *)
(***************************************************************************)
EXTENDS Kernel, TLAPS

PP == INSTANCE Processes_proofs
OO == INSTANCE FileTable_proofs      (* its part about OpenFiles is used    *)
        WITH sem <- <<>>, todo <- <<>>, pid <- 0, inode <- 0, at <- 1, avail <- 0, before <- <<>>

-----------------------------------------------------------------------------
(* The constants and the next-state relation of the instances are those of *)
(* Kernel.                                                                 *)
LEMMA SameAssumptions ==
  /\ PP!ConstantsAssumption /\ OO!ConstantsAssumption /\ OO!InodesAssumption
<1>1. PP!ConstantsAssumption
  BY ConstantsAssumption DEF PP!KERNEL_OWNED, KERNEL_OWNED, PP!STD, STD,
                             PP!Assignments, Assignments
<1>2. OO!ConstantsAssumption
  BY ConstantsAssumption DEF OO!KERNEL_OWNED, KERNEL_OWNED, OO!STD, STD,
                             OO!Assignments, Assignments
<1>3. OO!InodesAssumption
  <2>1. OO!EMPTY_FILE = O!EMPTY_FILE
    BY DEF OO!EMPTY_FILE, O!EMPTY_FILE
  <2>2. Inodes \subseteq 1 .. (OO!EMPTY_FILE - 1)
    BY <2>1, InodesAreNumbers
  <2> QED
    BY <2>2
<1> QED
  BY <1>1, <1>2, <1>3

LEMMA SameProcesses == (P!Init => PP!Init) /\ (P!Next => PP!Next) /\ P!pvars = PP!pvars
<1>1. P!Init => PP!Init
  BY DEF P!Init, PP!Init, P!Pids, PP!Pids, P!KERNEL_OWNED, PP!KERNEL_OWNED
<1>2. P!Next => PP!Next
  BY DEF P!Next, P!OtherSyscall, P!sysForkExecRefused, P!sysForkExecNoPage,
     P!sysForkExecNotElf, P!sysForkExec, P!sysExit, P!sysSwitchToParent, P!sysKill,
     P!sysSwitch, P!sysFree, P!sysToggleScheduler, P!Resume, P!Halted, P!EnterKernel,
     P!initializeTask, P!initializeTaskPanics, P!FreeSlots, P!KillState, P!Reparent,
     P!Killable, P!AfterSwitchTo, P!SwitchTo, P!Freed, P!updateTaskState, P!pvars, P!Pids,
     P!IsFirst, P!Dead,
     PP!Next, PP!OtherSyscall, PP!sysForkExecRefused, PP!sysForkExecNoPage,
     PP!sysForkExecNotElf, PP!sysForkExec, PP!sysExit, PP!sysSwitchToParent, PP!sysKill,
     PP!sysSwitch, PP!sysFree, PP!sysToggleScheduler, PP!Resume, PP!Halted, PP!EnterKernel,
     PP!initializeTask, PP!initializeTaskPanics, PP!FreeSlots, PP!KillState, PP!Reparent,
     PP!Killable, PP!AfterSwitchTo, PP!SwitchTo, PP!Freed, PP!updateTaskState, PP!pvars,
     PP!Pids, PP!IsFirst, PP!Dead
<1>3. P!pvars = PP!pvars
  BY DEF P!pvars, PP!pvars
<1> QED
  BY <1>1, <1>2, <1>3

(* Every step of the kernel is a step of Processes.                        *)
LEMMA StepOfProcesses == [Next]_vars => [P!Next]_(P!pvars)
<1>1. vars' = vars => P!pvars' = P!pvars
  BY DEF vars, P!pvars
<1>2. Next => P!Next
  BY DEF Next, NoFileCall, sysOpen, sysOpenEmpty, sysClose, sysForkExec, sysForkExecNotElf,
     sysExit, sysKill, sysFree, P!Next, Pids, P!Pids
<1> QED
  BY <1>1, <1>2

LEMMA ProcessesInvariant ==
  /\ Init => PP!IInv
  /\ PP!IInv /\ [Next]_vars => PP!IInv'
<1>1. Init => PP!IInv
  BY SameAssumptions, SameProcesses, PP!InitIInv DEF Init
<1>2. ASSUME PP!IInv, [Next]_vars PROVE PP!IInv'
  <2>1. [PP!Next]_(PP!pvars)
    BY <1>2, StepOfProcesses, SameProcesses DEF P!pvars, PP!pvars
  <2>2. PP!Core'
    BY <1>2, <2>1, SameAssumptions, PP!NextCore DEF PP!IInv
  <2>3. PP!FlagsOK'
    BY <1>2, <2>1, SameAssumptions, PP!NextFlags DEF PP!IInv
  <2> QED
    BY <2>2, <2>3 DEF PP!IInv
<1> QED
  BY <1>1, <1>2

(* What Kernel needs of PP!IInv, in its own words.                         *)
LEMMA ProcessFacts ==
  ASSUME PP!IInv
  PROVE  /\ inUse \subseteq Pids /\ 1 \in inUse /\ runningPid \in Pids
         /\ state \in [Pids -> States]
         /\ \A p \in Pids : state[p] = "RUNNING" <=> p = runningPid
         /\ cpu \in {"user", "kernel"} => runningPid \in inUse
         /\ state[1] \notin Dead
BY DEF PP!IInv, PP!Core, PP!TableOK, PP!OneRunning, PP!InitAlive, PP!CallerHasTask,
       PP!Pids, Pids, PP!States, States, PP!Dead, Dead

-----------------------------------------------------------------------------
(* The steps of Processes, as far as the file tables are concerned: who is *)
(* alive afterwards, and which slots are in use.                           *)
USE DEF P!Pids, Pids, P!States, States, P!Dead, Dead, P!IsFirst, IsFirst

Quiet ==   (* a step of the process table that ends or frees no process    *)
  \/ P!OtherSyscall \/ P!sysForkExecRefused \/ P!sysSwitchToParent
  \/ \E k \in Pids : P!sysSwitch(k)
  \/ P!sysToggleScheduler \/ P!Resume \/ P!Halted

LEMMA QuietStep ==
  ASSUME PP!IInv, Quiet
  PROVE  inUse' = inUse /\ \A q \in Pids : Alive(q) => Alive(q)'
<1> USE ProcessFacts
<1>1. CASE P!OtherSyscall \/ P!sysForkExecRefused \/ P!sysToggleScheduler \/ P!Halted
  BY <1>1 DEF P!OtherSyscall, P!sysForkExecRefused, P!sysToggleScheduler, P!Halted, P!pvars,
              Alive
<1>2. CASE P!sysSwitchToParent
  BY <1>2, SMT DEF P!sysSwitchToParent, P!updateTaskState, Alive
<1>3. ASSUME NEW k \in Pids, P!SwitchTo(k), inUse' = inUse
      PROVE  inUse' = inUse /\ \A q \in Pids : Alive(q) => Alive(q)'
  BY <1>3, SMT DEF P!SwitchTo, P!updateTaskState, Alive
<1>4. CASE P!Resume
  <2>1. inUse' = inUse /\ (state' = state \/ \E k \in Pids : P!SwitchTo(k))
    BY <1>4, Zenon DEF P!Resume
  <2> QED
    BY <2>1, <1>3, Zenon DEF Alive
<1>5. CASE \E k \in Pids : P!sysSwitch(k)
  BY <1>5, <1>3, Zenon DEF P!sysSwitch
<1> QED
  BY <1>1, <1>2, <1>4, <1>5 DEF Quiet

LEMMA ForkStep ==
  ASSUME PP!IInv, NEW n \in Pids,
         P!sysForkExec(n) \/ P!sysForkExecNoPage(n) \/ P!sysForkExecNotElf(n)
  PROVE  /\ n \notin inUse /\ inUse' = inUse \union {n} /\ n # runningPid /\ runningPid \in inUse
         /\ \A q \in Pids \ {n} : Alive(q) => Alive(q)'
         /\ P!sysForkExec(n) \/ P!sysForkExecNoPage(n) => Alive(n)'
<1> USE ProcessFacts DEF P!initializeTask, P!FreeSlots, P!EnterKernel, P!updateTaskState, Alive
<1>1. CASE P!sysForkExec(n)
  BY <1>1, SMT DEF P!sysForkExec
<1>2. CASE P!sysForkExecNoPage(n)
  BY <1>2, SMT DEF P!sysForkExecNoPage
<1>3. CASE P!sysForkExecNotElf(n)
  BY <1>3, SMT DEF P!sysForkExecNotElf, P!sysForkExec, P!sysForkExecNoPage, P!KillState
<1> QED
  BY <1>1, <1>2, <1>3

LEMMA ExitStep ==
  ASSUME PP!IInv, P!sysExit
  PROVE  /\ inUse' = inUse /\ runningPid \in inUse
         /\ \A q \in Pids \ {runningPid} : Alive(q) => Alive(q)'
BY ProcessFacts, SMT DEF P!sysExit, P!EnterKernel, P!updateTaskState, Alive

LEMMA KillStep ==
  ASSUME PP!IInv, NEW k \in Pids, P!sysKill(k)
  PROVE  /\ inUse' = inUse /\ k # runningPid
         /\ \A q \in Pids \ {k} : Alive(q) => Alive(q)'
         /\ ~P!Killable(k, inUse) => (Alive(k) => Alive(k)')
         /\ P!Killable(k, inUse) => k \in inUse
BY ProcessFacts, SMT DEF P!sysKill, P!KillState, P!Killable, P!updateTaskState, Alive

LEMMA FreeStep ==
  ASSUME PP!IInv, P!sysFree
  PROVE  /\ inUse' = inUse \ P!Freed /\ P!Freed \subseteq inUse \ {1}
         /\ \A q \in Pids : Alive(q) => Alive(q)'
BY ProcessFacts, SMT DEF P!sysFree, P!Freed, Alive

-----------------------------------------------------------------------------
(* The file tables.                                                        *)
LEMMA SameFiles == (O!Init => OO!Init) /\ (O!Next => OO!Next) /\ O!ovars = OO!ovars
<1>1. O!Init => OO!Init
  BY DEF O!Init, OO!Init, O!createOpenFileTable, OO!createOpenFileTable, O!Entries, OO!Entries,
     O!STD, OO!STD, O!Opened, OO!Opened, O!KERNEL_OWNED, OO!KERNEL_OWNED, O!NoEntry, OO!NoEntry,
     O!NoFds, OO!NoFds, O!Fds, OO!Fds, O!Pids, OO!Pids
<1>2. O!Next => OO!Next
  <2> USE DEF O!Entries, OO!Entries, O!Fds, OO!Fds, O!Pids, OO!Pids, O!STD, OO!STD,
          O!Opened, OO!Opened, O!NoEntry, OO!NoEntry, O!NoFds, OO!NoFds,
          O!EMPTY_FILE, OO!EMPTY_FILE, O!AtFdLimit, OO!AtFdLimit,
          O!insertPanics, OO!insertPanics, O!FreeEntries, OO!FreeEntries, O!IsFirst, OO!IsFirst,
          O!insertOpenFileTableEntry, OO!insertOpenFileTableEntry,
          O!CloseEntry, OO!CloseEntry, O!CloseFd, OO!CloseFd, O!Closable, OO!Closable,
          O!lockFile, OO!lockFile, O!fileAvailableToBeLocked, OO!fileAvailableToBeLocked,
          O!OwnEntries, OO!OwnEntries, O!closeAllFiles, OO!closeAllFiles
  <2>1. \A p, i, mode, e : O!sysOpen(p, i, mode, e) => OO!sysOpen(p, i, mode, e)
    BY SMT DEF O!sysOpen, OO!sysOpen
  <2>2. \A p, e : O!sysOpenEmpty(p, e) => OO!sysOpenEmpty(p, e)
    BY SMT DEF O!sysOpenEmpty, OO!sysOpenEmpty
  <2>3. \A p, d : O!sysClose(p, d) => OO!sysClose(p, d)
    BY Zenon DEF O!sysClose, OO!sysClose
  <2>4. \A p : /\ O!CloseProcessFiles(p) => OO!CloseProcessFiles(p)
               /\ O!NewTaskFiles(p) => OO!NewTaskFiles(p)
    BY Zenon DEF O!CloseProcessFiles, OO!CloseProcessFiles, O!NewTaskFiles, OO!NewTaskFiles
  <2>5. \A freed : O!ZeroTaskFiles(freed) => OO!ZeroTaskFiles(freed)
    BY Zenon DEF O!ZeroTaskFiles, OO!ZeroTaskFiles
  <2>6. /\ O!Callers = OO!Callers /\ O!Entries = OO!Entries /\ O!Fds = OO!Fds
        /\ O!Modes = OO!Modes /\ O!Pids = OO!Pids
    BY Zenon DEF O!Callers, OO!Callers, O!Modes, OO!Modes
  <2> HIDE DEF O!Entries, OO!Entries, O!Fds, OO!Fds, O!Pids, OO!Pids
  <2> QED
    BY <2>1, <2>2, <2>3, <2>4, <2>5, <2>6, ZenonT(40) DEF O!Next, OO!Next
<1>3. O!ovars = OO!ovars
  BY DEF O!ovars, OO!ovars
<1> QED
  BY <1>1, <1>2, <1>3

(* The slots that no task uses have no descriptor.                         *)
FilesOfTasks ==
  \A p \in Pids : IF p \in inUse THEN nextFd[p] >= STD
                                 ELSE nextFd[p] = 0 /\ fd[p] = O!NoFds

KInv == PP!IInv /\ OO!IInv /\ FilesOfTasks /\ OwnersAlive

LEMMA FileFacts ==
  ASSUME OO!IInv
  PROVE  /\ oft \in [O!Entries -> O!Entry]
         /\ fd \in [Pids -> [O!Fds -> O!Entries \union {0}]]
         /\ nextFd \in [Pids -> 0 .. MAX_FILE_DESCRIPTORS]
         /\ \A e \in O!Entries : oft[e].lockedForWriting => Owner(e) \in Pids
<1>1. OO!Entries = O!Entries /\ OO!Fds = O!Fds /\ OO!Pids = Pids
  BY DEF OO!Entries, O!Entries, OO!Fds, O!Fds, OO!STD, O!STD, OO!Pids
<1>2. OO!Entry = O!Entry
  BY DEF OO!Entry, O!Entry, OO!Pids, O!Pids, OO!KERNEL_OWNED, O!KERNEL_OWNED,
         OO!EMPTY_FILE, O!EMPTY_FILE
<1>3. OO!TypeOK /\ OO!MarksOwned
  BY Zenon DEF OO!IInv
<1>4. /\ oft \in [O!Entries -> O!Entry]
      /\ fd \in [Pids -> [O!Fds -> O!Entries \union {0}]]
      /\ nextFd \in [Pids -> 0 .. MAX_FILE_DESCRIPTORS]
  BY <1>1, <1>2, <1>3, Zenon DEF OO!TypeOK
<1>5. \A e \in O!Entries : oft[e].lockedForWriting => Owner(e) \in Pids
  BY <1>1, <1>3, Zenon DEF OO!MarksOwned, Owner
<1> QED
  BY <1>4, <1>5

LEMMA Zero == 0 \notin Pids /\ 1 \in Pids /\ KERNEL_OWNED \notin Pids /\ 0 \notin O!Entries
<1>1. 0 \notin Pids /\ 1 \in Pids /\ KERNEL_OWNED \notin Pids
  BY ConstantsAssumption, SMT DEF KERNEL_OWNED
<1>2. 0 \notin O!Entries
  BY ConstantsAssumption, SMT DEF O!Entries
<1> QED
  BY <1>1, <1>2

(* The task of a new process owns no entry yet.                            *)
LEMMA OwnsNothing ==
  ASSUME KInv, NEW n \in Pids \ inUse
  PROVE  O!closeAllFiles(oft, n) = oft
<1>1. \A e \in O!Entries : oft[e].openedByPid # n
  BY DEF KInv, OwnersAlive, Alive, Owner
<1> QED
  BY <1>1, FileFacts DEF KInv, O!closeAllFiles

LEMMA StepOfFiles ==
  ASSUME KInv, Next
  PROVE  O!Next \/ UNCHANGED files
<1> USE DEF KInv, O!Pids, O!STD, STD
<1>1. CASE NoFileCall
  BY <1>1 DEF NoFileCall
<1>2. ASSUME cpu = "user" PROVE runningPid \in O!Callers
  BY <1>2, ProcessFacts DEF FilesOfTasks, O!Callers
<1>3. ASSUME NEW e \in O!Entries,
             (\E i \in Inodes, mode \in O!Modes : sysOpen(i, mode, e)) \/ sysOpenEmpty(e)
      PROVE  O!Next
  BY <1>2, <1>3 DEF sysOpen, sysOpenEmpty, P!OtherSyscall, P!EnterKernel, O!Next
<1>4. ASSUME NEW d \in O!Fds, sysClose(d)
      PROVE  O!Next
  BY <1>2, <1>4 DEF sysClose, P!OtherSyscall, P!EnterKernel, O!Next
<1>5. ASSUME NEW n \in Pids, sysForkExec(n) \/ sysForkExecNotElf(n)
      PROVE  O!Next
  <2>1. n \in Pids \ inUse
    BY <1>5, ForkStep DEF sysForkExec, sysForkExecNotElf
  <2>2. n \in O!Pids \ O!Callers
    BY <2>1, SMT DEF FilesOfTasks, O!Callers
  <2>3. O!NewTaskFiles(n)
    BY <1>5, <2>1, OwnsNothing DEF sysForkExec, sysForkExecNotElf, O!NewTaskFiles
  <2> QED
    BY <2>2, <2>3, Zenon DEF O!Next
<1>6. CASE sysExit
  BY <1>2, <1>6 DEF sysExit, P!sysExit, P!EnterKernel, O!Next
<1>7. ASSUME NEW k \in Pids, sysKill(k)
      PROVE  O!Next \/ UNCHANGED files
  <2>1. CASE P!Killable(k, inUse)
    <3>1. k \in O!Callers
      BY <1>7, <2>1, KillStep DEF sysKill, FilesOfTasks, O!Callers
    <3>2. O!CloseProcessFiles(k)
      BY <1>7, <2>1 DEF sysKill
    <3> QED
      BY <3>1, <3>2 DEF O!Next
  <2> QED
    BY <1>7, <2>1 DEF sysKill
<1>8. CASE sysFree
  <2>1. P!Freed \subseteq inUse \ {1} /\ O!ZeroTaskFiles(P!Freed)
    BY <1>8, FreeStep DEF sysFree
  <2>2. P!Freed \in SUBSET (O!Callers \ {1})
    BY <2>1, ProcessFacts DEF FilesOfTasks, O!Callers
  <2> QED
    BY <2>1, <2>2, Zenon DEF O!Next
<1> QED
  BY <1>1, <1>3, <1>4, <1>5, <1>6, <1>7, <1>8, Zenon DEF Next

-----------------------------------------------------------------------------
(* Who owns an entry afterwards.                                           *)
FileCall(p) ==
  \/ \E e \in O!Entries, i \in Inodes, mode \in O!Modes : O!sysOpen(p, i, mode, e)
  \/ \E e \in O!Entries : O!sysOpenEmpty(p, e)
  \/ \E d \in O!Fds : O!sysClose(p, d)

LEMMA OwnersAfterCall ==
  ASSUME KInv, NEW p \in Pids, FileCall(p)
  PROVE  \A f \in O!Entries : Owner(f)' \in {Owner(f), p, 0}
<1> USE FileFacts, Zero DEF KInv, Owner, O!Opened, O!NoEntry, O!CloseEntry
<1>1. ASSUME NEW o \in [O!Entries -> O!Entry], NEW g \in O!Entries, NEW d, NEW fds
      PROVE  O!CloseEntry(o, d, p, fds)[g].openedByPid \in {o[g].openedByPid, 0}
  OBVIOUS
<1>2. ASSUME NEW e \in O!Entries, NEW j \in Inodes \union {O!EMPTY_FILE}
      PROVE  /\ O!insertOpenFileTableEntry(e, p, j) \in [O!Entries -> O!Entry]
             /\ \A f \in O!Entries :
                  O!insertOpenFileTableEntry(e, p, j)[f].openedByPid \in {oft[f].openedByPid, p}
  BY DEF O!insertOpenFileTableEntry, O!Entry, O!Pids
<1>3. ASSUME NEW e \in O!Entries, NEW i \in Inodes, NEW mode \in O!Modes,
             O!sysOpen(p, i, mode, e)
      PROVE  \A f \in O!Entries : Owner(f)' \in {Owner(f), p, 0}
  <2>1. \A o \in [O!Entries -> O!Entry] : \A f \in O!Entries :
          O!lockFile(o, p, i)[f].openedByPid = o[f].openedByPid
    BY DEF O!lockFile, O!Entry
  <2>2. PICK o : o = O!insertOpenFileTableEntry(e, p, i)
    OBVIOUS
  <2>3. oft' \in {o, O!lockFile(o, p, i)}
    BY <1>3, <2>2 DEF O!sysOpen
  <2> QED
    BY <1>2, <2>1, <2>2, <2>3
<1>4. ASSUME NEW e \in O!Entries, O!sysOpenEmpty(p, e)
      PROVE  \A f \in O!Entries : Owner(f)' \in {Owner(f), p, 0}
  <2>1. PICK o : o = O!insertOpenFileTableEntry(e, p, O!EMPTY_FILE)
    OBVIOUS
  <2>2. PICK fds : fds = [fd EXCEPT ![p][nextFd[p]] = e]
    OBVIOUS
  <2>3. oft' = O!CloseEntry(o, nextFd[p], p, fds)
    BY <1>4, <2>1, <2>2 DEF O!sysOpenEmpty
  <2>4. o \in [O!Entries -> O!Entry]
        /\ \A f \in O!Entries : o[f].openedByPid \in {oft[f].openedByPid, p}
    BY <1>2, <2>1
  <2> QED
    BY <2>3, <2>4
<1>5. ASSUME NEW d \in O!Fds, O!sysClose(p, d)
      PROVE  \A f \in O!Entries : Owner(f)' \in {Owner(f), p, 0}
  BY <1>5, <1>1 DEF O!sysClose
<1> QED
  BY <1>3, <1>4, <1>5, Zenon DEF FileCall

LEMMA OwnersAfterCloseAll ==
  ASSUME KInv, NEW p \in Pids, O!CloseProcessFiles(p)
  PROVE  \A f \in O!Entries : (Owner(f)' = Owner(f) /\ Owner(f) # p) \/ Owner(f)' = 0
BY Zero DEF O!CloseProcessFiles, O!closeAllFiles, O!NoEntry, O!Opened, Owner

LEMMA CallerAlive == ASSUME KInv, P!EnterKernel PROVE Alive(runningPid)
  BY ProcessFacts DEF KInv, P!EnterKernel, Alive

LEMMA FileCallStep ==
  ASSUME Next
  PROVE  \/ NoFileCall
         \/ P!OtherSyscall /\ FileCall(runningPid)
         \/ \E n \in Pids : sysForkExec(n) \/ sysForkExecNotElf(n)
         \/ sysExit
         \/ \E k \in Pids : sysKill(k)
         \/ sysFree
BY Zenon DEF Next, FileCall, sysOpen, sysOpenEmpty, sysClose

LEMMA NextOwnersAlive ==
  ASSUME KInv, Next
  PROVE  OwnersAlive'
<1> SUFFICES ASSUME NEW f \in O!Entries, NEW q \in Pids, Owner(f)' = q
             PROVE  Alive(q)'
  BY DEF OwnersAlive
<1>0. PP!IInv /\ (Owner(f) = q => Alive(q)) /\ q # 0
  BY Zenon, Zero DEF KInv, OwnersAlive
<1>1. CASE NoFileCall
  <2>1. Quiet /\ UNCHANGED files
    BY <1>1, Zenon DEF NoFileCall, Quiet
  <2> QED
    BY <1>0, <2>1, QuietStep, Zenon DEF Owner, files
<1>2. CASE P!OtherSyscall /\ FileCall(runningPid)
  <2>1. Owner(f) = q \/ runningPid = q
    BY <1>0, <1>2, OwnersAfterCall, ProcessFacts
  <2>2. Alive(runningPid)
    BY <1>2, CallerAlive DEF P!OtherSyscall
  <2>3. Quiet
    BY <1>2 DEF Quiet
  <2> QED
    BY <1>0, <2>1, <2>2, <2>3, QuietStep
<1>3. ASSUME NEW n \in Pids, sysForkExec(n) \/ sysForkExecNotElf(n)
      PROVE  Alive(q)'
  <2>1. n \notin inUse /\ \A r \in Pids \ {n} : Alive(r) => Alive(r)'
    BY <1>0, <1>3, ForkStep DEF sysForkExec, sysForkExecNotElf
  <2>2. oft' = oft
    BY <1>3, <2>1, OwnsNothing DEF sysForkExec, sysForkExecNotElf, O!NewTaskFiles
  <2> QED
    BY <1>0, <2>1, <2>2 DEF Owner, Alive
<1>4. CASE sysExit
  BY <1>0, <1>4, ExitStep, OwnersAfterCloseAll, ProcessFacts DEF sysExit
<1>5. ASSUME NEW k \in Pids, sysKill(k)
      PROVE  Alive(q)'
  <2>1. CASE P!Killable(k, inUse)
    BY <1>0, <1>5, <2>1, KillStep, OwnersAfterCloseAll DEF sysKill
  <2>2. CASE ~P!Killable(k, inUse)
    BY <1>0, <1>5, <2>2, KillStep DEF sysKill, files, Owner
  <2> QED
    BY <2>1, <2>2
<1>6. CASE sysFree
  BY <1>0, <1>6, FreeStep DEF sysFree, O!ZeroTaskFiles, Owner
<1> QED
  BY <1>1, <1>2, <1>3, <1>4, <1>5, <1>6, FileCallStep

(* Every task that is created has its descriptor counter, and every slot   *)
(* that is freed loses its descriptors.                                    *)
LEMMA NextFilesOfTasks ==
  ASSUME KInv, Next
  PROVE  FilesOfTasks'
<1> USE FileFacts, ProcessFacts DEF KInv, FilesOfTasks
<1>1. CASE NoFileCall
  <2>1. Quiet /\ UNCHANGED files
    BY <1>1, Zenon DEF NoFileCall, Quiet
  <2> QED
    BY <2>1, QuietStep DEF files
<1>2. CASE P!OtherSyscall /\ FileCall(runningPid)
  <2>1. inUse' = inUse /\ runningPid \in inUse
    BY <1>2, ProcessFacts DEF P!OtherSyscall, P!EnterKernel
  <2>2. ASSUME NEW p \in Pids
        PROVE  /\ nextFd'[p] >= nextFd[p]
               /\ p # runningPid => nextFd'[p] = nextFd[p] /\ fd'[p] = fd[p]
    <3>1. nextFd[p] \in Nat /\ nextFd[p] + 1 >= nextFd[p] /\ nextFd[p] >= nextFd[p]
      BY ConstantsAssumption, SMT
    <3>2. ASSUME NEW e \in O!Entries, NEW i \in Inodes, NEW mode \in O!Modes,
                 O!sysOpen(runningPid, i, mode, e)
          PROVE  /\ nextFd'[p] >= nextFd[p]
                 /\ p # runningPid => nextFd'[p] = nextFd[p] /\ fd'[p] = fd[p]
      BY <3>1, <3>2 DEF O!sysOpen
    <3>3. ASSUME NEW e \in O!Entries, O!sysOpenEmpty(runningPid, e)
          PROVE  /\ nextFd'[p] >= nextFd[p]
                 /\ p # runningPid => nextFd'[p] = nextFd[p] /\ fd'[p] = fd[p]
      BY <3>1, <3>3 DEF O!sysOpenEmpty, O!CloseFd
    <3>4. ASSUME NEW d \in O!Fds, O!sysClose(runningPid, d)
          PROVE  /\ nextFd'[p] >= nextFd[p]
                 /\ p # runningPid => nextFd'[p] = nextFd[p] /\ fd'[p] = fd[p]
      BY <3>1, <3>4 DEF O!sysClose, O!CloseFd
    <3> QED
      BY <1>2, <3>2, <3>3, <3>4 DEF FileCall
  <2>3. \A p \in Pids : nextFd'[p] \in Nat
    <3>1. OO!IInv'
      BY StepOfFiles, SameAssumptions, SameFiles, OO!NextIInv, Zenon DEF files, OO!ovars
    <3> QED
      BY <3>1, FileFacts, SMT DEF OO!IInv, OO!TypeOK, OO!Pids
  <2> QED
    BY <2>1, <2>2, <2>3, ConstantsAssumption, SMT DEF STD
<1>3. ASSUME NEW n \in Pids, sysForkExec(n) \/ sysForkExecNotElf(n)
      PROVE  FilesOfTasks'
  <2>1. inUse' = inUse \union {n}
    BY <1>3, ForkStep DEF sysForkExec, sysForkExecNotElf
  <2>2. nextFd' = [nextFd EXCEPT ![n] = STD] /\ fd' = fd
    BY <1>3 DEF sysForkExec, sysForkExecNotElf, O!NewTaskFiles, O!STD, STD
  <2> QED
    BY <2>1, <2>2, SMT DEF STD
<1>4. CASE sysExit
  BY <1>4, ExitStep DEF sysExit, O!CloseProcessFiles
<1>5. ASSUME NEW k \in Pids, sysKill(k)
      PROVE  FilesOfTasks'
  BY <1>5, KillStep DEF sysKill, O!CloseProcessFiles, files
<1>6. CASE sysFree
  BY <1>6, FreeStep DEF sysFree, O!ZeroTaskFiles, O!Pids
<1> QED
  BY <1>1, <1>2, <1>3, <1>4, <1>5, <1>6, FileCallStep

-----------------------------------------------------------------------------
LEMMA InitKInv == Init => KInv
<1> SUFFICES ASSUME Init PROVE KInv
  OBVIOUS
<1>1. PP!IInv
  BY ProcessesInvariant
<1>2. OO!IInv
  BY SameAssumptions, SameFiles, OO!InitIInv DEF Init
<1>3. FilesOfTasks
  BY Zero, SMT DEF Init, P!Init, O!Init, O!Pids, FilesOfTasks, O!STD, STD
<1>4. OwnersAlive
  BY Zero DEF Init, O!Init, O!createOpenFileTable, O!Opened, O!NoEntry, O!KERNEL_OWNED,
              KERNEL_OWNED, OwnersAlive, Owner
<1> QED
  BY <1>1, <1>2, <1>3, <1>4 DEF KInv

LEMMA NextKInv == KInv /\ [Next]_vars => KInv'
<1>1. ASSUME KInv, Next PROVE KInv'
  <2>1. PP!IInv'
    BY <1>1, ProcessesInvariant DEF KInv
  <2>2. OO!IInv'
    BY <1>1, StepOfFiles, SameAssumptions, SameFiles, OO!NextIInv, Zenon DEF KInv, files, OO!ovars
  <2> QED
    BY <1>1, <2>1, <2>2, NextFilesOfTasks, NextOwnersAlive, Zenon DEF KInv
<1>2. ASSUME KInv, UNCHANGED vars PROVE KInv'
  <2>1. PP!IInv'
    BY <1>2, ProcessesInvariant DEF KInv
  <2>2. OO!IInv'
    BY <1>2, SameAssumptions, OO!NextIInv, Zenon DEF KInv, vars, files, OO!ovars
  <2>3. FilesOfTasks' /\ OwnersAlive'
    BY <1>2 DEF KInv, vars, files, FilesOfTasks, OwnersAlive, Alive, Owner
  <2> QED
    BY <2>1, <2>2, <2>3 DEF KInv
<1> QED
  BY <1>1, <1>2

(* The invariant that ties the two tables together is one of Spec.         *)
THEOREM Invariant == Spec => []KInv
  BY InitKInv, NextKInv, PTL DEF Spec

(* The kernel with its two tables implements the process table alone: what *)
(* is proved of Processes holds of every behaviour of Kernel.              *)
THEOREM ProcessesImplemented == Spec => ImplementsProcesses
  BY StepOfProcesses, PTL DEF Spec, Init, ImplementsProcesses, P!Spec

(* ... and it implements the open file table, whose specification lets any *)
(* initialised task call: Kernel's tasks are initialised before they call, *)
(* and a task that is not there owns nothing.                              *)
THEOREM OpenFilesImplemented == Spec => ImplementsOpenFiles
<1>1. KInv /\ [Next]_vars => [O!Next]_(O!ovars)
  BY StepOfFiles, Zenon DEF vars, files, O!ovars
<1> QED
  BY <1>1, Invariant, PTL DEF Spec, Init, ImplementsOpenFiles, O!Spec

(* An entry of the open file table never outlives the process that opened  *)
(* it, whichever assignment routines are written.                          *)
THEOREM OwnersStayAlive == Spec => []OwnersAlive
<1>1. KInv => OwnersAlive
  BY Zenon DEF KInv
<1> QED
  BY <1>1, Invariant, PTL

-----------------------------------------------------------------------------
(* The descriptors of live processes.  A dead process keeps stale ones, so *)
(* none may live again: the argument needs ParentReady, and with it that   *)
(* the CPU moves only between parent and child.                            *)
NoSwitch == Solved \intersect {"sysSwitch", "scheduler"} = {}

ParentIsReady ==
  runningPid # 1 => ppid[runningPid] \in inUse /\ state[ppid[runningPid]] = "SLEEPING"

(* The live processes after a step were alive before, or are new.          *)
LEMMA QuietLives ==
  ASSUME KInv, NoSwitch, ParentIsReady, Quiet, NEW q \in Pids, Alive(q)'
  PROVE  Alive(q)
<1> USE ProcessFacts DEF KInv
<1>1. CASE P!OtherSyscall \/ P!sysForkExecRefused \/ P!sysToggleScheduler \/ P!Halted
           \/ P!Resume \/ \E k \in Pids : P!sysSwitch(k)
  BY <1>1 DEF P!OtherSyscall, P!sysForkExecRefused, P!sysToggleScheduler, P!Halted, P!pvars,
              P!Resume, P!sysSwitch, NoSwitch, Alive
<1>2. CASE P!sysSwitchToParent
  <2>1. /\ runningPid # 1 /\ inUse' = inUse
        /\ state' = [state EXCEPT ![runningPid] = "SLEEPING", ![ppid[runningPid]] = "RUNNING"]
    BY <1>2 DEF P!sysSwitchToParent, P!updateTaskState
  <2>2. q # ppid[runningPid] /\ q # runningPid => state'[q] = state[q]
    BY <2>1
  <2>3. cpu = "user"
    BY <1>2 DEF P!sysSwitchToParent, P!EnterKernel
  <2> QED
    BY <2>1, <2>2, <2>3 DEF ParentIsReady, Alive
<1> QED
  BY <1>1, <1>2 DEF Quiet

LEMMA ForkLives ==
  ASSUME KInv, NEW n \in Pids,
         P!sysForkExec(n) \/ P!sysForkExecNoPage(n) \/ P!sysForkExecNotElf(n),
         NEW q \in Pids \ {n}, Alive(q)'
  PROVE  Alive(q)
<1> USE ProcessFacts DEF KInv, P!initializeTask, P!FreeSlots, P!EnterKernel, P!updateTaskState,
        Alive
<1>1. CASE P!sysForkExec(n)
  BY <1>1, SMT DEF P!sysForkExec
<1>2. CASE P!sysForkExecNoPage(n)
  BY <1>2, SMT DEF P!sysForkExecNoPage
<1>3. CASE P!sysForkExecNotElf(n)
  BY <1>3, SMT DEF P!sysForkExecNotElf, P!KillState
<1> QED
  BY <1>1, <1>2, <1>3

LEMMA ExitLives ==
  ASSUME KInv, ParentIsReady, P!sysExit, NEW q \in Pids, Alive(q)'
  PROVE  Alive(q) /\ q # runningPid
<1> USE ProcessFacts DEF KInv
<1>1. /\ runningPid # 1 /\ inUse' = inUse
      /\ state' = [state EXCEPT ![runningPid] = "ZOMBIE", ![ppid[runningPid]] = "RUNNING"]
  BY DEF P!sysExit, P!updateTaskState
<1>2. ppid[runningPid] \in inUse /\ state[ppid[runningPid]] = "SLEEPING"
      /\ ppid[runningPid] # runningPid
  BY <1>1 DEF ParentIsReady
<1>3. state'[runningPid] = "ZOMBIE"
      /\ (q # ppid[runningPid] /\ q # runningPid => state'[q] = state[q])
  BY <1>1, <1>2
<1> QED
  BY <1>1, <1>2, <1>3 DEF Alive

LEMMA KillLives ==
  ASSUME KInv, NEW k \in Pids, P!sysKill(k), NEW q \in Pids, Alive(q)'
  PROVE  Alive(q) /\ ~(P!Killable(k, inUse) /\ q = k)
BY ProcessFacts, SMT DEF KInv, P!sysKill, P!KillState, P!Killable, P!updateTaskState, Alive

LEMMA FreeLives ==
  ASSUME KInv, P!sysFree, NEW q \in Pids, Alive(q)'
  PROVE  Alive(q) /\ q \notin P!Freed
BY ProcessFacts, SMT DEF KInv, P!sysFree, P!Freed, Alive

-----------------------------------------------------------------------------
(* DescriptorsOwned of any table o and descriptors fds.                    *)
OwnedBy(o, fds) ==
  \A q \in Pids, d \in O!Fds :
    Alive(q) /\ fds[q][d] # 0 =>
      /\ o[fds[q][d]].openedByPid = q
      /\ \A d2 \in O!Fds : fds[q][d2] = fds[q][d] => d2 = d

Tables  == [O!Entries -> O!Entry]
FdLists == [Pids -> [O!Fds -> O!Entries \union {0}]]

LEMMA OpenOwned ==
  ASSUME KInv, OwnedBy(oft, fd), NEW p \in Pids, NEW x \in O!Fds, NEW e \in O!Entries,
         Owner(e) = 0, NEW o \in Tables, o[e].openedByPid = p,
         \A f \in O!Entries \ {e} : o[f].openedByPid = Owner(f)
  PROVE  OwnedBy(o, [fd EXCEPT ![p][x] = e])
<1>1. PICK fds : fds = [fd EXCEPT ![p][x] = e]
  OBVIOUS
<1>2. fd \in FdLists
  BY FileFacts DEF KInv, FdLists
<1>3. /\ fds[p][x] = e
      /\ \A q \in Pids, d \in O!Fds : q # p \/ d # x => fds[q][d] = fd[q][d]
  BY <1>1, <1>2 DEF FdLists
<1>4. \A q \in Pids, d \in O!Fds : fd[q][d] \in O!Entries \union {0}
  BY <1>2 DEF FdLists
<1>5. \A q \in Pids, d \in O!Fds : Alive(q) => fd[q][d] # e
  BY Zero DEF OwnedBy, Owner
<1>6. ASSUME NEW q \in Pids, NEW d \in O!Fds, Alive(q), fds[q][d] # 0
      PROVE  /\ o[fds[q][d]].openedByPid = q
             /\ \A d2 \in O!Fds : fds[q][d2] = fds[q][d] => d2 = d
  <2>1. CASE q = p /\ d = x
    BY <1>3, <1>5, <1>6, <2>1
  <2>2. CASE ~(q = p /\ d = x)
    BY <1>3, <1>4, <1>5, <1>6, <2>2 DEF OwnedBy, Owner
  <2> QED
    BY <2>1, <2>2
<1>7. OwnedBy(o, fds)
  BY <1>6, ZenonT(60) DEF OwnedBy
<1> QED
  BY <1>1, <1>7

LEMMA CloseOwned ==
  ASSUME NEW o \in Tables, NEW fds \in FdLists, OwnedBy(o, fds),
         NEW p \in Pids, NEW d \in O!Fds, Alive(p)
  PROVE  OwnedBy(O!CloseEntry(o, d, p, fds), O!CloseFd(d, p, fds))
<1>1. CASE ~O!Closable(d, p, fds)
  BY <1>1 DEF O!CloseEntry, O!CloseFd
<1>2. CASE O!Closable(d, p, fds)
  <2>1. PICK e \in O!Entries : e = fds[p][d]
    BY <1>2 DEF O!Closable, FdLists
  <2>2. PICK o2, f2 : o2 = [o EXCEPT ![e] = O!NoEntry] /\ f2 = [fds EXCEPT ![p][d] = 0]
    OBVIOUS
  <2>3. o2 = O!CloseEntry(o, d, p, fds) /\ f2 = O!CloseFd(d, p, fds)
    BY <1>2, <2>1, <2>2 DEF O!CloseEntry, O!CloseFd
  <2>4. /\ \A f \in O!Entries \ {e} : o2[f] = o[f]
        /\ f2[p][d] = 0
        /\ \A q \in Pids, c \in O!Fds : q # p \/ c # d => f2[q][c] = fds[q][c]
        /\ \A q \in Pids, c \in O!Fds : fds[q][c] \in O!Entries \union {0}
    BY <2>2 DEF Tables, FdLists
  <2>5. e # 0 /\ o[e].openedByPid = p
    BY <2>1, Zero DEF OwnedBy
  <2>6. ASSUME NEW q \in Pids, NEW c \in O!Fds, Alive(q), f2[q][c] # 0
        PROVE  /\ o2[f2[q][c]].openedByPid = q
               /\ \A d2 \in O!Fds : f2[q][d2] = f2[q][c] => d2 = c
    <3>1. (q # p \/ c # d) /\ f2[q][c] = fds[q][c]
      BY <2>4, <2>6
    <3>2. fds[q][c] # e
      BY <2>1, <2>5, <2>6, <3>1 DEF OwnedBy
    <3>3. o2[f2[q][c]].openedByPid = q
      BY <2>4, <2>6, <3>1, <3>2 DEF OwnedBy
    <3>4. Alive(q) /\ fds[q][c] # 0
      BY <2>6, <3>1
    <3>5. \A d2 \in O!Fds : fds[q][d2] = fds[q][c] => d2 = c
      BY <3>4 DEF OwnedBy
    <3>6. \A d2 \in O!Fds : f2[q][d2] = f2[q][c] => d2 = c
      BY <2>4, <2>6, <3>1, <3>5
    <3> QED
      BY <3>3, <3>6
  <2>7. OwnedBy(o2, f2)
    BY <2>6, Zenon DEF OwnedBy
  <2> QED
    BY <2>3, <2>7
<1> QED
  BY <1>1, <1>2

LEMMA CallOwned ==
  ASSUME KInv, DescriptorsOwned, NEW p \in Pids, Alive(p), FileCall(p)
  PROVE  OwnedBy(oft', fd')
<1>0. /\ oft \in Tables /\ fd \in FdLists /\ nextFd[p] \in 0 .. MAX_FILE_DESCRIPTORS
      /\ OwnedBy(oft, fd) /\ nextFd[p] >= STD
  BY FileFacts, Zenon DEF KInv, Tables, FdLists, DescriptorsOwned, OwnedBy, FilesOfTasks, Alive,
                          Owner
<1>1. ASSUME NEW e \in O!Entries, NEW j \in Inodes \union {O!EMPTY_FILE}, NEW o,
             o = O!insertOpenFileTableEntry(e, p, j), e \in O!FreeEntries
      PROVE  /\ o \in Tables /\ Owner(e) = 0 /\ o[e].openedByPid = p
             /\ \A f \in O!Entries \ {e} : o[f].openedByPid = Owner(f)
  BY <1>0, <1>1 DEF O!insertOpenFileTableEntry, O!FreeEntries, O!Entry, O!Opened, O!Pids, Tables,
                    Owner
<1>2. ~O!AtFdLimit(p) => nextFd[p] \in O!Fds
  BY <1>0, ConstantsAssumption, SMT DEF O!AtFdLimit, O!Fds, O!STD, STD
<1>3. ASSUME NEW e \in O!Entries, NEW i \in Inodes, NEW mode \in O!Modes,
             O!sysOpen(p, i, mode, e)
      PROVE  OwnedBy(oft', fd')
  <2>1. PICK o : o = O!insertOpenFileTableEntry(e, p, i)
    OBVIOUS
  <2>2. /\ nextFd[p] \in O!Fds /\ e \in O!FreeEntries
        /\ oft' \in {o, O!lockFile(o, p, i)} /\ fd' = [fd EXCEPT ![p][nextFd[p]] = e]
    BY <1>2, <1>3, <2>1 DEF O!sysOpen, O!IsFirst
  <2>3. \A t \in Tables : /\ O!lockFile(t, p, i) \in Tables
                          /\ \A f \in O!Entries :
                               O!lockFile(t, p, i)[f].openedByPid = t[f].openedByPid
    BY DEF O!lockFile, Tables, O!Entry
  <2>4. PICK t : t = oft'
    OBVIOUS
  <2>5. /\ t \in Tables /\ Owner(e) = 0 /\ t[e].openedByPid = p
        /\ \A f \in O!Entries \ {e} : t[f].openedByPid = Owner(f)
    BY <1>1, <2>1, <2>2, <2>3, <2>4
  <2> QED
    BY <1>0, <2>2, <2>4, <2>5, OpenOwned
<1>4. ASSUME NEW e \in O!Entries, O!sysOpenEmpty(p, e)
      PROVE  OwnedBy(oft', fd')
  <2>1. PICK o, fds : /\ o = O!insertOpenFileTableEntry(e, p, O!EMPTY_FILE)
                      /\ fds = [fd EXCEPT ![p][nextFd[p]] = e]
    OBVIOUS
  <2>2. /\ nextFd[p] \in O!Fds /\ e \in O!FreeEntries
        /\ oft' = O!CloseEntry(o, nextFd[p], p, fds) /\ fd' = O!CloseFd(nextFd[p], p, fds)
    BY <1>2, <1>4, <2>1 DEF O!sysOpenEmpty, O!IsFirst
  <2>3. /\ o \in Tables /\ Owner(e) = 0 /\ o[e].openedByPid = p
        /\ \A f \in O!Entries \ {e} : o[f].openedByPid = Owner(f)
    BY <1>1, <2>1, <2>2
  <2>4. OwnedBy(o, fds)
    BY <1>0, <2>1, <2>2, <2>3, OpenOwned
  <2>5. fds \in FdLists
    BY <1>0, <2>1 DEF FdLists
  <2> QED
    BY <2>2, <2>3, <2>4, <2>5, CloseOwned
<1>5. ASSUME NEW d \in O!Fds, O!sysClose(p, d)
      PROVE  OwnedBy(oft', fd')
  BY <1>0, <1>5, CloseOwned DEF O!sysClose
<1> QED
  BY <1>3, <1>4, <1>5, Zenon DEF FileCall

LEMMA SameOwned ==
  ASSUME DescriptorsOwned, oft' = oft, fd' = fd,
         \A q \in Pids : Alive(q)' => Alive(q) \/ fd[q] = O!NoFds
  PROVE  DescriptorsOwned'
<1> SUFFICES ASSUME NEW p \in Pids, NEW d \in O!Fds, Alive(p)', fd'[p][d] # 0
             PROVE  /\ oft'[fd'[p][d]].openedByPid = p
                    /\ \A d2 \in O!Fds : fd'[p][d2] = fd'[p][d] => d2 = d
  BY ZenonT(40) DEF DescriptorsOwned, Owner
<1>1. Alive(p)
  BY DEF O!NoFds
<1> QED
  BY <1>1 DEF DescriptorsOwned, Owner

LEMMA NextDescriptorsOwned ==
  ASSUME NoSwitch, KInv, ParentIsReady, DescriptorsOwned, [Next]_vars
  PROVE  DescriptorsOwned'
<1> USE DEF KInv
<1>0. CASE UNCHANGED vars
  BY <1>0, SameOwned DEF vars, files, Alive
<1>1. CASE NoFileCall
  <2>1. Quiet /\ UNCHANGED files
    BY <1>1, Zenon DEF NoFileCall, Quiet
  <2> QED
    BY <2>1, QuietLives, SameOwned DEF files
<1>2. CASE P!OtherSyscall /\ FileCall(runningPid)
  <2>1. Alive(runningPid) /\ runningPid \in Pids
    BY <1>2, CallerAlive, ProcessFacts DEF P!OtherSyscall
  <2>2. OwnedBy(oft', fd')
    BY <1>2, <2>1, CallOwned
  <2>3. \A q \in Pids : Alive(q)' => Alive(q)
    BY <1>2, QuietLives DEF Quiet
  <2> QED
    BY <2>2, <2>3, Zenon DEF DescriptorsOwned, OwnedBy, Owner
<1>3. ASSUME NEW n \in Pids, sysForkExec(n) \/ sysForkExecNotElf(n)
      PROVE  DescriptorsOwned'
  <2>1. n \in Pids \ inUse /\ \A q \in Pids \ {n} : Alive(q)' => Alive(q)
    BY <1>3, ForkStep, ForkLives DEF sysForkExec, sysForkExecNotElf
  <2>2. oft' = oft /\ fd' = fd /\ fd[n] = O!NoFds
    BY <1>3, <2>1, OwnsNothing DEF sysForkExec, sysForkExecNotElf, O!NewTaskFiles, FilesOfTasks
  <2> QED
    BY <2>1, <2>2, SameOwned
<1>4. ASSUME NEW k \in Pids, O!CloseProcessFiles(k),
             \A q \in Pids : Alive(q)' => Alive(q) /\ q # k
      PROVE  DescriptorsOwned'
  <2> SUFFICES ASSUME NEW p \in Pids, NEW d \in O!Fds, Alive(p)', fd'[p][d] # 0
               PROVE  /\ oft'[fd'[p][d]].openedByPid = p
                      /\ \A d2 \in O!Fds : fd'[p][d2] = fd'[p][d] => d2 = d
    BY ZenonT(40) DEF DescriptorsOwned, Owner
  <2>1. fd' = fd /\ Alive(p) /\ p # k /\ fd[p][d] \in O!Entries
    BY <1>4, FileFacts DEF O!CloseProcessFiles
  <2>2. oft[fd[p][d]].openedByPid = p /\ \A d2 \in O!Fds : fd[p][d2] = fd[p][d] => d2 = d
    BY <2>1 DEF DescriptorsOwned, Owner
  <2>3. oft'[fd[p][d]] = oft[fd[p][d]]
    BY <1>4, <2>1, <2>2 DEF O!CloseProcessFiles, O!closeAllFiles
  <2> QED
    BY <2>1, <2>2, <2>3
<1>5. CASE sysExit
  BY <1>4, <1>5, ExitLives, ProcessFacts DEF sysExit
<1>6. ASSUME NEW k \in Pids, sysKill(k)
      PROVE  DescriptorsOwned'
  <2>1. \A q \in Pids : Alive(q)' => Alive(q) /\ ~(P!Killable(k, inUse) /\ q = k)
    BY <1>6, KillLives DEF sysKill
  <2>2. CASE P!Killable(k, inUse)
    BY <1>4, <1>6, <2>1, <2>2 DEF sysKill
  <2>3. CASE ~P!Killable(k, inUse)
    BY <1>6, <2>1, <2>3, SameOwned DEF sysKill, files
  <2> QED
    BY <2>2, <2>3
<1>7. CASE sysFree
  <2>1. \A q \in Pids : Alive(q)' => Alive(q) /\ q \notin P!Freed
    BY <1>7, FreeLives DEF sysFree
  <2>2. oft' = oft /\ \A q \in Pids \ P!Freed : fd'[q] = fd[q]
    BY <1>7 DEF sysFree, O!ZeroTaskFiles, O!Pids
  <2> SUFFICES ASSUME NEW p \in Pids, NEW d \in O!Fds, Alive(p)', fd'[p][d] # 0
               PROVE  /\ oft'[fd'[p][d]].openedByPid = p
                      /\ \A d2 \in O!Fds : fd'[p][d2] = fd'[p][d] => d2 = d
    BY Zenon DEF DescriptorsOwned, Owner
  <2> QED
    BY <2>1, <2>2 DEF DescriptorsOwned, Owner
<1> QED
  BY <1>0, <1>1, <1>2, <1>3, <1>5, <1>6, <1>7, FileCallStep

LEMMA ParentStaysReady ==
  ASSUME NoSwitch
  PROVE  Spec => []ParentIsReady
<1>1. PP!NoSwitch
  BY DEF NoSwitch, PP!NoSwitch
<1>2. Init => PP!SInv
  BY SameAssumptions, SameProcesses, PP!InitSInv DEF Init
<1>3. PP!IInv /\ PP!SInv /\ [Next]_vars /\ PP!IInv' => PP!SInv'
  <2> SUFFICES ASSUME PP!IInv, PP!SInv, [Next]_vars, PP!IInv' PROVE PP!SInv'
    OBVIOUS
  <2>1. [PP!Next]_(PP!pvars)
    BY StepOfProcesses, SameProcesses DEF P!pvars, PP!pvars
  <2> QED
    BY <1>1, <2>1, SameAssumptions, PP!NextSInv
<1>4. PP!IInv /\ PP!SInv => ParentIsReady
  BY SameAssumptions, PP!StackParentReady DEF PP!ParentReady, ParentIsReady
<1>5. KInv => PP!IInv
  BY Zenon DEF KInv
<1> QED
  BY <1>2, <1>3, <1>4, <1>5, Invariant, PTL DEF Spec

(* As long as the CPU moves only between parent and child, every           *)
(* descriptor of a live process leads to an entry of its own: closes,      *)
(* exits, kills, frees and reused slots leave none behind.                 *)
THEOREM DescriptorsStayOwned ==
  ASSUME NoSwitch
  PROVE  Spec => []DescriptorsOwned
<1>1. Init => DescriptorsOwned
  BY DEF Init, O!Init, O!NoFds, DescriptorsOwned, O!Pids
<1>2. KInv /\ ParentIsReady /\ DescriptorsOwned /\ [Next]_vars => DescriptorsOwned'
  BY NextDescriptorsOwned
<1> QED
  BY <1>1, <1>2, Invariant, ParentStaysReady, PTL DEF Spec

LEMMA LocksAfterStep ==
  ASSUME KInv, DescriptorsOwned, Next, NEW e \in O!Entries,
         oft[e].lockedForWriting, oft'[e] # oft[e]
  PROVE  Owner(e) = runningPid \/ state'[Owner(e)] = "KILLED"
<1> USE FileFacts DEF KInv
<1>0. Owner(e) \in Pids /\ Owner(e) # 0
  BY Zero
<1>1. CASE NoFileCall
  BY <1>1 DEF NoFileCall, files
<1>2. CASE P!OtherSyscall /\ FileCall(runningPid)
  <2>1. Alive(runningPid) /\ runningPid \in Pids
    BY <1>2, CallerAlive, ProcessFacts DEF P!OtherSyscall
  <2>2. ASSUME NEW f \in O!FreeEntries, NEW j, NEW o,
               o = O!insertOpenFileTableEntry(f, runningPid, j)
        PROVE  o[e] = oft[e]
    BY <1>0, <2>2 DEF O!insertOpenFileTableEntry, O!FreeEntries, Owner
  <2>3. ASSUME NEW f \in O!Entries, NEW i \in Inodes, NEW mode \in O!Modes,
               O!sysOpen(runningPid, i, mode, f)
        PROVE  Owner(e) = runningPid
    <3>1. PICK o : o = O!insertOpenFileTableEntry(f, runningPid, i)
      OBVIOUS
    <3>2. o[e] = oft[e] /\ oft' \in {o, O!lockFile(o, runningPid, i)}
      BY <2>2, <2>3, <3>1 DEF O!sysOpen, O!IsFirst
    <3>3. O!lockFile(o, runningPid, i)[e] # o[e] => o[e].openedByPid = runningPid
      BY DEF O!lockFile, O!IsFirst, O!OwnEntries
    <3> QED
      BY <3>2, <3>3 DEF Owner
  <2>4. ASSUME NEW o, NEW fds, NEW d \in O!Fds, o[e] = oft[e],
               O!CloseEntry(o, d, runningPid, fds)[e] # oft[e]
        PROVE  fds[runningPid][d] = e
    BY <2>4 DEF O!CloseEntry
  <2>5. ASSUME NEW f \in O!Entries, O!sysOpenEmpty(runningPid, f)
        PROVE  FALSE
    <3>1. PICK o, fds : /\ o = O!insertOpenFileTableEntry(f, runningPid, O!EMPTY_FILE)
                        /\ fds = [fd EXCEPT ![runningPid][nextFd[runningPid]] = f]
      OBVIOUS
    <3>2. f \in O!FreeEntries /\ o[e] = oft[e] /\ f # e /\ nextFd[runningPid] \in O!Fds
      <4>1. f \in O!FreeEntries /\ o[e] = oft[e]
        BY <2>2, <2>5, <3>1 DEF O!sysOpenEmpty, O!IsFirst
      <4>2. nextFd[runningPid] >= STD
        BY <2>1 DEF FilesOfTasks, Alive
      <4> QED
        BY <1>0, <2>1, <2>5, <4>1, <4>2, ConstantsAssumption, SMT
           DEF O!sysOpenEmpty, O!AtFdLimit, O!FreeEntries, Owner, O!Fds, O!STD, STD
    <3>3. fds[runningPid][nextFd[runningPid]] = f
      BY <2>1, <3>1, <3>2
    <3>4. oft' = O!CloseEntry(o, nextFd[runningPid], runningPid, fds)
      BY <2>5, <3>1 DEF O!sysOpenEmpty
    <3>5. O!CloseEntry(o, nextFd[runningPid], runningPid, fds)[e] # oft[e]
      BY <3>4
    <3> QED
      BY <2>4, <3>2, <3>3, <3>5
  <2>6. ASSUME NEW d \in O!Fds, O!sysClose(runningPid, d)
        PROVE  Owner(e) = runningPid
    <3>1. fd[runningPid][d] = e
      BY <2>4, <2>6 DEF O!sysClose
    <3> QED
      BY <2>1, <3>1, Zero DEF DescriptorsOwned
  <2> QED
    BY <1>2, <2>3, <2>5, <2>6, Zenon DEF FileCall
<1>3. ASSUME NEW n \in Pids, sysForkExec(n) \/ sysForkExecNotElf(n)
      PROVE  FALSE
  <2>1. n \in Pids \ inUse
    BY <1>3, ForkStep DEF sysForkExec, sysForkExecNotElf
  <2> QED
    BY <1>3, <2>1, OwnsNothing DEF sysForkExec, sysForkExecNotElf, O!NewTaskFiles
<1>4. CASE sysExit
  BY <1>4 DEF sysExit, O!CloseProcessFiles, O!closeAllFiles, Owner
<1>5. ASSUME NEW k \in Pids, sysKill(k)
      PROVE  state'[Owner(e)] = "KILLED"
  <2>1. P!Killable(k, inUse) /\ Owner(e) = k
    BY <1>5 DEF sysKill, O!CloseProcessFiles, O!closeAllFiles, Owner, files
  <2> QED
    BY <1>5, <2>1, ProcessFacts DEF sysKill, P!sysKill, P!KillState, P!updateTaskState
<1>6. CASE sysFree
  BY <1>6 DEF sysFree, O!ZeroTaskFiles
<1> QED
  BY <1>1, <1>2, <1>3, <1>4, <1>5, <1>6, FileCallStep

(* ... so a write lock is lost only by a call of its owner or by the kill  *)
(* of its owner.                                                           *)
THEOREM LocksLostByOwner ==
  ASSUME NoSwitch
  PROVE  Spec => LockLostByOwner
<1>1. KInv /\ DescriptorsOwned /\ [Next]_vars =>
        [\A e \in O!Entries :
           oft[e].lockedForWriting /\ oft'[e] # oft[e]
             => Owner(e) = runningPid \/ state'[Owner(e)] = "KILLED"]_vars
  BY LocksAfterStep
<1> QED
  BY <1>1, Invariant, DescriptorsStayOwned, PTL DEF Spec, LockLostByOwner

-----------------------------------------------------------------------------
(* The descriptors that lead to an entry.  The next descriptor of a task,  *)
(* and those above it, are null: what sysOpen writes there covers nothing, *)
(* and sysOpenEmpty, which does not count it, takes its own away again.    *)
SpareDescriptors ==
  \A p \in Pids, d \in O!Fds : d >= nextFd[p] => fd[p][d] = 0

(* EntriesReachable of any table o and descriptors fds.                    *)
Reached(o, fds) ==
  \A e \in O!Entries :
    o[e].openedByPid \in Pids => \E d \in O!Fds : fds[o[e].openedByPid][d] = e

(* An entry f is opened in a null descriptor x.                            *)
LEMMA OpenReached ==
  ASSUME Reached(oft, fd), NEW p \in Pids, NEW x \in O!Fds, fd[p][x] = 0, fd \in FdLists,
         NEW f \in O!Entries, NEW o, o[f].openedByPid = p,
         \A e \in O!Entries \ {f} : o[e].openedByPid = Owner(e)
  PROVE  Reached(o, [fd EXCEPT ![p][x] = f])
<1>1. PICK fds : fds = [fd EXCEPT ![p][x] = f]
  OBVIOUS
<1>2. /\ fds[p][x] = f
      /\ \A q \in Pids, d \in O!Fds : q # p \/ d # x => fds[q][d] = fd[q][d]
  BY <1>1 DEF FdLists
<1>3. ASSUME NEW e \in O!Entries \ {f}, Owner(e) \in Pids
      PROVE  \E d \in O!Fds : fds[Owner(e)][d] = e
  <2>1. PICK d \in O!Fds : fd[Owner(e)][d] = e
    BY <1>3 DEF Reached, Owner
  <2>2. Owner(e) # p \/ d # x
    BY <2>1, Zero
  <2> QED
    BY <1>2, <1>3, <2>1, <2>2
<1>4. Reached(o, fds)
  BY <1>2, <1>3 DEF Reached
<1> QED
  BY <1>1, <1>4

(* A descriptor x and its entry, if it has one, are cleared.               *)
LEMMA CloseReached ==
  ASSUME NEW o \in Tables, NEW fds \in FdLists, Reached(o, fds),
         NEW p \in Pids, NEW x \in O!Fds, fds[p][x] # 0
  PROVE  Reached([o EXCEPT ![fds[p][x]] = O!NoEntry], [fds EXCEPT ![p][x] = 0])
<1>1. PICK t, g : t = [o EXCEPT ![fds[p][x]] = O!NoEntry] /\ g = [fds EXCEPT ![p][x] = 0]
  OBVIOUS
<1>2. \A q \in Pids, d \in O!Fds : q # p \/ d # x => g[q][d] = fds[q][d]
  BY <1>1 DEF FdLists
<1>3. \A e \in O!Entries : e # fds[p][x] => t[e] = o[e]
  BY <1>1 DEF Tables
<1>4. \A e \in O!Entries : e = fds[p][x] => t[e].openedByPid \notin Pids
  BY <1>1, Zero DEF Tables, O!NoEntry, O!Opened
<1>5. ASSUME NEW e \in O!Entries, t[e].openedByPid \in Pids
      PROVE  \E d \in O!Fds : g[t[e].openedByPid][d] = e
  <2>1. e # fds[p][x] /\ t[e] = o[e]
    BY <1>3, <1>4, <1>5
  <2>2. PICK d \in O!Fds : fds[o[e].openedByPid][d] = e
    BY <1>5, <2>1 DEF Reached
  <2>3. o[e].openedByPid # p \/ d # x
    BY <2>1, <2>2
  <2> QED
    BY <1>2, <1>5, <2>1, <2>2, <2>3
<1> QED
  BY <1>1, <1>5 DEF Reached

LEMMA CallReached ==
  ASSUME "sysClose" \in Solved, KInv, SpareDescriptors, Reached(oft, fd),
         NEW p \in Pids, nextFd[p] >= STD, FileCall(p)
  PROVE  Reached(oft', fd') /\ SpareDescriptors'
<1>1. /\ oft \in Tables /\ fd \in FdLists /\ nextFd \in [Pids -> Nat]
      /\ \A d \in O!Fds : d \in Nat
  BY FileFacts, ConstantsAssumption DEF KInv, Tables, FdLists, O!Fds, O!STD
<1>2. ASSUME NEW f \in O!FreeEntries, NEW j, NEW o, o = O!insertOpenFileTableEntry(f, p, j)
      PROVE  /\ f \in O!Entries /\ o[f].openedByPid = p
             /\ \A e \in O!Entries \ {f} : o[e].openedByPid = Owner(e)
  BY <1>1, <1>2 DEF O!insertOpenFileTableEntry, O!FreeEntries, O!Opened, Tables, Owner
<1>3. ~O!AtFdLimit(p) => nextFd[p] \in O!Fds /\ fd[p][nextFd[p]] = 0
  <2>1. ~O!AtFdLimit(p) => nextFd[p] \in O!Fds
    BY <1>1, ConstantsAssumption, SMT DEF O!AtFdLimit, O!Fds, O!STD, STD
  <2>2. nextFd[p] >= nextFd[p]
    BY <1>1
  <2> QED
    BY <2>1, <2>2 DEF SpareDescriptors
<1>4. ASSUME NEW f \in O!Entries, NEW i \in Inodes, NEW mode \in O!Modes,
             O!sysOpen(p, i, mode, f)
      PROVE  Reached(oft', fd') /\ SpareDescriptors'
  <2>1. PICK o, t : o = O!insertOpenFileTableEntry(f, p, i) /\ t = oft'
    OBVIOUS
  <2>2. /\ nextFd[p] \in O!Fds /\ fd[p][nextFd[p]] = 0 /\ f \in O!FreeEntries
        /\ t \in {o, O!lockFile(o, p, i)} /\ fd' = [fd EXCEPT ![p][nextFd[p]] = f]
        /\ nextFd' = [nextFd EXCEPT ![p] = @ + 1]
    BY <1>3, <1>4, <2>1 DEF O!sysOpen, O!IsFirst
  <2>3. o \in Tables
    BY <1>1, <2>1 DEF O!insertOpenFileTableEntry, Tables, O!Entry, O!Opened, O!Pids
  <2>4. \A e \in O!Entries : t[e].openedByPid = o[e].openedByPid
    BY <2>2, <2>3 DEF O!lockFile, Tables, O!Entry
  <2>5. t[f].openedByPid = p /\ \A e \in O!Entries \ {f} : t[e].openedByPid = Owner(e)
    BY <1>2, <2>1, <2>2, <2>4
  <2>6. Reached(t, fd')
    BY <1>1, <2>2, <2>5, OpenReached
  <2>7. SpareDescriptors'
    BY <1>1, <2>2 DEF SpareDescriptors, FdLists
  <2> QED
    BY <2>1, <2>6, <2>7
<1>5. ASSUME NEW f \in O!Entries, O!sysOpenEmpty(p, f)
      PROVE  Reached(oft', fd') /\ SpareDescriptors'
  <2>1. PICK o, fds : /\ o = O!insertOpenFileTableEntry(f, p, O!EMPTY_FILE)
                      /\ fds = [fd EXCEPT ![p][nextFd[p]] = f]
    OBVIOUS
  <2>2. /\ nextFd[p] \in O!Fds /\ fd[p][nextFd[p]] = 0 /\ f \in O!FreeEntries
        /\ oft' = O!CloseEntry(o, nextFd[p], p, fds) /\ fd' = O!CloseFd(nextFd[p], p, fds)
        /\ nextFd' = nextFd
    BY <1>3, <1>5, <2>1 DEF O!sysOpenEmpty, O!IsFirst
  <2>3. o \in Tables
    BY <1>1, <2>1 DEF O!insertOpenFileTableEntry, Tables, O!Entry, O!Opened, O!Pids
  <2>4. fds \in FdLists /\ fds[p][nextFd[p]] = f /\ f # 0
    BY <1>1, <2>1, <2>2, Zero DEF FdLists
  <2>5. O!Closable(nextFd[p], p, fds)
    BY <1>1, <2>2, <2>4 DEF O!Closable, STD
  <2>6. /\ oft' = [o EXCEPT ![fds[p][nextFd[p]]] = O!NoEntry]
        /\ fd' = [fds EXCEPT ![p][nextFd[p]] = 0]
    BY <2>2, <2>5 DEF O!CloseEntry, O!CloseFd
  <2>7. o[f].openedByPid = p /\ \A e \in O!Entries \ {f} : o[e].openedByPid = Owner(e)
    BY <1>2, <2>1, <2>2
  <2>8. Reached(o, fds)
    <3>1. Reached(o, [fd EXCEPT ![p][nextFd[p]] = f])
      BY <1>1, <2>2, <2>7, OpenReached
    <3> QED
      BY <2>1, <3>1
  <2>9. Reached(oft', fd')
    <3>1. fds[p][nextFd[p]] # 0
      BY <2>4
    <3>2. Reached([o EXCEPT ![fds[p][nextFd[p]]] = O!NoEntry], [fds EXCEPT ![p][nextFd[p]] = 0])
      BY <2>2, <2>3, <2>4, <2>8, <3>1, CloseReached
    <3> QED
      BY <2>6, <3>2
  <2>10. \A q \in Pids, d \in O!Fds : fd'[q][d] = fd[q][d]
    <3>1. PICK x : x = nextFd[p]
      OBVIOUS
    <3>2. x \in O!Fds /\ fd[p][x] = 0 /\ fds = [fd EXCEPT ![p][x] = f]
          /\ fd' = [fds EXCEPT ![p][x] = 0]
      BY <2>1, <2>2, <2>6, <3>1
    <3>3. \A q \in Pids, d \in O!Fds :
            fds[q][d] = IF q = p /\ d = x THEN f ELSE fd[q][d]
      BY <1>1, <3>2 DEF FdLists
    <3>4. \A q \in Pids, d \in O!Fds :
            fd'[q][d] = IF q = p /\ d = x THEN 0 ELSE fds[q][d]
      BY <2>4, <3>2 DEF FdLists
    <3>5. ASSUME NEW q \in Pids, NEW d \in O!Fds
          PROVE  fd'[q][d] = fd[q][d]
      <4>1. CASE q = p /\ d = x
        <5>1. fd'[p][x] = 0
          BY <2>4, <3>2 DEF FdLists
        <5> QED
          BY <3>2, <4>1, <5>1
      <4>2. CASE ~(q = p /\ d = x)
        <5>1. fds[q][d] = fd[q][d]
          BY <3>3, <4>2
        <5>2. fd'[q][d] = fds[q][d]
          BY <3>4, <4>2
        <5> QED
          BY <5>1, <5>2
      <4> QED
        BY <4>1, <4>2
    <3> QED
      BY <3>5
  <2> QED
    BY <2>2, <2>9, <2>10 DEF SpareDescriptors
<1>6. ASSUME NEW d \in O!Fds, O!sysClose(p, d)
      PROVE  Reached(oft', fd') /\ SpareDescriptors'
  <2>1. CASE O!Closable(d, p, fd)
    <3>1. /\ fd[p][d] # 0 /\ oft' = [oft EXCEPT ![fd[p][d]] = O!NoEntry]
          /\ fd' = [fd EXCEPT ![p][d] = 0] /\ nextFd' = nextFd
      BY <1>6, <2>1 DEF O!sysClose, O!CloseEntry, O!CloseFd, O!Closable
    <3>2. Reached(oft', fd')
      BY <1>1, <3>1, CloseReached
    <3> QED
      BY <1>1, <3>1, <3>2 DEF SpareDescriptors, FdLists
  <2>2. CASE ~O!Closable(d, p, fd)
    BY <1>6, <2>2 DEF O!sysClose, O!CloseEntry, O!CloseFd, SpareDescriptors, Reached
  <2> QED
    BY <2>1, <2>2
<1> QED
  BY <1>4, <1>5, <1>6, Zenon DEF FileCall

LEMMA NextReached ==
  ASSUME "sysClose" \in Solved, KInv, SpareDescriptors, EntriesReachable, [Next]_vars
  PROVE  EntriesReachable' /\ SpareDescriptors'
<1>1. Reached(oft, fd) /\ (Reached(oft', fd') => EntriesReachable')
  BY Zenon DEF Reached, EntriesReachable, Owner
<1>2. ASSUME oft' = oft \/ \E k \in Pids : oft' = O!closeAllFiles(oft, k), fd' = fd,
             \A q \in Pids : nextFd'[q] = nextFd[q] \/ fd[q] = O!NoFds
      PROVE  EntriesReachable' /\ SpareDescriptors'
  <2>1. \A e \in O!Entries : oft'[e].openedByPid \in Pids => oft'[e] = oft[e]
    BY <1>2, Zero DEF O!closeAllFiles, O!NoEntry, O!Opened
  <2>2. Reached(oft', fd')
    BY <1>1, <1>2, <2>1 DEF Reached
  <2>3. SpareDescriptors'
    BY <1>2 DEF SpareDescriptors, O!NoFds
  <2> QED
    BY <1>1, <2>2, <2>3
<1>3. CASE UNCHANGED files
  BY <1>2, <1>3 DEF files
<1>4. CASE P!OtherSyscall /\ FileCall(runningPid)
  <2>1. runningPid \in Pids /\ nextFd[runningPid] >= STD
    BY <1>4, ProcessFacts DEF KInv, P!OtherSyscall, P!EnterKernel, FilesOfTasks
  <2> QED
    BY <1>1, <1>4, <2>1, CallReached
<1>5. ASSUME NEW n \in Pids, sysForkExec(n) \/ sysForkExecNotElf(n)
      PROVE  EntriesReachable' /\ SpareDescriptors'
  <2>1. n \in Pids \ inUse
    BY <1>5, ForkStep DEF KInv, sysForkExec, sysForkExecNotElf
  <2>2. fd' = fd /\ nextFd' = [nextFd EXCEPT ![n] = STD] /\ fd[n] = O!NoFds
        /\ (oft' = oft \/ oft' = O!closeAllFiles(oft, n))
    BY <1>5, <2>1 DEF KInv, FilesOfTasks, sysForkExec, sysForkExecNotElf, O!NewTaskFiles,
                      O!STD, STD
  <2>3. \A q \in Pids : nextFd'[q] = nextFd[q] \/ fd[q] = O!NoFds
    BY <2>2, FileFacts DEF KInv
  <2> QED
    BY <1>2, <2>2, <2>3
<1>6. CASE sysExit
  BY <1>2, <1>6, ProcessFacts DEF KInv, sysExit, O!CloseProcessFiles
<1>7. CASE \E k \in Pids : sysKill(k)
  BY <1>2, <1>3, <1>7 DEF sysKill, O!CloseProcessFiles
<1>8. CASE sysFree
  <2>1. /\ oft' = oft
        /\ fd' = [q \in Pids |-> IF q \in P!Freed THEN O!NoFds ELSE fd[q]]
        /\ nextFd' = [q \in Pids |-> IF q \in P!Freed THEN 0 ELSE nextFd[q]]
    BY <1>8 DEF sysFree, O!ZeroTaskFiles, O!Pids
  <2>2. \A e \in O!Entries : Owner(e) \in Pids => Owner(e) \notin P!Freed
    BY DEF KInv, OwnersAlive, Alive, P!Freed
  <2>3. Reached(oft', fd')
    BY <1>1, <2>1, <2>2 DEF Reached, Owner
  <2>4. SpareDescriptors'
    BY <2>1 DEF SpareDescriptors, O!NoFds
  <2> QED
    BY <1>1, <2>3, <2>4
<1> QED
  BY <1>3, <1>4, <1>5, <1>6, <1>7, <1>8, FileCallStep DEF vars, NoFileCall

(* Once sysClose is written, no entry of the open file table is lost: its  *)
(* owner has a descriptor to close it with, whatever was opened, closed    *)
(* and created in between, and whoever the CPU is given to.                *)
THEOREM EntriesStayReachable ==
  ASSUME "sysClose" \in Solved
  PROVE  Spec => []EntriesReachable
<1>1. Init => EntriesReachable /\ SpareDescriptors
  BY Zero DEF Init, O!Init, O!createOpenFileTable, O!Opened, O!NoEntry, O!NoFds, O!Pids,
              O!KERNEL_OWNED, KERNEL_OWNED, EntriesReachable, Owner, SpareDescriptors
<1>2. KInv /\ SpareDescriptors /\ EntriesReachable /\ [Next]_vars
        => EntriesReachable' /\ SpareDescriptors'
  BY NextReached
<1> QED
  BY <1>1, <1>2, Invariant, PTL DEF Spec

-----------------------------------------------------------------------------
(* The properties of the process table, carried over to the kernel: its    *)
(* behaviours are behaviours of Processes.                                 *)
LEMMA KernelIsProcesses == Spec => PP!Spec
<1>1. Init => PP!Init
  BY SameProcesses DEF Init
<1>2. [Next]_vars => [PP!Next]_(PP!pvars)
  BY StepOfProcesses, SameProcesses DEF P!pvars, PP!pvars
<1> QED
  BY <1>1, <1>2, PTL DEF Spec, PP!Spec

(* Both tables keep their types, for every size of either and every set of *)
(* routines written.                                                       *)
THEOREM TypeCorrect == Spec => []TypeOK
<1>1. PP!IInv => P!TypeOK
  <2>1. PP!TypeOK => P!TypeOK
    BY DEF PP!TypeOK, P!TypeOK, PP!Pids, PP!States, PP!Dead, PP!KERNEL_OWNED, P!KERNEL_OWNED,
           PP!CpuModes, P!CpuModes
  <2>2. PP!IInv => PP!TypeOK
    BY DEF PP!IInv, PP!Core, PP!TableOK, PP!FlagsOK, PP!TypeOK
  <2> QED
    BY <2>1, <2>2
<1>2. OO!IInv => O!TypeOK
  BY FileFacts DEF O!TypeOK, O!Pids
<1>3. KInv => TypeOK
  BY <1>1, <1>2, Zenon DEF KInv, TypeOK
<1> QED
  BY <1>3, Invariant, PTL

(* Exactly one task is running, and it is the one at RUNNING_PID_LOC.      *)
THEOREM RunningIsUnique == Spec => []OneRunning
<1>1. KInv => OneRunning
  BY ProcessFacts DEF KInv, OneRunning, P!OneRunning
<1> QED
  BY <1>1, Invariant, PTL

(* As long as the CPU moves only between parent and child, the parent that *)
(* sysExit or sysSwitchToParent resumes can be resumed, whatever is opened,*)
(* killed and freed in between.                                            *)
THEOREM ParentAlwaysReady ==
  ASSUME NoSwitch
  PROVE  Spec => []ParentReady
<1>1. PP!NoSwitch
  BY DEF NoSwitch, PP!NoSwitch
<1>2. PP!Spec => []PP!ParentReady
  BY <1>1, SameAssumptions, PP!ParentAlwaysReady
<1>3. PP!ParentReady => ParentReady
  BY DEF PP!ParentReady, ParentReady, P!ParentReady
<1> QED
  BY <1>2, <1>3, KernelIsProcesses, PTL

(* ... the CPU is never left without a page directory,                     *)
THEOREM CpuNeverFaults ==
  ASSUME NoSwitch
  PROVE  Spec => []NeverFault
<1>1. PP!NoSwitch
  BY DEF NoSwitch, PP!NoSwitch
<1>2. PP!Spec => []PP!NeverFault
  BY <1>1, SameAssumptions, PP!CpuNeverFaults
<1>3. PP!NeverFault => NeverFault
  BY DEF PP!NeverFault, NeverFault, P!NeverFault
<1> QED
  BY <1>2, <1>3, KernelIsProcesses, PTL

(* ... and no task that was ended comes back.                              *)
THEOREM TheDeadStayDead ==
  ASSUME NoSwitch
  PROVE  Spec => DeadStayDead
<1>1. PP!NoSwitch
  BY DEF NoSwitch, PP!NoSwitch
<1>2. PP!Spec => PP!DeadStayDead
  BY <1>1, SameAssumptions, PP!TheDeadStayDead
<1>3. [\A p \in PP!Pids : state[p] \in PP!Dead => state'[p] \in PP!Dead \union {"NONE"}]_(PP!pvars)
        => [\A p \in P!Pids : state[p] \in P!Dead => state'[p] \in P!Dead \union {"NONE"}]_(P!pvars)
  BY DEF PP!Pids, PP!Dead, PP!pvars, P!pvars
<1> QED
  BY <1>2, <1>3, KernelIsProcesses, PTL DEF PP!DeadStayDead, DeadStayDead, P!DeadStayDead

(* The CPU returns only to a task that has saved its registers: in the     *)
(* kernel as shipped, and, once sysKill is written, whatever sysSwitch and *)
(* the scheduler choose.                                                   *)
THEOREM RegistersRestored ==
  ASSUME "sysKill" \in Solved \/ NoSwitch
  PROVE  Spec => ResumedHasRegisters
<1>1. "sysKill" \in Solved \/ PP!NoSwitch
  BY DEF NoSwitch, PP!NoSwitch
<1>2. PP!Spec => PP!ResumedHasRegisters
  BY <1>1, SameAssumptions, PP!RegistersRestored
<1>3. [cpu = "kernel" /\ cpu' = "user" => saved[runningPid']]_(PP!pvars)
        => [cpu = "kernel" /\ cpu' = "user" => saved[runningPid']]_(P!pvars)
  BY DEF PP!pvars, P!pvars
<1> QED
  BY <1>2, <1>3, KernelIsProcesses, PTL
     DEF PP!ResumedHasRegisters, ResumedHasRegisters, P!ResumedHasRegisters
=============================================================================
