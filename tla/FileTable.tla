------------------------------ MODULE FileTable ------------------------------
(***************************************************************************)
(* The calls of OpenFiles as file.cpp and vm.cpp carry them out: semaphore *)
(* by semaphore, and table entry by table entry.  A semaphore that is not  *)
(* free is waited for in a loop, on the only CPU and with interrupts off:  *)
(* nobody else could release it.  What a call has still to do is a         *)
(* sequence of steps, and an early return skips some of them.              *)
(***************************************************************************)
EXTENDS OpenFiles, Sequences

VARIABLES
  sem,      (* currentValue of each semaphore, by what it guards           *)
  todo,     (* steps still to do; empty in user mode                       *)
  pid,      (* the calling process, 0 in user mode                         *)
  inode,    (* the inode of the file that is opened, 0 in other calls      *)
  at,       (* the scan's entry or slot, from 1                            *)
  avail,    (* nextAvailEntry, nextAvailPid                                *)
  before    (* for the properties: the tables when the call began, or <<>> *)

call == <<pid, inode, before>>
vars == <<ovars, sem, todo, call, at, avail>>

-----------------------------------------------------------------------------
(* The routines, and the calls that are made of them.                      *)
Files == "OPEN_FILE_TABLE"
Tasks == "PROCESS_TABLE_LOC"
Frames == "PAGEFRAME_MAP_BASE"

Work(name) == <<name>>
Acquire(s) == <<"acquire", s>>
Release(s) == <<"release", s>>
Holding(s, steps) == <<Acquire(s)>> \o steps \o <<Release(s)>>
Panic == Work("panic")

insertEntry     == Holding(Files, <<Work("findEntry"), Work("writeEntry")>>)
lockEntry       == Holding(Files, <<Work("findLocked"), Work("findOwn")>>)
closeAll        == Holding(Files, <<Work("closeEntries")>>)
initializeTask  == Holding(Tasks, <<Work("findSlot"), Work("fillSlot")>>)
updateTaskState == Holding(Tasks, <<>>)
freeFrame       == Holding(Frames, <<>>)
freePage        == Holding(Tasks, freeFrame)

(* The first look for a lock, a file that is not there and pages that are  *)
(* not to be had leave the tables and the semaphores as they are.          *)
OpenSteps(mode) ==
  insertEntry \o <<Work("setDescriptor")>>
    \o (IF mode = "RDWRITE" THEN lockEntry ELSE <<>>)
    \o freePage \o <<Work("countDescriptor")>>
OpenEmptySteps == insertEntry \o <<Work("setDescriptor"), Work("close")>>
ForkSteps == initializeTask \o updateTaskState \o updateTaskState
ExitSteps == updateTaskState \o updateTaskState \o closeAll

(* kInit creates the semaphores, each with one for current and maximum.    *)
StepsInit ==
  /\ Init
  /\ sem = [s \in {Files, Tasks, Frames} |-> 1]
  /\ todo = <<>>
  /\ pid = 0 /\ inode = 0
  /\ at = 1 /\ avail = 0
  /\ before = <<>>

Begin(p, i, steps) ==
  /\ todo = <<>> /\ todo' = steps \o <<Work("return")>>
  /\ pid' = p /\ inode' = i /\ before' = ovars
  /\ UNCHANGED <<ovars, sem, at, avail>>

BeginCall(p) ==
  \/ /\ ~AtFdLimit(p)
     /\ \/ \E i \in Inodes, mode \in Modes : Begin(p, i, OpenSteps(mode))
        \/ Begin(p, EMPTY_FILE, OpenEmptySteps)
  \/ Begin(p, 0, ForkSteps)
  \/ p # 1 /\ Begin(p, 0, ExitSteps)

(* sysClose and sysFree, once written.                                     *)
OneStepCall ==
  /\ todo = <<>>
  /\ \/ \E p \in Callers, d \in Fds : sysClose(p, d)
     \/ \E freed \in SUBSET (Callers \ {1}) : ZeroTaskFiles(freed)
  /\ UNCHANGED <<sem, todo, call, at, avail>>

-----------------------------------------------------------------------------
(* The steps.                                                              *)
Now(step) == todo # <<>> /\ Head(todo) = step
NextStep == todo' = Tail(todo) /\ at' = 1    (* the next scan starts anew      *)
ScanOn == at' = at + 1 /\ UNCHANGED todo

(* The callers repeat a call that returns false until it does not.         *)
acquireLock(s) ==
  /\ Now(Acquire(s))
  /\ IF sem[s] = 0 THEN UNCHANGED <<sem, todo, at>> ELSE sem' = [sem EXCEPT ![s] = @ - 1] /\ NextStep
  /\ UNCHANGED <<ovars, call, avail>>

releaseLock(s) ==
  /\ Now(Release(s))
  /\ IF sem[s] = 1 THEN UNCHANGED <<sem, todo, at>> ELSE sem' = [sem EXCEPT ![s] = @ + 1] /\ NextStep
  /\ UNCHANGED <<ovars, call, avail>>

(* insertOpenFileTableEntry and initializeTask look for a free entry.  At  *)
(* the last one they release the semaphore and panic, found or not.        *)
Find(free, last, s) ==
  /\ avail' = IF free THEN at ELSE 0
  /\ IF at = last THEN todo' = <<Release(s), Panic>> /\ at' = 1
     ELSE IF free THEN NextStep ELSE ScanOn
  /\ UNCHANGED <<ovars, sem, call>>

findEntry == Now(Work("findEntry")) /\ Find(oft[at].openedByPid = 0, MAX_SYSTEM_OPEN_FILES, Files)
findSlot  == Now(Work("findSlot")) /\ Find(nextFd[at] = 0, MAX_PROCESSES, Tasks)

writeEntry ==
  /\ Now(Work("writeEntry")) /\ NextStep
  /\ oft' = insertOpenFileTableEntry(avail, pid, inode)
  /\ UNCHANGED <<fd, nextFd, sem, call, avail>>

fillSlot ==
  /\ Now(Work("fillSlot")) /\ NextStep
  /\ NewTaskFiles(avail)
  /\ UNCHANGED <<sem, call, avail>>

(* lockFile's two scans.  A lock found ends the routine.                   *)
Mutant_findLocked ==    (* a lock is not looked for                         *)
  /\ Now(Work("findLocked")) /\ NextStep
  /\ UNCHANGED <<ovars, sem, call, avail>>
Mutant_findLockedReturns ==    (* the early return keeps the semaphore        *)
  /\ Now(Work("findLocked"))
  /\ IF oft[at].inode = inode /\ oft[at].lockedForWriting
       THEN todo' = Tail(Tail(Tail(todo))) /\ at' = 1
       ELSE IF at = MAX_SYSTEM_OPEN_FILES THEN NextStep ELSE ScanOn
  /\ UNCHANGED <<ovars, sem, call, avail>>
findLocked ==
  /\ Now(Work("findLocked"))
  /\ IF oft[at].inode = inode /\ oft[at].lockedForWriting
       THEN todo' = Tail(Tail(todo)) /\ at' = 1
       ELSE IF at = MAX_SYSTEM_OPEN_FILES THEN NextStep ELSE ScanOn
  /\ UNCHANGED <<ovars, sem, call, avail>>

Mutant_findOwn ==    (* the owner is not looked at                          *)
  /\ Now(Work("findOwn"))
  /\ IF oft[at].inode = inode
       THEN oft' = [oft EXCEPT ![at].lockedForWriting = TRUE] /\ NextStep
       ELSE UNCHANGED oft /\ IF at = MAX_SYSTEM_OPEN_FILES THEN NextStep ELSE ScanOn
  /\ UNCHANGED <<fd, nextFd, sem, call, avail>>
findOwn ==
  /\ Now(Work("findOwn"))
  /\ IF oft[at].inode = inode /\ oft[at].openedByPid = pid
       THEN oft' = [oft EXCEPT ![at].lockedForWriting = TRUE] /\ NextStep
       ELSE UNCHANGED oft /\ IF at = MAX_SYSTEM_OPEN_FILES THEN NextStep ELSE ScanOn
  /\ UNCHANGED <<fd, nextFd, sem, call, avail>>

closeEntries ==
  /\ Now(Work("closeEntries"))
  /\ oft' = IF oft[at].openedByPid = pid THEN [oft EXCEPT ![at] = NoEntry] ELSE oft
  /\ IF at = MAX_SYSTEM_OPEN_FILES THEN NextStep ELSE ScanOn
  /\ UNCHANGED <<fd, nextFd, sem, call, avail>>

(* What sysOpen and sysOpenEmpty do to the task, outside any semaphore.    *)
setDescriptor ==
  /\ Now(Work("setDescriptor")) /\ NextStep
  /\ fd' = [fd EXCEPT ![pid][nextFd[pid]] = avail]
  /\ UNCHANGED <<oft, nextFd, sem, call, avail>>

countDescriptor ==
  /\ Now(Work("countDescriptor")) /\ NextStep
  /\ nextFd' = [nextFd EXCEPT ![pid] = @ + 1]
  /\ UNCHANGED <<oft, fd, sem, call, avail>>

close ==
  /\ Now(Work("close")) /\ NextStep
  /\ sysClose(pid, nextFd[pid])
  /\ UNCHANGED <<sem, call, avail>>

Return ==
  /\ Now(Work("return")) /\ NextStep
  /\ pid' = 0 /\ inode' = 0 /\ avail' = 0 /\ before' = <<>>
  /\ UNCHANGED <<ovars, sem>>

(* panic() halts the machine.                                              *)
Halted == Now(Panic) /\ UNCHANGED vars

Step ==
  \/ \E s \in {Files, Tasks, Frames} : acquireLock(s) \/ releaseLock(s)
  \/ findEntry \/ writeEntry \/ findSlot \/ fillSlot
  \/ findLocked \/ findOwn \/ closeEntries
  \/ setDescriptor \/ countDescriptor \/ close
  \/ Return

StepsNext == (\E p \in Callers : BeginCall(p)) \/ OneStepCall \/ Step \/ Halted

(* The CPU goes on as long as it can: nothing interrupts a system call     *)
(* outside the waits for the timer.                                        *)
StepsSpec == StepsInit /\ [][StepsNext]_vars /\ WF_vars(Step)

-----------------------------------------------------------------------------
(* Properties.                                                             *)

StepsTypeOK ==
  /\ TypeOK
  /\ sem \in [{Files, Tasks, Frames} -> {0, 1}]
  /\ pid \in Callers \union {0} /\ inode \in Inodes \union {0, EMPTY_FILE}
  /\ at \in Entries \union Pids
  /\ avail \in Entries \union Pids \union {0}

(* Every call comes to its end, back in user mode or in panic(): no path   *)
(* through the routines leaves a semaphore taken that they, or the next    *)
(* call, wait for; and none waits to release one that is free.             *)
CallsReturn == todo # <<>> ~> (todo = <<>> \/ Now(Panic))

(* The scans with their early returns, and the panic in the middle of an   *)
(* open or a fork, do to the tables what the calls of OpenFiles do in one  *)
(* step; a call that ends in panic() has done nothing yet.                 *)
Seen(k) == IF todo = <<>> THEN ovars[k] ELSE before[k]
Calls == INSTANCE OpenFiles WITH oft <- Seen(1), fd <- Seen(2), nextFd <- Seen(3)
StepsImplementCalls == Calls!Spec
=============================================================================
