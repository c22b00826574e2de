-------------------------------- MODULE Kernel --------------------------------
(***************************************************************************)
(* The process table and the open file table together: each system call   *)
(* as syscallHandler carries it out, with everything it does to either.    *)
(***************************************************************************)
EXTENDS Constants

CONSTANT Inodes   (* inode numbers of the files that can be opened         *)

VARIABLES inUse, state, ppid, saved, runningPid, runScheduler, cpu,
          oft, fd, nextFd

P == INSTANCE Processes
O == INSTANCE OpenFiles

ASSUME InodesAreNumbers == Inodes \subseteq 1 .. (O!EMPTY_FILE - 1)

files == <<oft, fd, nextFd>>
vars == <<inUse, state, ppid, saved, runningPid, runScheduler, cpu, files>>

Init == P!Init /\ O!Init

-----------------------------------------------------------------------------
(* Calls that change no file, or return early, or end in panic().          *)
NoFileCall ==
  /\ \/ P!OtherSyscall
     \/ P!sysForkExecRefused
     \/ P!sysSwitchToParent
     \/ \E k \in Pids : P!sysSwitch(k)
     \/ P!sysToggleScheduler
     \/ P!Resume
     \/ P!Halted
  /\ UNCHANGED files

sysOpen(i, mode, e) ==
  /\ P!OtherSyscall
  /\ cpu' = "kernel"
  /\ O!sysOpen(runningPid, i, mode, e)

sysOpenEmpty(e) ==
  /\ P!OtherSyscall
  /\ cpu' = "kernel"
  /\ O!sysOpenEmpty(runningPid, e)

sysClose(d) ==
  /\ P!OtherSyscall
  /\ cpu' = "kernel"
  /\ O!sysClose(runningPid, d)

sysForkExec(n) ==
  /\ P!sysForkExec(n) \/ P!sysForkExecNoPage(n)
  /\ O!NewTaskFiles(n)

sysForkExecNotElf(n) ==
  /\ P!sysForkExecNotElf(n)
  /\ nextFd' = [nextFd EXCEPT ![n] = STD]
  /\ oft' = IF P!Killable(n, inUse') THEN O!closeAllFiles(oft, n) ELSE oft
  /\ UNCHANGED fd

Mutant_sysExit == P!sysExit /\ UNCHANGED files    \* files not closed
sysExit ==
  /\ P!sysExit
  /\ O!CloseProcessFiles(runningPid)

sysKill(k) ==
  /\ P!sysKill(k)
  /\ IF P!Killable(k, inUse) THEN O!CloseProcessFiles(k) ELSE UNCHANGED files

Mutant_sysFree == P!sysFree /\ UNCHANGED files    \* task not zeroed
sysFree ==
  /\ P!sysFree
  /\ O!ZeroTaskFiles(P!Freed)

Next ==
  \/ NoFileCall
  \/ \E e \in O!Entries : \/ \E i \in Inodes, mode \in O!Modes : sysOpen(i, mode, e)
                          \/ sysOpenEmpty(e)
  \/ \E d \in O!Fds : sysClose(d)
  \/ \E n \in Pids : sysForkExec(n) \/ sysForkExecNotElf(n)
  \/ sysExit
  \/ \E k \in Pids : sysKill(k)
  \/ sysFree

Spec == Init /\ [][Next]_vars

-----------------------------------------------------------------------------
(* Properties.                                                             *)

(* Every step of the kernel, seen in one table alone, is a step of that    *)
(* table's specification: the tables do no more to each other than those   *)
(* specifications allow for.                                               *)
ImplementsProcesses == P!Spec
ImplementsOpenFiles == O!Spec

TypeOK == P!TypeOK /\ O!TypeOK

(* The properties of the process table, in the kernel that contains it:    *)
(* the word at RUNNING_PID_LOC and the task states agree on who runs;      *)
OneRunning == P!OneRunning

(* the parent that an exit or a return resumes sleeps in a call of its own *)
(* (sysExit, sysSwitchToParent);                                           *)
ParentReady == P!ParentReady

(* the CPU never goes to a slot that sysFree has zeroed (contextSwitch);   *)
NeverFault == P!NeverFault

(* no zombie or killed task runs again before its slot is cleared;         *)
DeadStayDead == P!DeadStayDead

(* and the registers that syscallHandler restores are registers that the   *)
(* resumed task has saved.                                                 *)
ResumedHasRegisters == P!ResumedHasRegisters

Alive(p) == p \in inUse /\ state[p] \in {"SLEEPING", "RUNNING"}
Owner(e) == oft[e].openedByPid

(* No entry, and so no lock, outlives its process: whatever sequence of    *)
(* exits, kills, frees and new tasks, the owner of an entry is alive.      *)
OwnersAlive == \A e \in O!Entries : Owner(e) \in Pids => Alive(Owner(e))

(* A live process's descriptors lead to entries of its own, and no two of  *)
(* them to the same one: no close of another process, no reuse of an entry *)
(* and no reuse of a task slot leaves a descriptor behind.                 *)
DescriptorsOwned ==
  \A p \in Pids, d \in O!Fds :
    Alive(p) /\ fd[p][d] # 0 =>
      /\ Owner(fd[p][d]) = p
      /\ \A d2 \in O!Fds : fd[p][d2] = fd[p][d] => d2 = d

(* Once sysClose is written, every entry can be closed: the process that   *)
(* opened it has a descriptor for it.                                      *)
EntriesReachable ==
  \A e \in O!Entries : Owner(e) \in Pids => \E d \in O!Fds : fd[Owner(e)][d] = e

(* A process loses a write lock only in a system call of its own or by     *)
(* being killed, never by what another process closes.                     *)
LockLostByOwner ==
  [][\A e \in O!Entries :
       oft[e].lockedForWriting /\ oft'[e] # oft[e]
         => Owner(e) = runningPid \/ state'[Owner(e)] = "KILLED"]_vars
=============================================================================
