------------------------------ MODULE Processes ------------------------------
(***************************************************************************)
(* The process table and the system calls that hand the CPU from one       *)
(* process to another: sysForkExec, sysExit, sysSwitchToParent, sysKill,   *)
(* sysSwitch, sysFree, sysToggleScheduler, and the way out of              *)
(* syscallHandler through the scheduler.                                   *)
(*                                                                         *)
(* There is one CPU, and a system call runs with interrupts off except     *)
(* while it waits; the interrupt handler changes counters only.  A system  *)
(* call is therefore one step, and the way out (scheduler, iret) another.  *)
(***************************************************************************)
EXTENDS Constants

VARIABLES
  inUse,        (* slots whose pid word is not zero                        *)
  state,        (* task.state of every slot                                *)
  ppid,         (* task.ppid of every slot                                 *)
  saved,        (* does the slot hold the registers of a system call?      *)
  runningPid,   (* the word at RUNNING_PID_LOC                             *)
  runScheduler, (* kernelConfiguration.runScheduler                        *)
  cpu           (* what the CPU executes                                   *)

pvars == <<inUse, state, ppid, saved, runningPid, runScheduler, cpu>>

(* "user": ring 3 code of runningPid.  "kernel": syscallHandler, past the  *)
(* called routine.  "panic": the endless loop of panic().  "fault": CR3    *)
(* points to a zeroed page directory.                                      *)
CpuModes == {"user", "kernel", "panic", "fault"}

Init ==
  /\ inUse = {1}
  /\ state = [p \in Pids |-> IF p = 1 THEN "RUNNING" ELSE "NONE"]
  /\ ppid  = [p \in Pids |-> IF p = 1 THEN KERNEL_OWNED ELSE 0]
  /\ saved = [p \in Pids |-> FALSE]
  /\ runningPid = 1
  /\ runScheduler = FALSE
  /\ cpu = "user"

-----------------------------------------------------------------------------
(* What the routines called by the handlers compute.                       *)

Mutant_updateTaskState(s, p, new) == [s EXCEPT ![p + 1] = new]    \* wrong slot
updateTaskState(s, p, new) == [s EXCEPT ![p] = new]

(* The scan of initializeTask panics when it looks at the last slot, even  *)
(* if it is free: a process can get any slot but the last.                 *)
FreeSlots == Pids \ inUse
initializeTaskPanics == FreeSlots \subseteq {MAX_PROCESSES}

(* sysKill, once written: the task becomes PROC_KILLED and pid 1 adopts    *)
(* its children.  Pid 1 and a pid without a task are refused.              *)
Killable(k, used) == "sysKill" \in Solved /\ k \in used /\ k # 1
KillState(s, k, used) == IF Killable(k, used) THEN updateTaskState(s, k, "KILLED") ELSE s
Mutant_Reparent(pp, k, used) == pp    \* the children keep a dead parent
Reparent(pp, k, used) ==
  IF Killable(k, used)
    THEN [p \in Pids |-> IF p \in used /\ pp[p] = k THEN 1 ELSE pp[p]]
    ELSE pp

(* contextSwitch(p) to a slot that sysFree has zeroed leaves the CPU with  *)
(* no mapped page.                                                         *)
AfterSwitchTo(p) == IF p \in inUse THEN "kernel" ELSE "fault"

-----------------------------------------------------------------------------
(* System calls.  Each is made by runningPid, whose registers              *)
(* syscallHandler saves first.                                             *)

Mutant_EnterKernel == cpu = "user" /\ UNCHANGED saved    \* registers not saved
EnterKernel ==
  /\ cpu = "user"
  /\ saved' = [saved EXCEPT ![runningPid] = TRUE]

(* A call that touches no task: it returns, or panics for want of a page   *)
(* or of an open file table entry.                                         *)
OtherSyscall ==
  /\ EnterKernel
  /\ cpu' \in {"kernel", "panic"}
  /\ UNCHANGED <<inUse, state, ppid, runningPid, runScheduler>>

sysForkExecRefused ==
  \/ /\ EnterKernel            \* file not found
     /\ cpu' = "kernel"
     /\ UNCHANGED <<inUse, state, ppid, runningPid, runScheduler>>
  \/ /\ EnterKernel            \* no slot for the task
     /\ initializeTaskPanics
     /\ cpu' = "panic"
     /\ UNCHANGED <<inUse, state, ppid, runningPid, runScheduler>>

initializeTask(n) ==
  /\ ~initializeTaskPanics
  /\ IsFirst(n, FreeSlots)
  /\ inUse' = inUse \union {n}

(* No frame for one of the pages of the new process.                       *)
sysForkExecNoPage(n) ==
  /\ EnterKernel
  /\ initializeTask(n)
  /\ state' = updateTaskState(state, n, "SLEEPING")
  /\ ppid' = [ppid EXCEPT ![n] = runningPid]
  /\ cpu' = "panic"
  /\ UNCHANGED <<runningPid, runScheduler>>

(* The file is not an ELF file: the task just made is killed.              *)
sysForkExecNotElf(n) ==
  /\ EnterKernel
  /\ initializeTask(n)
  /\ state' = KillState(updateTaskState(state, n, "SLEEPING"), n, inUse')
  /\ ppid' = Reparent([ppid EXCEPT ![n] = runningPid], n, inUse')
  /\ cpu' = "kernel"
  /\ UNCHANGED <<runningPid, runScheduler>>

(* The program starts in ring 3 at once, past the scheduler.               *)
sysForkExec(n) ==
  /\ EnterKernel
  /\ initializeTask(n)
  /\ state' = updateTaskState(updateTaskState(state, runningPid, "SLEEPING"), n, "RUNNING")
  /\ ppid' = [ppid EXCEPT ![n] = runningPid]
  /\ runningPid' = n
  /\ cpu' = "user"
  /\ UNCHANGED runScheduler

(* Pid 1 cannot exit.  The parent is set running whatever its state.       *)
sysExit ==
  /\ EnterKernel
  /\ runningPid # 1
  /\ LET parent == ppid[runningPid]
     IN /\ state' = updateTaskState(updateTaskState(state, runningPid, "ZOMBIE"),
                                    parent, "RUNNING")
        /\ runningPid' = parent
        /\ cpu' = AfterSwitchTo(parent)
  /\ UNCHANGED <<inUse, ppid, runScheduler>>

(* The library does not make this call for pid 1.                          *)
sysSwitchToParent ==
  /\ EnterKernel
  /\ runningPid # 1
  /\ LET parent == ppid[runningPid]
     IN /\ state' = updateTaskState(updateTaskState(state, runningPid, "SLEEPING"),
                                    parent, "RUNNING")
        /\ runningPid' = parent
        /\ cpu' = AfterSwitchTo(parent)
  /\ UNCHANGED <<inUse, ppid, runScheduler>>

(* The library refuses to kill the caller.                                 *)
sysKill(k) ==
  /\ EnterKernel
  /\ k # runningPid
  /\ state' = KillState(state, k, inUse)
  /\ ppid' = Reparent(ppid, k, inUse)
  /\ cpu' = "kernel"
  /\ UNCHANGED <<inUse, runningPid, runScheduler>>

(* The CPU goes to a sleeping task; any other target is refused.           *)
SwitchTo(k) ==
  /\ k \in inUse
  /\ state[k] = "SLEEPING"
  /\ state' = updateTaskState(updateTaskState(state, runningPid, "SLEEPING"), k, "RUNNING")
  /\ runningPid' = k

sysSwitch(k) ==
  /\ "sysSwitch" \in Solved
  /\ EnterKernel
  /\ SwitchTo(k)
  /\ cpu' = "kernel"
  /\ UNCHANGED <<inUse, ppid, runScheduler>>

Mutant_Freed == inUse \ {runningPid}    \* the state is not looked at
Freed == {p \in inUse : state[p] \in Dead}

sysFree ==
  /\ "sysFree" \in Solved
  /\ cpu = "user"
  /\ inUse' = inUse \ Freed
  /\ state' = [p \in Pids |-> IF p \in Freed THEN "NONE" ELSE state[p]]
  /\ ppid'  = [p \in Pids |-> IF p \in Freed THEN 0 ELSE ppid[p]]
  /\ saved' = [p \in Pids |-> p = runningPid \/ (p \notin Freed /\ saved[p])]
  /\ cpu' = "kernel"
  /\ UNCHANGED <<runningPid, runScheduler>>

sysToggleScheduler ==
  /\ EnterKernel
  /\ runScheduler' = ~runScheduler
  /\ cpu' = "kernel"
  /\ UNCHANGED <<inUse, state, ppid, runningPid>>

(* The end of syscallHandler: scheduler(), then iret with the registers of *)
(* the task RUNNING_PID_LOC names.                                         *)
Resume ==
  /\ cpu = "kernel"
  /\ cpu' = "user"
  /\ \/ UNCHANGED <<state, runningPid>>
     \/ /\ "scheduler" \in Solved
        /\ runScheduler
        /\ \E k \in Pids : SwitchTo(k)
  /\ UNCHANGED <<inUse, ppid, saved, runScheduler>>

(* panic() loops for ever; a CPU without a mapped page does nothing more.  *)
Halted ==
  /\ cpu \in {"panic", "fault"}
  /\ UNCHANGED pvars

Next ==
  \/ OtherSyscall
  \/ sysForkExecRefused
  \/ \E n \in Pids : sysForkExecNoPage(n) \/ sysForkExecNotElf(n) \/ sysForkExec(n)
  \/ sysExit
  \/ sysSwitchToParent
  \/ \E k \in Pids : sysKill(k) \/ sysSwitch(k)
  \/ sysFree
  \/ sysToggleScheduler
  \/ Resume
  \/ Halted

Spec == Init /\ [][Next]_pvars

-----------------------------------------------------------------------------
(* Properties.                                                             *)

TypeOK ==
  /\ inUse \subseteq Pids /\ 1 \in inUse
  /\ state \in [Pids -> States]
  /\ ppid \in [Pids -> Pids \union {0, KERNEL_OWNED}]
  /\ saved \in [Pids -> BOOLEAN]
  /\ runningPid \in Pids
  /\ runScheduler \in BOOLEAN
  /\ cpu \in CpuModes

(* The task table and the word at RUNNING_PID_LOC never disagree: exactly  *)
(* one task is PROC_RUNNING, and it is the one the library and the handler *)
(* take for the caller.  Every handler that moves the CPU (sysForkExec,    *)
(* sysExit, sysSwitchToParent, sysSwitch, scheduler) writes the two in     *)
(* separate places.                                                        *)
OneRunning == \A p \in Pids : state[p] = "RUNNING" <=> p = runningPid

(* sysExit and sysSwitchToParent resume the parent without looking at it.  *)
(* That is sound as long as the parent of the running process is asleep in *)
(* a system call of its own, with registers to go back to and a page       *)
(* directory that has not been zeroed by sysFree.                          *)
ParentReady ==
  runningPid # 1 =>
    LET parent == ppid[runningPid]
    IN parent \in inUse /\ state[parent] = "SLEEPING" /\ saved[parent]

(* "This terminates the current process" (systemExit, simpleOSlibc.h:158): *)
(* a zombie or killed task leaves that state only when sysFree clears its  *)
(* slot; no exit or switch makes it run again.                             *)
DeadStayDead ==
  [][\A p \in Pids : state[p] \in Dead => state'[p] \in Dead \union {"NONE"}]_pvars

(* The CPU is never left without a page directory: no process is resumed   *)
(* in a slot that sysFree has zeroed.                                      *)
NeverFault == cpu # "fault"

(* The registers that the end of syscallHandler restores are those the     *)
(* resumed task saved when it entered the kernel: the CPU never goes to a  *)
(* task that has not run yet, such as one whose file was not an ELF file.  *)
ResumedHasRegisters ==
  [][cpu = "kernel" /\ cpu' = "user" => saved[runningPid']]_pvars
=============================================================================
