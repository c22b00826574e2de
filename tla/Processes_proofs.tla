-------------------------- MODULE Processes_proofs --------------------------
(***************************************************************************)
(* Proofs about Processes.  The first half holds whichever assignment      *)
(* routines are written; the second half is about the kernel without       *)
(* sysSwitch and scheduler, where the processes that wait for a child form *)
(* a stack.                                                                *)
(***************************************************************************)
EXTENDS Processes, TLAPS

(* TypeOK and OneRunning are not inductive alone.  That the CPU goes to a  *)
(* pid at all when a process exits needs the parent of every task to be    *)
(* one; that sysFree never frees the caller or pid 1 needs the caller to   *)
(* have a task and pid 1 to be alive.                                      *)
ParentsArePids == \A p \in inUse \ {1} : ppid[p] \in Pids
InitAlive      == state[1] \notin Dead
CallerHasTask  == cpu \in {"user", "kernel"} => runningPid \in inUse

(* The two Boolean-valued variables are typed apart from the others.       *)
FlagsOK == saved \in [Pids -> BOOLEAN] /\ runScheduler \in BOOLEAN

TableOK ==
  /\ inUse \subseteq Pids /\ 1 \in inUse
  /\ state \in [Pids -> States]
  /\ ppid \in [Pids -> Pids \union {0, KERNEL_OWNED}]
  /\ runningPid \in Pids
  /\ cpu \in CpuModes

Core == TableOK /\ OneRunning /\ ParentsArePids /\ InitAlive /\ CallerHasTask
IInv == Core /\ FlagsOK

LEMMA OneIsAPid == 1 \in Pids /\ KERNEL_OWNED \notin Pids /\ 0 \notin Pids
  BY ConstantsAssumption, SMT DEF Pids, KERNEL_OWNED

USE OneIsAPid DEF States, Dead, CpuModes

LEMMA InitIInv == Init => IInv
<1> SUFFICES ASSUME Init PROVE IInv
  OBVIOUS
<1>1. Core
  BY SMT DEF Init, Core, TableOK, OneRunning, ParentsArePids, InitAlive, CallerHasTask
<1>2. FlagsOK
  BY Zenon DEF Init, FlagsOK
<1> QED
  BY <1>1, <1>2 DEF IInv

LEMMA NextFlags == FlagsOK /\ [Next]_pvars => FlagsOK'
<1> SUFFICES ASSUME FlagsOK, [Next]_pvars PROVE FlagsOK'
  OBVIOUS
<1>1. \/ EnterKernel /\ (UNCHANGED runScheduler \/ runScheduler' = ~runScheduler)
      \/ sysFree
      \/ UNCHANGED <<saved, runScheduler>>
  BY DEF Next, OtherSyscall, sysForkExecRefused, sysForkExecNoPage, sysForkExecNotElf,
         sysForkExec, sysExit, sysSwitchToParent, sysKill, sysSwitch, sysToggleScheduler,
         Resume, Halted, pvars
<1> QED
  BY <1>1, Zenon DEF FlagsOK, EnterKernel, sysFree

(* What KillState and Reparent do, with or without a body for sysKill.     *)
LEMMA KillFacts ==
  ASSUME NEW s \in [Pids -> States], NEW pp \in [Pids -> Pids \union {0, KERNEL_OWNED}],
         NEW k, NEW used \in SUBSET Pids
  PROVE  /\ KillState(s, k, used) \in [Pids -> States]
         /\ \A p \in Pids : p # k => KillState(s, k, used)[p] = s[p]
         /\ KillState(s, k, used)[1] = s[1]
         /\ \A p \in Pids : KillState(s, k, used)[p] \in {s[p], "KILLED"}
         /\ Reparent(pp, k, used) \in [Pids -> Pids \union {0, KERNEL_OWNED}]
         /\ \A p \in Pids : Reparent(pp, k, used)[p] \in {pp[p], 1}
  BY OneIsAPid, SMT DEF KillState, Reparent, Killable, updateTaskState

LEMMA NextCore == Core /\ [Next]_pvars => Core'
<1> SUFFICES ASSUME Core, [Next]_pvars PROVE Core'
  OBVIOUS
<1> USE DEF Core, TableOK, OneRunning, ParentsArePids, InitAlive, CallerHasTask
<1>1. CASE OtherSyscall
  BY <1>1, SMT DEF OtherSyscall, EnterKernel
<1>2. CASE sysForkExecRefused
  BY <1>2, SMT DEF sysForkExecRefused, EnterKernel
<1>3. ASSUME NEW n \in Pids, sysForkExecNoPage(n) PROVE Core'
  BY <1>3, SMT DEF sysForkExecNoPage, initializeTask, IsFirst, FreeSlots, EnterKernel,
                   updateTaskState
<1>4. ASSUME NEW n \in Pids, sysForkExecNotElf(n) PROVE Core'
  <2> DEFINE s  == updateTaskState(state, n, "SLEEPING")
             pp == [ppid EXCEPT ![n] = runningPid]
  <2>1. /\ n \notin inUse /\ n # 1 /\ n # runningPid
        /\ inUse' \in SUBSET Pids /\ inUse' = inUse \union {n}
        /\ s \in [Pids -> States] /\ s[n] = "SLEEPING"
        /\ \A p \in Pids \ {n} : s[p] = state[p]
        /\ pp \in [Pids -> Pids \union {0, KERNEL_OWNED}]
        /\ \A p \in inUse' \ {1} : pp[p] \in Pids
    BY <1>4, SMT DEF sysForkExecNotElf, initializeTask, IsFirst, FreeSlots, EnterKernel,
                     updateTaskState
  <2>2. state' = KillState(s, n, inUse') /\ ppid' = Reparent(pp, n, inUse')
    BY <1>4 DEF sysForkExecNotElf
  <2>3. UNCHANGED runningPid /\ cpu' = "kernel" /\ cpu = "user"
    BY <1>4 DEF sysForkExecNotElf, EnterKernel
  <2> HIDE DEF s, pp
  <2>4. /\ state' \in [Pids -> States] /\ ppid' \in [Pids -> Pids \union {0, KERNEL_OWNED}]
        /\ \A p \in Pids \ {n} : state'[p] = state[p]
        /\ state'[n] \in {"SLEEPING", "KILLED"}
        /\ \A p \in Pids : ppid'[p] \in {pp[p], 1}
    BY <2>1, <2>2, KillFacts, SMT
  <2> QED
    BY <2>1, <2>3, <2>4, SMT
<1>5. ASSUME NEW n \in Pids, sysForkExec(n) PROVE Core'
  BY <1>5, SMT DEF sysForkExec, initializeTask, IsFirst, FreeSlots, EnterKernel,
                   updateTaskState
<1>6. CASE sysExit
  BY <1>6, SMT DEF sysExit, EnterKernel, updateTaskState, AfterSwitchTo
<1>7. CASE sysSwitchToParent
  BY <1>7, SMT DEF sysSwitchToParent, EnterKernel, updateTaskState, AfterSwitchTo
<1>8. ASSUME NEW k \in Pids, sysKill(k) PROVE Core'
  <2>1. /\ state' = KillState(state, k, inUse) /\ ppid' = Reparent(ppid, k, inUse)
        /\ cpu = "user" /\ cpu' = "kernel" /\ k # runningPid
        /\ UNCHANGED <<inUse, runningPid>>
    BY <1>8 DEF sysKill, EnterKernel
  <2>2. /\ state' \in [Pids -> States] /\ ppid' \in [Pids -> Pids \union {0, KERNEL_OWNED}]
        /\ \A p \in Pids : state'[p] \in {state[p], "KILLED"}
        /\ \A p \in Pids \ {k} : state'[p] = state[p]
        /\ state'[1] = state[1]
        /\ \A p \in Pids : ppid'[p] \in {ppid[p], 1}
    BY <2>1, KillFacts, SMT
  <2> QED
    BY <2>1, <2>2, SMT
<1>9. ASSUME NEW k \in Pids, sysSwitch(k) PROVE Core'
  BY <1>9, SMT DEF sysSwitch, SwitchTo, EnterKernel, updateTaskState
<1>10. CASE sysFree
  BY <1>10, SMT DEF sysFree, Freed
<1>11. CASE sysToggleScheduler
  BY <1>11, SMT DEF sysToggleScheduler, EnterKernel
<1>12. CASE Resume
  BY <1>12, SMT DEF Resume, SwitchTo, updateTaskState
<1>13. CASE UNCHANGED pvars
  BY <1>13, SMT DEF pvars
<1> QED
  BY <1>1, <1>2, <1>3, <1>4, <1>5, <1>6, <1>7, <1>8, <1>9, <1>10, <1>11, <1>12, <1>13
  DEF Next, Halted

(* IInv is an invariant whichever routines are written.                    *)
THEOREM Invariant == Spec => []IInv
  <1>1. IInv /\ [Next]_pvars => IInv'
  BY NextCore, NextFlags DEF IInv
<1> QED
  BY <1>1, InitIInv, PTL DEF Spec

(* The process table keeps its types: in particular sysExit and            *)
(* sysSwitchToParent always go to a pid, and pid 1 keeps its task.         *)
THEOREM TypeCorrect == Spec => []TypeOK
<1>1. IInv => TypeOK
  BY DEF IInv, Core, TableOK, FlagsOK, TypeOK
<1> QED
  BY <1>1, Invariant, PTL

(* Exactly one task is PROC_RUNNING, and RUNNING_PID_LOC names it,         *)
(* whichever of the assignment routines are written.                       *)
THEOREM RunningIsUnique == Spec => []OneRunning
<1>1. IInv => OneRunning
  BY DEF IInv, Core
<1> QED
  BY <1>1, Invariant, PTL
-----------------------------------------------------------------------------
(* With sysKill written, a task whose registers were never saved is one    *)
(* whose file was not an ELF file: it is dead, and nobody's parent.        *)
HasRegisters(p) == saved[p] = TRUE
RegistersSaved ==
  cpu \in {"user", "kernel"} =>
    /\ cpu = "kernel" => HasRegisters(runningPid)
    /\ \A p \in inUse \ {runningPid} :
         ~HasRegisters(p) => state[p] = "KILLED" /\ \A q \in inUse : ppid[q] # p

LEMMA InitRegisters == Init => RegistersSaved
  BY SMT DEF Init, RegistersSaved, HasRegisters

(* A system call saves the registers of its caller and nobody else's.      *)
LEMMA EnterKernelSaves ==
  ASSUME Core, FlagsOK, EnterKernel
  PROVE  \A p \in Pids : HasRegisters(p)' <=> p = runningPid \/ HasRegisters(p)
  BY SMT DEF EnterKernel, HasRegisters, FlagsOK, Core, TableOK

LEMMA NextRegisters ==
  ASSUME "sysKill" \in Solved, IInv, RegistersSaved, [Next]_pvars, IInv'
  PROVE  RegistersSaved'
<1> USE DEF IInv, Core, TableOK, OneRunning, ParentsArePids, InitAlive, CallerHasTask,
            RegistersSaved
<1>0. EnterKernel => \A p \in Pids : HasRegisters(p)' <=> p = runningPid \/ HasRegisters(p)
  BY EnterKernelSaves
<1>1. CASE OtherSyscall
  BY <1>0, <1>1, SMT DEF OtherSyscall, EnterKernel
<1>2. CASE sysForkExecRefused
  BY <1>0, <1>2, SMT DEF sysForkExecRefused, EnterKernel
<1>3. ASSUME NEW n \in Pids, sysForkExecNoPage(n) PROVE RegistersSaved'
  BY <1>3 DEF sysForkExecNoPage
<1>4. ASSUME NEW n \in Pids, sysForkExecNotElf(n) PROVE RegistersSaved'
  <2>1. /\ n \notin inUse /\ n # 1 /\ n # runningPid /\ EnterKernel /\ cpu = "user"
        /\ inUse' = inUse \union {n} /\ UNCHANGED runningPid /\ cpu' = "kernel"
    BY <1>4, SMT DEF sysForkExecNotElf, initializeTask, IsFirst, FreeSlots, EnterKernel
  <2>2. Killable(n, inUse')
    BY <2>1, SMT DEF Killable
  <2>3. /\ state'[n] = "KILLED"
        /\ \A p \in Pids \ {n} : state'[p] = state[p]
        /\ ppid'[n] = runningPid \/ ppid'[n] = 1
        /\ \A q \in Pids \ {n} : ppid'[q] = ppid[q] \/ ppid'[q] = 1
        /\ \A q \in inUse' : ppid'[q] # n
    BY <1>4, <2>1, <2>2, SMT DEF sysForkExecNotElf, KillState, Reparent, updateTaskState
  <2>4. HasRegisters(1)' /\ HasRegisters(runningPid)'
    BY <1>0, <2>1, SMT
  <2>5. ASSUME NEW p \in inUse' \ {runningPid'}, ~HasRegisters(p)'
        PROVE  state'[p] = "KILLED" /\ \A q \in inUse' : ppid'[q] # p
    <3>1. CASE p = n
      BY <3>1, <2>3
    <3>2. CASE p # n
      BY <1>0, <2>1, <2>3, <2>4, <2>5, <3>2, SMT
    <3> QED
      BY <3>1, <3>2
  <2> QED
    BY <2>1, <2>4, <2>5
<1>5. ASSUME NEW n \in Pids, sysForkExec(n) PROVE RegistersSaved'
  BY <1>0, <1>5, SMT DEF sysForkExec, initializeTask, IsFirst, FreeSlots, EnterKernel,
                         updateTaskState
<1>6. CASE sysExit
  BY <1>0, <1>6, SMT DEF sysExit, EnterKernel, updateTaskState, AfterSwitchTo
<1>7. CASE sysSwitchToParent
  BY <1>0, <1>7, SMT DEF sysSwitchToParent, EnterKernel, updateTaskState, AfterSwitchTo
<1>8. ASSUME NEW k \in Pids, sysKill(k) PROVE RegistersSaved'
  <2>1. /\ EnterKernel /\ cpu = "user" /\ k # runningPid
        /\ UNCHANGED <<inUse, runningPid>> /\ cpu' = "kernel"
    BY <1>8 DEF sysKill, EnterKernel
  <2>2. /\ \A p \in Pids : state'[p] = state[p] \/ state'[p] = "KILLED"
        /\ \A q \in Pids : ppid'[q] = ppid[q] \/ ppid'[q] = 1
    BY <1>8, SMT DEF sysKill, KillState, Reparent, updateTaskState
  <2> QED
    BY <1>0, <2>1, <2>2, SMT
<1>9. ASSUME NEW k \in Pids, sysSwitch(k) PROVE RegistersSaved'
  BY <1>0, <1>9, SMT DEF sysSwitch, SwitchTo, EnterKernel, updateTaskState
<1>10. CASE sysFree
  <2>1. \A p \in Pids : HasRegisters(p)' <=> p = runningPid \/ (p \notin Freed /\ HasRegisters(p))
    <3> SUFFICES ASSUME NEW p \in Pids
                 PROVE  HasRegisters(p)' <=> p = runningPid \/ (p \notin Freed /\ HasRegisters(p))
      OBVIOUS
    <3>1. saved'[p] = (p = runningPid \/ (p \notin Freed /\ saved[p]))
      BY <1>10 DEF sysFree
    <3>2. saved[p] \in BOOLEAN
      BY DEF FlagsOK
    <3> QED
      BY <3>1, <3>2, Zenon DEF HasRegisters
  <2> QED
    BY <1>10, <2>1, SMT DEF sysFree, Freed
<1>11. CASE sysToggleScheduler
  BY <1>0, <1>11, SMT DEF sysToggleScheduler, EnterKernel
<1>12. CASE Resume
  <2>1. \A p \in Pids : HasRegisters(p)' <=> HasRegisters(p)
    BY <1>12 DEF Resume, HasRegisters
  <2> QED
    BY <1>12, <2>1, SMT DEF Resume, SwitchTo, updateTaskState
<1>13. CASE UNCHANGED pvars
  <2>1. \A p \in Pids : HasRegisters(p)' <=> HasRegisters(p)
    BY <1>13 DEF pvars, HasRegisters
  <2> QED
    BY <1>13, <2>1, SMT DEF pvars
<1> QED
  BY <1>1, <1>2, <1>3, <1>4, <1>5, <1>6, <1>7, <1>8, <1>9, <1>10, <1>11, <1>12, <1>13
  DEF Next, Halted

-----------------------------------------------------------------------------
(* Without sysSwitch and scheduler, the CPU goes down to a child and up to *)
(* a parent only.  The processes that wait for the running one then form a *)
(* stack s of m pids: pid 1 at the bottom, the running process on top, and *)
(* below it each process the parent of the one above it, asleep, with its  *)
(* registers saved.  A kill takes one pid out of the stack and everything  *)
(* between it and pid 1.                                                   *)
Stack(m, s) ==
  /\ s \in [1 .. m -> inUse]
  /\ s[1] = 1 /\ s[m] = runningPid
  /\ \A i, j \in 1 .. m : s[i] = s[j] => i = j
  /\ \A i \in 1 .. (m - 1) :
       ppid[s[i + 1]] = s[i] /\ state[s[i]] = "SLEEPING" /\ HasRegisters(s[i])

SInv ==
  /\ cpu # "fault"
  /\ \A p \in Pids \ inUse : state[p] = "NONE"
  /\ \E m \in Nat \ {0} : \E s \in [1 .. m -> inUse] : Stack(m, s)

LEMMA InitSInv == Init => SInv
<1> SUFFICES ASSUME Init PROVE SInv
  OBVIOUS
<1> DEFINE s == [i \in 1 .. 1 |-> 1]
<1>1. s \in [1 .. 1 -> inUse] /\ Stack(1, s)
  BY SMT DEF Init, Stack
<1>2. cpu # "fault" /\ \A p \in Pids \ inUse : state[p] = "NONE"
  BY SMT DEF Init
<1>3. 1 \in Nat \ {0}
  BY SMT
<1> HIDE DEF s
<1> QED
  BY <1>1, <1>2, <1>3, Zenon DEF SInv

(* The top of the stack: what sysExit and sysSwitchToParent rely on.       *)
LEMMA StackParentReady ==
  ASSUME IInv, SInv
  PROVE  ParentReady
<1>1. PICK m \in Nat \ {0} : \E s \in [1 .. m -> inUse] : Stack(m, s)
  BY DEF SInv
<1>2. PICK s \in [1 .. m -> inUse] : Stack(m, s)
  BY <1>1
<1>3. SUFFICES ASSUME runningPid # 1
               PROVE  LET parent == ppid[runningPid]
                      IN  parent \in inUse /\ state[parent] = "SLEEPING" /\ saved[parent] = TRUE
  BY DEF ParentReady
<1>4. m - 1 \in 1 .. (m - 1) /\ (m - 1) + 1 = m
  BY <1>1, <1>2, <1>3, SMT DEF Stack
<1>5. ppid[s[m]] = s[m - 1] /\ state[s[m - 1]] = "SLEEPING" /\ HasRegisters(s[m - 1])
  BY <1>2, <1>4, SMT DEF Stack
<1> QED
  BY <1>2, <1>4, <1>5, SMT DEF Stack, HasRegisters

(* A step that leaves the waiting processes as they are keeps the stack.   *)
LEMMA StackKept ==
  ASSUME NEW m \in Nat \ {0}, NEW s \in [1 .. m -> inUse], Stack(m, s),
         \A i \in 1 .. m : s[i] \in inUse',
         runningPid' = runningPid,
         \A i \in 1 .. m : s[i] # 1 => ppid'[s[i]] = ppid[s[i]],
         \A i \in 1 .. (m - 1) : state'[s[i]] = state[s[i]],
         \A i \in 1 .. (m - 1) : HasRegisters(s[i]) => HasRegisters(s[i])'
  PROVE  \E t \in [1 .. m -> inUse'] : Stack(m, t)'
<1>1. s \in [1 .. m -> inUse']
  BY SMT
<1>2. ASSUME NEW i \in 1 .. (m - 1)
      PROVE  ppid'[s[i + 1]] = s[i] /\ state'[s[i]] = "SLEEPING" /\ HasRegisters(s[i])'
  <2>1. i \in 1 .. m /\ i + 1 \in 1 .. m /\ 1 \in 1 .. m
    BY SMT
  <2>2. s[i + 1] # 1
    BY <2>1, SMT DEF Stack
  <2> QED
    BY <2>1, <2>2 DEF Stack
<1>3. Stack(m, s)'
  BY <1>1, <1>2, SMT DEF Stack
<1> QED
  BY <1>1, <1>3

(* A new process goes on top of the stack.                                 *)
LEMMA StackPushed ==
  ASSUME NEW m \in Nat \ {0}, NEW s \in [1 .. m -> inUse], Stack(m, s),
         NEW n, n \notin inUse, inUse' = inUse \union {n}, runningPid' = n,
         ppid'[n] = runningPid,
         \A p \in inUse : ppid'[p] = ppid[p],
         \A p \in inUse \ {runningPid} : state'[p] = state[p],
         state'[runningPid] = "SLEEPING",
         saved'[runningPid] = TRUE,
         \A p \in inUse : HasRegisters(p) => HasRegisters(p)'
  PROVE  \E t \in [1 .. (m + 1) -> inUse'] : Stack(m + 1, t)'
<1>0. PICK t : t = [i \in 1 .. (m + 1) |-> IF i = m + 1 THEN n ELSE s[i]]
  OBVIOUS
<1>1. t \in [1 .. (m + 1) -> inUse'] /\ t[m + 1] = n /\ t[1] = 1
      /\ \A i \in 1 .. m : t[i] = s[i]
  BY <1>0, SMT DEF Stack
<1>2. \A i, j \in 1 .. (m + 1) : t[i] = t[j] => i = j
  BY <1>0, SMT DEF Stack
<1>3. ASSUME NEW i \in 1 .. m
      PROVE  ppid'[t[i + 1]] = t[i] /\ state'[t[i]] = "SLEEPING" /\ HasRegisters(t[i])'
  <2>1. CASE i = m
    <3>1. t[i + 1] = n /\ t[i] = runningPid
      BY <1>1, <2>1, SMT DEF Stack
    <3> QED
      BY <3>1 DEF HasRegisters
  <2>2. CASE i # m
    <3>1. i \in 1 .. (m - 1) /\ i + 1 \in 1 .. m /\ m \in 1 .. m /\ s[i] # runningPid
      BY <2>2, SMT DEF Stack
    <3> QED
      BY <3>1, <1>1, SMT DEF Stack
  <2> QED
    BY <2>1, <2>2
<1>4. m + 1 \in Nat \ {0} /\ (m + 1) - 1 = m
  BY SMT
<1>5. Stack(m + 1, t)'
  BY <1>1, <1>2, <1>3, <1>4 DEF Stack
<1> QED
  BY <1>1, <1>5

(* When the running process leaves, its parent is the top of the stack.    *)
LEMMA StackPopped ==
  ASSUME NEW m \in Nat \ {0}, NEW s \in [1 .. m -> inUse], Stack(m, s), runningPid # 1,
         inUse' = inUse, runningPid' = ppid[runningPid], ppid' = ppid,
         \A p \in inUse \ {runningPid, runningPid'} : state'[p] = state[p],
         \A p \in inUse : HasRegisters(p) => HasRegisters(p)'
  PROVE  m - 1 \in Nat \ {0} /\ \E t \in [1 .. (m - 1) -> inUse'] : Stack(m - 1, t)'
<1>0. PICK k, t : k = m - 1 /\ t = [i \in 1 .. k |-> s[i]]
  OBVIOUS
<1>1. k \in Nat \ {0} /\ k + 1 = m
  BY <1>0, SMT DEF Stack
<1>2. runningPid' = s[k] /\ \A i \in 1 .. k : t[i] = s[i]
  BY <1>0, <1>1, SMT DEF Stack
<1>3. t \in [1 .. k -> inUse'] /\ t[1] = 1 /\ t[k] = runningPid'
  BY <1>0, <1>1, <1>2, SMT DEF Stack
<1>4. \A i, j \in 1 .. k : t[i] = t[j] => i = j
  BY <1>1, <1>2, SMT DEF Stack
<1>5. ASSUME NEW i \in 1 .. (k - 1)
      PROVE  ppid'[t[i + 1]] = t[i] /\ state'[t[i]] = "SLEEPING" /\ HasRegisters(t[i])'
  <2>1. i \in 1 .. k /\ i + 1 \in 1 .. k /\ i \in 1 .. (m - 1)
    BY <1>1, SMT
  <2>2. s[i] # s[k] /\ s[i] # s[m] /\ s[i] \in inUse
    BY <1>1, <2>1, SMT DEF Stack
  <2> QED
    BY <1>2, <2>1, <2>2, SMT DEF Stack
<1>6. Stack(k, t)'
  BY <1>3, <1>4, <1>5 DEF Stack
<1>7. k \in Nat \ {0} /\ \E u \in [1 .. k -> inUse'] : Stack(k, u)'
  BY <1>1, <1>3, <1>6
<1> QED
  BY <1>0, <1>7

(* Killing a waiting process: pid 1 adopts the process above it.           *)
LEMMA StackCut ==
  ASSUME IInv,
         NEW m \in Nat \ {0}, NEW s \in [1 .. m -> inUse], Stack(m, s),
         NEW k \in 2 .. (m - 1),
         inUse' = inUse, runningPid' = runningPid,
         \A p \in inUse : ppid'[p] = IF ppid[p] = s[k] THEN 1 ELSE ppid[p],
         \A p \in inUse \ {s[k]} : state'[p] = state[p],
         \A p \in inUse : HasRegisters(p) => HasRegisters(p)'
  PROVE  (m - k) + 1 \in Nat \ {0} /\ \E t \in [1 .. ((m - k) + 1) -> inUse'] : Stack((m - k) + 1, t)'
<1>0. PICK l, t : l = (m - k) + 1 /\ t = [i \in 1 .. l |-> IF i = 1 THEN 1 ELSE s[(i + k) - 1]]
  OBVIOUS
<1>1. l \in Nat \ {0} /\ l > 1 /\ (l + k) - 1 = m /\ l = (m - k) + 1
  BY <1>0, SMT
<1>2. \A i \in 2 .. l : (i + k) - 1 \in (k + 1) .. m /\ t[i] = s[(i + k) - 1]
  BY <1>0, <1>1, SMT
<1>3. t \in [1 .. l -> inUse'] /\ t[1] = 1 /\ t[l] = runningPid'
  BY <1>0, <1>1, <1>2, SMT DEF Stack, IInv, Core, TableOK
<1>4. ASSUME NEW i \in 1 .. l, NEW j \in 1 .. l, t[i] = t[j]
      PROVE  i = j
  <2>1. \A h \in 2 .. l : t[h] # 1
    BY <1>2, SMT DEF Stack
  <2>2. CASE i = 1 \/ j = 1
    <3>1. \A h \in 1 .. l : h # 1 => h \in 2 .. l
      BY <1>1, SMT
    <3> QED
      BY <1>3, <1>4, <2>1, <2>2, <3>1
  <2>3. CASE i # 1 /\ j # 1
    BY <1>2, <1>4, <2>3, SMT DEF Stack
  <2> QED
    BY <2>2, <2>3
<1>5. ASSUME NEW i \in 1 .. (l - 1)
      PROVE  ppid'[t[i + 1]] = t[i] /\ state'[t[i]] = "SLEEPING" /\ HasRegisters(t[i])'
  <2>0. PICK h : h = i + k
    OBVIOUS
  <2>1. h \in (k + 1) .. m /\ t[i + 1] = s[h] /\ s[h] \in inUse /\ ppid[s[h]] = s[h - 1]
    <3>1. /\ i + 1 \in 2 .. l /\ ((i + 1) + k) - 1 = h /\ h \in (k + 1) .. m
          /\ h - 1 \in 1 .. (m - 1) /\ (h - 1) + 1 = h /\ h \in 1 .. m
      BY <1>1, <2>0, SMT
    <3>2. ppid[s[(h - 1) + 1]] = s[h - 1]
      BY <3>1 DEF Stack
    <3> QED
      BY <1>2, <3>1, <3>2
  <2>2. CASE i = 1
    <3>1. ppid'[t[i + 1]] = 1
      BY <2>0, <2>1, <2>2, SMT
    <3>2. 1 \in 1 .. (m - 1) /\ s[1] = 1 /\ s[k] # 1
      BY SMT DEF Stack
    <3>3. state[1] = "SLEEPING" /\ HasRegisters(1) /\ 1 \in inUse
      BY <3>2, SMT DEF Stack, IInv, Core, TableOK
    <3> QED
      BY <1>3, <2>2, <3>1, <3>2, <3>3, SMT
  <2>3. CASE i # 1
    <3>1. h - 1 \in (k + 1) .. (m - 1) /\ t[i] = s[h - 1]
      BY <1>1, <1>2, <2>0, <2>3, SMT
    <3>2. s[h - 1] # s[k] /\ s[h - 1] \in inUse /\ state[s[h - 1]] = "SLEEPING"
          /\ HasRegisters(s[h - 1])
      BY <3>1, SMT DEF Stack
    <3> QED
      BY <2>1, <3>1, <3>2, SMT
  <2> QED
    BY <2>2, <2>3
<1>6. Stack(l, t)'
  BY <1>3, <1>4, <1>5 DEF Stack
<1>7. l \in Nat \ {0} /\ \E u \in [1 .. l -> inUse'] : Stack(l, u)'
  BY <1>1, <1>3, <1>6
<1> QED
  BY <1>0, <1>7
NoSwitch == Solved \intersect {"sysSwitch", "scheduler"} = {}

LEMMA NextSInv ==
  ASSUME NoSwitch, IInv, SInv, [Next]_pvars, IInv'
  PROVE  SInv'
<1> USE DEF IInv, Core, TableOK, OneRunning, ParentsArePids, InitAlive, CallerHasTask
<1>1. PICK m \in Nat \ {0} : \E s \in [1 .. m -> inUse] : Stack(m, s)
  BY DEF SInv
<1>2. PICK s \in [1 .. m -> inUse] : Stack(m, s)
  BY <1>1
<1>3. /\ cpu # "fault"
      /\ \A p \in Pids \ inUse : state[p] = "NONE"
      /\ \A i \in 1 .. m : s[i] \in inUse /\ s[i] \in Pids
      /\ \A i \in 1 .. (m - 1) : s[i] # runningPid /\ state[s[i]] = "SLEEPING"
  BY <1>2, SMT DEF SInv, Stack
<1>4. EnterKernel => \A p \in Pids : HasRegisters(p)' <=> p = runningPid \/ HasRegisters(p)
  BY EnterKernelSaves
<1>5. ParentReady
  BY StackParentReady
(* It is enough to find the next stack.                                    *)
<1>6. ASSUME NEW l \in Nat \ {0}, \E t \in [1 .. l -> inUse'] : Stack(l, t)',
             cpu' # "fault", \A p \in Pids \ inUse' : state'[p] = "NONE"
      PROVE  SInv'
  BY <1>6 DEF SInv
<1>7. ASSUME UNCHANGED <<inUse, runningPid>>, cpu' # "fault",
             \A p \in Pids : state'[p] = state[p] /\ ppid'[p] = ppid[p],
             \A p \in Pids : HasRegisters(p) => HasRegisters(p)'
      PROVE  SInv'
  <2>1. \E t \in [1 .. m -> inUse'] : Stack(m, t)'
    BY <1>2, <1>3, <1>7, StackKept
  <2> QED
    BY <1>3, <1>6, <1>7, <2>1
<1>8. CASE OtherSyscall
  BY <1>4, <1>7, <1>8, SMT DEF OtherSyscall, EnterKernel
<1>9. CASE sysForkExecRefused
  BY <1>4, <1>7, <1>9, SMT DEF sysForkExecRefused, EnterKernel
<1>10. ASSUME NEW n \in Pids, sysForkExecNoPage(n) \/ sysForkExecNotElf(n) PROVE SInv'
  <2>1. /\ n \notin inUse /\ inUse' = inUse \union {n} /\ EnterKernel
        /\ UNCHANGED runningPid /\ cpu' \in {"kernel", "panic"}
    BY <1>10, SMT DEF sysForkExecNoPage, sysForkExecNotElf, initializeTask, IsFirst, FreeSlots,
                      EnterKernel
  <2>2. \A p \in Pids \ {n} : state'[p] = state[p]
    BY <1>10, SMT DEF sysForkExecNoPage, sysForkExecNotElf, KillState, updateTaskState
  <2>3. \A i \in 1 .. m : s[i] # 1 => ppid'[s[i]] = ppid[s[i]]
    <3>1. \A i \in 1 .. m : s[i] # 1 => s[i] \in inUse /\ s[i] # n /\ ppid[s[i]] # n
      <4> SUFFICES ASSUME NEW i \in 1 .. m, s[i] # 1 PROVE ppid[s[i]] # n
        BY <1>3, <2>1
      <4>1. i - 1 \in 1 .. (m - 1) /\ i - 1 \in 1 .. m /\ (i - 1) + 1 = i
        BY <1>2, SMT DEF Stack
      <4>2. ppid[s[(i - 1) + 1]] = s[i - 1]
        BY <1>2, <4>1 DEF Stack
      <4> QED
        BY <1>3, <2>1, <4>1, <4>2
    <3>2. \A p \in Pids \ {n} : ppid[p] # n => ppid'[p] = ppid[p]
      BY <1>10, SMT DEF sysForkExecNoPage, sysForkExecNotElf, Reparent
    <3> QED
      BY <1>3, <3>1, <3>2
  <2>4. \E t \in [1 .. m -> inUse'] : Stack(m, t)'
    BY <1>2, <1>3, <1>4, <2>1, <2>2, <2>3, StackKept, SMT
  <2> QED
    BY <1>3, <1>6, <2>1, <2>2, <2>4, SMT
<1>11. ASSUME NEW n \in Pids, sysForkExec(n) PROVE SInv'
  <2>1. /\ n \notin inUse /\ inUse' = inUse \union {n} /\ EnterKernel
        /\ runningPid' = n /\ cpu' = "user" /\ ppid'[n] = runningPid
        /\ \A p \in Pids \ {n} : ppid'[p] = ppid[p]
        /\ \A p \in Pids \ {n, runningPid} : state'[p] = state[p]
        /\ runningPid \in inUse /\ state'[runningPid] = "SLEEPING"
    BY <1>11, SMT DEF sysForkExec, initializeTask, IsFirst, FreeSlots, EnterKernel,
                      updateTaskState
  <2>2. saved'[runningPid] = TRUE
    BY <2>1, SMT DEF EnterKernel, FlagsOK
  <2>3. m + 1 \in Nat \ {0} /\ \E t \in [1 .. (m + 1) -> inUse'] : Stack(m + 1, t)'
    <3>1. \A p \in inUse : p \in Pids \ {n}
      BY <2>1
    <3>2. \A p \in inUse : HasRegisters(p) => HasRegisters(p)'
      BY <1>4, <2>1, <3>1
    <3>3. /\ \A p \in inUse : ppid'[p] = ppid[p]
          /\ \A p \in inUse \ {runningPid} : state'[p] = state[p]
      BY <2>1, <3>1
    <3>4. \E t \in [1 .. (m + 1) -> inUse'] : Stack(m + 1, t)'
      BY <1>2, <2>1, <2>2, <3>2, <3>3, StackPushed
    <3> QED
      BY <3>4, SMT
  <2> QED
    BY <1>3, <1>6, <2>1, <2>3, SMT
<1>12. CASE sysExit \/ sysSwitchToParent
  <2>1. /\ EnterKernel /\ runningPid # 1 /\ UNCHANGED <<inUse, ppid>>
        /\ runningPid' = ppid[runningPid] /\ cpu' = AfterSwitchTo(ppid[runningPid])
        /\ \A p \in Pids \ {runningPid, runningPid'} : state'[p] = state[p]
    BY <1>12, SMT DEF sysExit, sysSwitchToParent, updateTaskState, EnterKernel
  <2>2. runningPid' \in inUse /\ cpu' = "kernel" /\ runningPid \in inUse
    BY <1>5, <2>1, SMT DEF ParentReady, AfterSwitchTo, EnterKernel
  <2>3. m - 1 \in Nat \ {0} /\ \E t \in [1 .. (m - 1) -> inUse'] : Stack(m - 1, t)'
    BY <1>2, <1>4, <2>1, <2>2, StackPopped
  <2> QED
    BY <1>3, <1>6, <2>1, <2>2, <2>3, SMTT(40)
<1>13. ASSUME NEW k \in Pids, sysKill(k) PROVE SInv'
  <2>1. /\ EnterKernel /\ k # runningPid /\ UNCHANGED <<inUse, runningPid>> /\ cpu' = "kernel"
        /\ \A p \in Pids \ {k} : state'[p] = state[p]
        /\ \A p \in Pids \ inUse : state'[p] = state[p]
    BY <1>13, SMT DEF sysKill, EnterKernel, KillState, Killable, updateTaskState
  <2>2. CASE Killable(k, inUse)
    <3>1. \A p \in inUse : ppid'[p] = IF ppid[p] = k THEN 1 ELSE ppid[p]
      BY <1>13, <2>2, SMT DEF sysKill, Reparent
    <3>2. \A p \in inUse : HasRegisters(p) => HasRegisters(p)'
      BY <1>4, <2>1
    <3>3. CASE \E j \in 1 .. m : s[j] = k
      <4>1. PICK j \in 1 .. m : s[j] = k
        BY <3>3
      <4>2. j \in 2 .. (m - 1)
        BY <1>2, <2>1, <2>2, <4>1, SMT DEF Stack, Killable
      <4>3. /\ (m - j) + 1 \in Nat \ {0}
            /\ \E t \in [1 .. ((m - j) + 1) -> inUse'] : Stack((m - j) + 1, t)'
        BY <1>2, <2>1, <3>1, <3>2, <4>1, <4>2, StackCut
      <4> QED
        BY <1>3, <1>6, <2>1, <4>3, SMT
    <3>4. CASE ~ \E j \in 1 .. m : s[j] = k
      <4>1. \A i \in 1 .. m : s[i] # 1 => ppid[s[i]] # k
        <5> SUFFICES ASSUME NEW i \in 1 .. m, s[i] # 1 PROVE ppid[s[i]] # k
          OBVIOUS
        <5>1. i - 1 \in 1 .. (m - 1) /\ i - 1 \in 1 .. m /\ (i - 1) + 1 = i
          BY <1>2, SMT DEF Stack
        <5>2. ppid[s[(i - 1) + 1]] = s[i - 1]
          BY <1>2, <5>1 DEF Stack
        <5> QED
          BY <3>4, <5>1, <5>2
      <4>2. \A i \in 1 .. m : s[i] # 1 => ppid'[s[i]] = ppid[s[i]]
        BY <1>3, <3>1, <4>1
      <4>3. \A i \in 1 .. (m - 1) : i \in 1 .. m
        BY SMT
      <4>4. \E t \in [1 .. m -> inUse'] : Stack(m, t)'
        BY <1>2, <1>3, <2>1, <3>2, <3>4, <4>2, <4>3, StackKept
      <4> QED
        BY <1>3, <1>6, <2>1, <4>4, SMT
    <3> QED
      BY <3>3, <3>4
  <2>3. CASE ~Killable(k, inUse)
    BY <1>4, <1>7, <1>13, <2>1, <2>3, SMT DEF sysKill, KillState, Reparent
  <2> QED
    BY <2>2, <2>3
<1>14. CASE sysFree
  <2>1. /\ UNCHANGED runningPid /\ cpu' = "kernel" /\ inUse' = inUse \ Freed
        /\ \A p \in Pids \ Freed : state'[p] = state[p] /\ ppid'[p] = ppid[p]
        /\ \A p \in Freed : p \in Pids /\ state'[p] = "NONE" /\ p # runningPid
    BY <1>14, SMT DEF sysFree, Freed
  <2>2. \A p \in Pids : p \notin Freed /\ HasRegisters(p) => HasRegisters(p)'
    <3> SUFFICES ASSUME NEW p \in Pids, p \notin Freed, saved[p] = TRUE
                 PROVE  saved'[p] = TRUE
      BY DEF HasRegisters
    <3>1. saved'[p] = (p = runningPid \/ (p \notin Freed /\ saved[p]))
      BY <1>14 DEF sysFree
    <3> QED
      BY <3>1
  <2>3. \A i \in 1 .. m : s[i] \notin Freed
    <3> SUFFICES ASSUME NEW i \in 1 .. m PROVE state[s[i]] \notin Dead
      BY DEF Freed
    <3>1. CASE i = m
      BY <1>2, <3>1, SMT DEF Stack
    <3>2. CASE i # m
      BY <1>3, <3>2, SMT
    <3> QED
      BY <3>1, <3>2
  <2>4. \A i \in 1 .. (m - 1) : i \in 1 .. m
    BY SMT
  <2>5. \E t \in [1 .. m -> inUse'] : Stack(m, t)'
    BY <1>2, <1>3, <2>1, <2>2, <2>3, <2>4, StackKept
  <2>6. \A p \in Pids \ inUse' : state'[p] = "NONE"
    BY <1>3, <2>1
  <2> QED
    BY <1>6, <2>1, <2>5, <2>6, SMT
<1>15. CASE sysToggleScheduler
  BY <1>4, <1>7, <1>15, SMT DEF sysToggleScheduler, EnterKernel
<1>16. CASE Resume
  BY <1>7, <1>16, Zenon DEF Resume, NoSwitch, HasRegisters
<1>17. CASE UNCHANGED pvars
  BY <1>3, <1>7, <1>17, Zenon DEF pvars, HasRegisters
<1>18. ~ \E k \in Pids : sysSwitch(k)
  BY DEF sysSwitch, NoSwitch
<1> QED
  BY <1>8, <1>9, <1>10, <1>11, <1>12, <1>13, <1>14, <1>15, <1>16, <1>17, <1>18
  DEF Next, Halted

LEMMA StackInvariant ==
  ASSUME NoSwitch
  PROVE  Spec => [](IInv /\ SInv)
<1>1. IInv /\ SInv /\ [Next]_pvars /\ IInv' => SInv'
  BY NextSInv
<1> QED
  BY <1>1, InitSInv, Invariant, PTL DEF Spec

(* As long as the CPU moves only between a parent and its child, whatever  *)
(* is killed and freed in between, the parent that an exit or a switch to  *)
(* the parent resumes is asleep, has its registers and has its pages.      *)
THEOREM ParentAlwaysReady ==
  ASSUME NoSwitch
  PROVE  Spec => []ParentReady
<1>1. IInv /\ SInv => ParentReady
  BY StackParentReady
<1> QED
  BY <1>1, StackInvariant, PTL

(* ... so the CPU is never left without a page directory.                  *)
THEOREM CpuNeverFaults ==
  ASSUME NoSwitch
  PROVE  Spec => []NeverFault
<1>1. IInv /\ SInv => NeverFault
  BY DEF SInv, NeverFault
<1> QED
  BY <1>1, StackInvariant, PTL

LEMMA DeadStep ==
  ASSUME NoSwitch, IInv, SInv, Next, NEW p \in Pids, state[p] \in Dead
  PROVE  state'[p] \in Dead \union {"NONE"}
<1> USE DEF IInv, Core, TableOK, OneRunning, CallerHasTask
<1>1. p # runningPid /\ p \in inUse
  BY SMT DEF SInv
<1>2. CASE sysExit \/ sysSwitchToParent
  <2>1. state[ppid[runningPid]] = "SLEEPING"
    BY <1>2, StackParentReady DEF ParentReady, sysExit, sysSwitchToParent
  <2> QED
    BY <1>1, <1>2, <2>1, SMT DEF sysExit, sysSwitchToParent, updateTaskState
<1>3. ASSUME NEW n \in Pids,
             sysForkExecNoPage(n) \/ sysForkExecNotElf(n) \/ sysForkExec(n) \/ sysKill(n)
      PROVE  state'[p] = state[p] \/ state'[p] = "KILLED"
  BY <1>1, <1>3, SMT DEF sysForkExecNoPage, sysForkExecNotElf, sysForkExec, initializeTask,
     IsFirst, FreeSlots, EnterKernel, sysKill, KillState, updateTaskState
<1>4. CASE sysFree
  BY <1>4, SMT DEF sysFree, Freed
<1>5. CASE OtherSyscall \/ sysForkExecRefused \/ sysToggleScheduler \/ Resume \/ Halted
  BY <1>5 DEF OtherSyscall, sysForkExecRefused, sysToggleScheduler, Resume, Halted, pvars,
              NoSwitch
<1>6. ~ \E k \in Pids : sysSwitch(k)
  BY DEF sysSwitch, NoSwitch
<1> QED
  BY <1>2, <1>3, <1>4, <1>5, <1>6 DEF Next

(* ... and no task that was ended comes back.                              *)
THEOREM TheDeadStayDead ==
  ASSUME NoSwitch
  PROVE  Spec => DeadStayDead
<1>1. IInv /\ SInv /\ [Next]_pvars
        => [\A p \in Pids : state[p] \in Dead => state'[p] \in Dead \union {"NONE"}]_pvars
  BY DeadStep
<1> QED
  BY <1>1, StackInvariant, PTL DEF Spec, DeadStayDead

(* Without sysKill a task whose file was not an ELF file stays asleep with *)
(* no registers; it is never on the stack.                                 *)
CallerSaved == cpu = "kernel" => HasRegisters(runningPid)

LEMMA NextCallerSaved ==
  ASSUME NoSwitch, IInv, SInv, CallerSaved, [Next]_pvars
  PROVE  CallerSaved'
<1> USE DEF IInv, Core, TableOK
<1>1. EnterKernel => \A p \in Pids : HasRegisters(p)' <=> p = runningPid \/ HasRegisters(p)
  BY EnterKernelSaves
<1>2. CASE /\ EnterKernel
           /\ \/ runningPid' = runningPid
              \/ runningPid # 1 /\ runningPid' = ppid[runningPid]
  <2>1. runningPid' = runningPid \/ (runningPid' \in Pids /\ saved[runningPid'] = TRUE)
    <3>1. runningPid # 1 => ppid[runningPid] \in Pids /\ saved[ppid[runningPid]]
      BY StackParentReady DEF ParentReady
    <3>2. \A p \in Pids : saved[p] \in BOOLEAN
      BY DEF FlagsOK
    <3> QED
      BY <1>2, <3>1, <3>2
  <2>2. saved'[runningPid'] = TRUE
    BY <1>1, <1>2, <2>1 DEF HasRegisters
  <2> QED
    BY <2>2 DEF CallerSaved, HasRegisters
<1>3. CASE sysFree
  BY <1>3, Zenon DEF sysFree, CallerSaved, HasRegisters
<1>4. CASE cpu' = "user" \/ UNCHANGED pvars
  BY <1>4 DEF CallerSaved, HasRegisters, pvars
<1> QED
  BY <1>2, <1>3, <1>4 DEF Next, OtherSyscall, sysForkExecRefused, sysForkExecNoPage,
     sysForkExecNotElf, sysForkExec, sysExit, sysSwitchToParent, sysKill, sysSwitch,
     sysToggleScheduler, Resume, Halted, NoSwitch

LEMMA OnlyResumeLeavesKernel ==
  ASSUME Next, cpu = "kernel"
  PROVE  Resume
BY DEF Next, OtherSyscall, sysForkExecRefused, sysForkExecNoPage, sysForkExecNotElf,
       sysForkExec, sysExit, sysSwitchToParent, sysKill, sysSwitch, sysToggleScheduler,
       sysFree, Halted, EnterKernel

(* The task that the end of syscallHandler resumes has registers to load:  *)
(* in the kernel as shipped, and, once sysKill is written, whatever        *)
(* sysSwitch and the scheduler choose.                                     *)
THEOREM RegistersRestored ==
  ASSUME "sysKill" \in Solved \/ NoSwitch
  PROVE  Spec => ResumedHasRegisters
<1>1. CASE "sysKill" \in Solved
  <2>1. IInv /\ RegistersSaved /\ [Next]_pvars /\ IInv' => RegistersSaved'
    BY <1>1, NextRegisters
  <2>2. IInv /\ RegistersSaved /\ [Next]_pvars
          => [cpu = "kernel" /\ cpu' = "user" => saved[runningPid']]_pvars
    <3> SUFFICES ASSUME IInv, RegistersSaved, Next, cpu = "kernel", cpu' = "user"
                 PROVE  saved[runningPid'] = TRUE
      OBVIOUS
    <3>1. Resume
      BY OnlyResumeLeavesKernel
    <3> QED
      BY <3>1, SMT DEF Resume, SwitchTo, updateTaskState, RegistersSaved, HasRegisters,
                       IInv, Core, TableOK
  <2> QED
    BY <2>1, <2>2, InitRegisters, Invariant, PTL DEF Spec, ResumedHasRegisters
<1>2. CASE NoSwitch
  <2>1. IInv /\ SInv /\ CallerSaved /\ [Next]_pvars => CallerSaved'
    BY <1>2, NextCallerSaved
  <2>2. Init => CallerSaved
    BY DEF Init, CallerSaved
  <2>3. CallerSaved /\ [Next]_pvars
          => [cpu = "kernel" /\ cpu' = "user" => saved[runningPid']]_pvars
    <3> SUFFICES ASSUME CallerSaved, Next, cpu = "kernel", cpu' = "user"
                 PROVE  saved[runningPid'] = TRUE
      OBVIOUS
    <3>1. Resume
      BY OnlyResumeLeavesKernel
    <3> QED
      BY <1>2, <3>1 DEF Resume, NoSwitch, CallerSaved, HasRegisters
  <2>4. Spec => [](IInv /\ SInv)
    BY <1>2, StackInvariant
  <2> QED
    BY <2>1, <2>2, <2>3, <2>4, PTL DEF Spec, ResumedHasRegisters
<1> QED
  BY <1>1, <1>2
=============================================================================
