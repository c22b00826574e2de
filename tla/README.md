# SimpleOS v4: a TLA+ model

SimpleOS is a small 32-bit x86 operating system written for a course: a boot
loader, a kernel with processes, system calls, an ext2 file system and a table
of open files, and a shell, an editor and a C library in user space. Paths below
are relative to `src/SimpleOSv4-1-Bootloader-Base/`; the two other directories
of the repository hold variants of `kernel.cpp` and `bootloader-stage2.cpp`.

The repository is the *base* code of the course: some routines have an empty
body, marked `ASSIGNMENT n TO DO`. Five of them decide how processes and files
behave (`sysClose`, `sysKill`, `sysFree`, `sysSwitch`, `scheduler`). The constant
`Solved` is the set of those that have been written. A routine outside `Solved`
is the empty body of the repository; one in it is written the way its callers in
the source use it (`sysForkExec`, `sysOpenEmpty`, the C library, the shell and
the editor), and is marked as external in `PROJECT.json`: the wrappers in
`simpleOSlibc.cpp` are its interface, there is no body to translate. The theorems say for
which sets they hold. What they show of a course solution depends on that
solution doing what these definitions say.

## Inventory

| Part | Source | State | Operations | Hard behaviour |
|---|---|---|---|---|
| Processes | `syscalls.cpp`, `vm.cpp` | 16 task slots, `RUNNING_PID_LOC`, `runScheduler` | fork-exec, exit, switch to parent, switch, kill, free, toggle, return from the handler | the running task is recorded in several places; a parent is resumed without a look at it; slots are reused |
| Open files | `file.cpp`, `syscalls.cpp` | table of 128 entries, descriptors per task | open, open empty, close, close all, lock | a lock is a mark on one entry among several; entries and slots are reused while pointers remain |
| File system | `fs.cpp` | block map, inode map, inode table, directory, data | create, delete, allocate, free, find | several writes per call with a power cut in between; arithmetic on map bytes; full maps |
| Timer, waits, sound | `syscalls.cpp`, `sound.cpp` | interrupt counters, uptime, speaker | interrupt handler, wait, beep, sound | the only calls that run with interrupts on; counters wrap at 2^32 |
| Shell, user heap | `shell2.cpp`, `simpleOSlibc.cpp` | 128 heap objects, stack | commands, `malloc`, `free`, `freeAll` | `main()` calls itself for ever; `freeAll` does not free all |
| C library | `simpleOSlibc.cpp` | none | `strcmp`, `atoi`, `itoa`, `strcpyRemoveNewline` ... | prefixes that compare as equal, missing terminators |
| Kernel heap | `simpleOSlibc.cpp` | 128 objects | `kMalloc`, `kFree` | objects that are never freed, null pointers |
| Semaphores | `vm.cpp` | a table of counters | create, acquire, release | spinning with interrupts off on the only CPU: a semaphore kept on an early return hangs the machine |
| Paging, frames | `vm.cpp`, `frame-allocator.cpp` | page tables, frame map | mostly unwritten | frames of dead processes |
| Keyboard | `keyboard.cpp` | two parallel buffers, the screen | `readCommand` | three copies of one line, no bound, backspace at the start |
| Editor | `ed.cpp` | shared buffer table, current descriptor, a file's buffer | open, edit, view, ins, save, close | results of an open come through memory that other processes write, and a failed open leaves the last one's |
| Screen, set-up code, boot loader | the rest | | | none that other parts depend on |

The parts interact by calls and by memory that all of them can see: the word at
`RUNNING_PID_LOC`, the task table, the open file table, `CURRENT_FILE_DESCRIPTOR`
and the table of buffer addresses. There is one CPU. A system call enters through
an interrupt gate and runs with interrupts off, except in the loops of `sysWait`
and `sysWaitOneInterrupt`; the interrupt handler changes only counters. That is
why a system call is one step of the model (followed by the step that returns to
user code), why the timer has a module of its own in which steps are finer, and
why the file system, where the power can go between two writes, has one step per
write.

What makes each part correct is stated as the properties of its module, and the
hazards they are for are listed with their lines in `PROJECT.json`.

## Modules

| Module | Models | Notes |
|---|---|---|
| `Constants` | limits of `constants.h`, `Solved` | assumptions as weak as the code needs: the process table has at least two slots and pids stay below `KERNEL_OWNED` |
| `Processes` | task states, the running pid, the scheduler switch | `saved[p]`: the slot holds registers stored by `syscallHandler` |
| `OpenFiles` | open file table, descriptors, lock marks | parameterised by the caller, so that it can be checked alone |
| `FileLock` | abstract: a file has at most one writer | implemented by `OpenFiles` |
| `FileTable` | the same calls semaphore by semaphore and entry by entry | implements `OpenFiles`; extends it |
| `Kernel` | `Processes` and `OpenFiles` composed | each call with everything it does to both tables |
| `FileSystem` | `createFile`, `deleteFile` and what they call | one step per write to the disk, `PowerOff` at any time |
| `Timer` | the interrupt handler and the waiting calls | counters of `COUNT_BITS` bits |
| `KernelHeap` | the kernel's heap and the calls that use it | a system call is one step |
| `Shell` | the heap and stack of the shell's process, composed with `KernelHeap` | a command is one step |
| `Editor` | the editor's and the shell's commands on files, with buffers, pages, names and the shared table | instantiates `OpenFiles`; a command is one step |
| `Console` | `readCommand` and `screenEditor`, key by key | |
| `Line` | abstract: what typing is meant to do | implemented by the screen editor in `Console` |
| `Processes_proofs`, `FileTable_proofs`, `Kernel_proofs`, `FileSystem_proofs`, `Timer_proofs`, `Shell_proofs`, `Console_proofs`, `Editor_proofs` | theorems | checked by TLAPS; `FileTable_proofs` is about `OpenFiles` and `FileTable`, `Shell_proofs` about both heaps |
| `MC_*` | instances for TLC | one `.cfg` per run |

How state corresponds to code:

* `Processes`: `inUse` is the set of slots whose pid word is not zero, `state` and
  `ppid` are the fields of `struct task`, `runningPid` is the word at
  `RUNNING_PID_LOC`. `cpu` is `"user"`, `"kernel"` (after the called routine, before
  `scheduler` and `iret`), `"panic"`, or `"fault"` (CR3 names a zeroed page
  directory). `sysForkExec` goes to user mode directly, as the code does.
* `OpenFiles`: `oft[e]` has the three fields that matter; `fd[p][d]` is the number
  of an entry instead of its address; descriptors 0 to 2 are left out because
  nothing changes them. The semaphore that `file.cpp` takes makes each routine one
  step. `initializeTask` and `insertOpenFileTableEntry` can never hand out the last
  slot or entry: their scans panic when they reach it, and the model does too. Where a
  call panics in between (no page, no entry), the model has the outcome `"panic"`,
  and leaves the tables as they are, because nothing runs afterwards.
* `FileTable`: `todo` is what the call in progress has still to do, a sequence of steps;
  a scan's position is `at`, and an early return drops steps from `todo`. `sem` has the
  three semaphores `kInit` creates. `OpenFiles` is seen through a mapping that shows the
  tables of the beginning of a call until it returns.
* `Editor`: `currentFd` and `buffers` are the words at `CURRENT_FILE_DESCRIPTOR` and
  `OPEN_BUFFER_TABLE`; a buffer is one page, known by its number; `mapped[p]` are the
  pages of process `p`. An address without a page is the outcome `"fault"` when it is read
  for printing and `"stray"` when the screen editor would write there. `shown`, `opener`
  and `storer` are for the properties: the page that an open has printed, and who stored
  last in `currentFd` and in a slot of the table. Pid 1 is the shell, the others run the
  editor; the CPU can be with any of them, which stands for `switch` and the return to the
  parent.
* `Console`: `mem` is memory from `KEYBOARD_BUFFER` on, scan codes first and characters
  `SIZE` further; `screen` is the prompt's line. `clean` and `furthest` are for the
  property: whether a blank lies over an erased character, and how far the pointers went.
  `text` is the buffer of a file, of which each activation of the screen editor knows the
  start only. `Keys` are the characters that show (`Text`) and the other keys (`NoText`).
* `FileSystem`: a byte of a usage map is the set of its one bits. `LastUsed`,
  `Allocate` and `freeBlock` compute what the chains of comparisons compute,
  including a stop at bytes of the form 2^k - 1 only, the off-by-one for multiples
  of eight, and the borrow of the subtraction. `table` holds the direct blocks, the
  indirect block's number and the numbers stored in it. `Prefixes` says for which
  names `strcmp` returns 0. Inodes beyond the 128 that are written back live in
  memory until `PowerOff`. Directory entries are counted; the code measures them in
  bytes. `lastEntry` says that the last entry still has the long record length that
  `createFile` looks for; it has not after an entry fell out of the block, and from then on
  no new entry can be found. A turn of `writeBufferToDisk` writes the map and the block in
  one step, since a power cut between the two leaves nothing new; the indirect block is a
  write of its own. `intact` becomes false when a block is written that mkfs has reserved
  (maps, inode table, root directory) or that is an indirect block of a file in the table.
  What the code does from then on depends on the text of the file that lies there, so
  nothing but `PowerOff` happens afterwards. `BLOCK_BYTES` is 239 in the code: the scan
  covers 240 bytes, but mkfs sets the padding bit of the last one, a byte the scan passes
  over, so the number of a full map is 1913. That the code then marks the byte behind the
  padding, and that freeing number 1913 would borrow from the padding bit, is left out: no
  number that is given out depends on it until a file is deleted from a full disk.
* `Timer`: `wait` is the loop of `sysWait` or `sysWaitOneInterrupt`, with a count of
  the interrupts since it began. `timer` may start anywhere, since the system may have
  been running for long.
* `Shell`: an object is free, blank (its first bytes are zero) or holds text. `freeAll`
  compares four bytes with the pid, so it frees only blank ones.
* `KernelHeap`: an object is free, holds a file name, or something that is being printed.
  A listing is one step that takes the largest number of objects it ever holds at once and
  frees them; its lines and the paths that test for null are not walked. The three calls
  that name a file take one object each and keep it. `Shell` adds the calls of its own
  commands and `OtherProcess`, any call of another process; `others` counts the names
  those have taken.

## Runs

| Run | Instance | Shows |
|---|---|---|
| `file_table` | 3 slots (2 usable), 2 descriptors, 3 usable entries, 1 file and the empty one | the routines, step by step, implement the calls of `OpenFiles`; the write lock is exclusive and implements `FileLock`; every call returns or panics |
| `kernel` | 4 slots (3 usable), 2 descriptors, 3 usable entries, 1 file; all but `sysSwitch` and `scheduler` written | owners of entries are alive, descriptors lead to own entries, entries can be closed, locks are lost by their owners only; a parent is ready to be resumed, no switch goes to a freed slot, no dead task runs again |
| `kernel_steps` | 4 slots (3 usable), 1 descriptor, 2 usable entries, all five routines written | every kernel step is a step of `OpenFiles`; owners are alive even when a dead parent may be resumed; one running task whichever is given the CPU; registers restored are registers saved |
| `file_system` | 16 blocks, 8 inodes, one direct block, sizes 1 and 3, 5 creates, 1 delete | blocks and inodes are not shared, no metadata are overwritten before a deletion or a full map, what the directory names is complete, with power cuts anywhere |
| `timer` | 4-bit counters, 2 interrupts a second, durations 0 and 2 | waits are long enough and end, except around the wrap; the tone stops |
| `shell` | 16 objects in each heap (128 in the code), 10 activations of `main()` | blank objects do not pile up; only leaking commands exhaust the shell's heap; listings leave nothing in the kernel's, and the shell's own names cannot exhaust it before its stack |
| `editor` | the shell and one slot for editors, 2 descriptors each, 2 usable entries, 3 pages, 2 names, 2 files | slots of the shared table belong to whom they lead to; what is shown is what `ins` changes and an open file's; an entry's name leads to the file that was opened, or its number to none |
| `console` | buffers of 3 bytes, commands of up to 5 keys, texts of up to 4, 2 characters | the parsers get the command that the screen shows; the text is what was typed |
| `lock_marks`, `next_block`, `file_reads_back`, `deletes_named` | as above | violated: see below |

Why the bounds are enough. Three usable slots allow a chain of two forks, a parent
that dies below and above others, the reuse of a slot, and two processes that contend for
a lock while a third one kills; the theorems about the process table hold for every number
of slots. Two descriptors and three entries allow a file to be open twice in one process
and once in another, and every limit (descriptors, entries, the entry that can never be
used) to be reached. In `editor` one slot serves one editor after the other, the shell opens
files in between, and three pages make the requests fail; runs with two slots, four pages
and four files are too large to be finished, and random simulation of them found nothing
else. In `console` the buffer is shorter than the longest command, so that scan codes reach
the characters. Sixteen
blocks of which six are reserved make the files cross the byte boundary of the block
map and run past its end; one direct block instead of twelve makes a file of three
blocks use the indirect block and one behind it; five of eight inodes reserved and one
of them not written back make five creates reach the limit of the table and of the map
and fill both maps. A single deletion is enough for the allocator to give out reserved
blocks and blocks of other files.
A 4-bit counter wraps within every run, whatever the start. The heap's properties are
stated in terms of its size, and sixteen objects are enough for a session to exhaust the
heap before the stack and the stack before the heap.

`MaxCreates`, `MaxDeletes` (calls), `MaxFiles` (files ever created), `MaxPos`, `MaxText`
(keys) and `MaxMains` (stack) are the only bounds that are not in the code; the last
stands for the two stack pages. The model of a panic loops
(`Halted`, `Stopped`), so deadlock is checked in every run.

### What the code does otherwise than it says

* `lock_marks`: `lockFile` marks the first entry the process has for the inode, which
  may be one it opened read-only.
* `next_block`: after a deletion the block map has bytes the allocator's scan does not
  know, and it gives out a block in use. `writeBlock` then writes over it, be it a usage map,
  the inode table, the root directory or the list of another file's blocks. `MetadataIntact`,
  `BlocksExclusive` and `EntriesComplete` are therefore stated up to the first deletion, and
  `InodesExclusive`, which a deletion alone does not disturb, until metadata are overwritten
  (`intact`). The same happens without a deletion when the block map is full: the one number
  it gives for ever may have become a file's indirect block.
* `file_reads_back`: block 12 of a larger buffer is never written.
* `deletes_named`: the lookup takes an entry whose name is a prefix of the argument for
  it.

Three more things can be read in the definitions, and the properties are stated around
them. A backspace at the beginning of the prompt moves on all the same (`typeBackspace`;
keyboard.cpp:197 has the comment "Do nothing, we are at the beginning of the buffer"): the
first character cell stays zero, and an empty first word is what `strcmp` takes for the
first command of the list. `save` appends a directory entry even if the name is there
(`createFile`), and the lookups find the older one. And a `view` of one buffer does not
change which one `ins` writes to (`insert`).

`DeadStayDead` is checked without `sysSwitch` and the scheduler, and it needs that:
`sysExit` sets the parent running without looking at it, so a task that was switched to
while its child slept can exit first and run again, a zombie, when the child exits. Neither
routine has a body in the repository, so this is a warning to whoever writes them and
not a finding about the code.

### Fairness

`CallsReturn` of `FileTable` assumes `WF(Step)`: in a system call the CPU goes on, with
interrupts off, and nothing else runs. A loop that waits for a semaphore is a step that
changes nothing, so fairness does not get a call out of it.

`WaitEnds` of `Timer`: `WF(TimerInterrupt)`: `launchShell` programs the
interval timer, which never stops, and interrupts are on in user mode and in the
waiting loops. `WF(NextRound)` and `WF(Return)`: during a wait nothing but the loop and
the interrupt handler runs. The loop looks at the counter far more often than the timer
interrupts, so no timer interrupt falls between the end of the wait and the loop's
noticing it (`WaitOver`). No fairness is assumed of users or other interrupts.

## Proofs

TLAPS proves the following for every value of the constants that satisfies the named
assumptions. The theorems say themselves when they need a part of `Solved`, the set of the
assignment routines that have been written.

* `Processes_proofs`, first half: `IInv == Core /\ FlagsOK`. `Core` adds to the types and
  `OneRunning` that every task in use but pid 1 has a pid for a parent (else an exit would
  switch to no pid), that pid 1 is not dead and that, in user or kernel mode, the task at
  `RUNNING_PID_LOC` is in use (else `sysFree` could free the caller or pid 1). It is
  inductive for every `Solved` and gives `TypeCorrect` and `RunningIsUnique`.
* Second half: `ParentReady` is not inductive, for after one return to a parent the parent
  above that one is needed. `SInv` therefore says that the processes form a stack: pid 1
  at the bottom, the running process on top, each the parent of the one above it, all
  below the top asleep with saved registers. A fork pushes, an exit or a return to the parent
  pops, and a kill takes one process and those between it and pid 1 out of the stack.
  It is inductive under `NoSwitch` (neither `sysSwitch` nor `scheduler` written) and gives
  `ParentAlwaysReady`, `CpuNeverFaults` and `TheDeadStayDead`. `RegistersRestored` needs
  less: with `sysKill` written a half-made task is killed at once.
* `FileTable_proofs`, first part, about `OpenFiles`. `IInv == TypeOK /\ MarksOwned /\
  LockExclusive`; `MarksOwned` says that a marked entry is owned by a pid and refers to a
  file, so that a mark never lies on a free entry and passes to its next owner. It gives
  `TypeCorrect`, `Exclusion` and, through the mapping `writer[i] = Writer(oft, i)`,
  `LockImplemented`: opening acquires a free lock or changes no lock, closing releases those
  of one owner.
* Second part, about `FileTable`. A call is a list of steps, so first come lemmas about such
  lists: `Do(w, q, rest)` is a piece of work, semaphores `q`, and the rest, and
  `Toward(todo, rest)` says that only semaphores are in the way of `rest`. `StepsInv` adds to
  `IInv` what is known whenever a call has got so far: the tables in terms of those
  it began with, which part of a table the scan has seen, and which entry or slot was found.
  It is needed as a whole, for the one step of `OpenFiles` is known only when the call
  returns. It gives `StepsTypeCorrect`, `StepsExclusion` (also between two steps of a scan),
  `CallsImplemented` (each call, with its early returns and panics, is one step of
  `OpenFiles`) and `StepsImplementLock` (each single step is a step of `FileLock` or none).
* `Kernel_proofs`. `ProcessesImplemented` and `OpenFilesImplemented` show that the
  composition refines both components. The second needs the invariant `KInv`, which joins
  the components' invariants, `FilesOfTasks` (a task in use has its descriptor counter
  past the standard ones, an unused slot has neither counter nor descriptors) and `OwnersAlive`,
  because `OpenFiles` lets only initialised tasks call. `OwnersStayAlive` follows from
  it, and with the stack of `Processes_proofs` also `DescriptorsStayOwned` and
  `LocksLostByOwner`. `EntriesStayReachable` needs no stack but `sysClose` written, since an
  empty one leaves the entry that `sysOpenEmpty` has made, and `SpareDescriptors`: the
  descriptor that is used next, and those above it, are null, so an open never overwrites the
  only way to an entry. `KernelIsProcesses` carries the results of `Processes_proofs` over to
  the properties that the runs of `Kernel` check: `TypeCorrect`, `RunningIsUnique`,
  `ParentAlwaysReady`, `CpuNeverFaults`, `TheDeadStayDead` and `RegistersRestored`.
* `FileSystem_proofs`. Three invariants on top of the types. `InodeInv`: the inode map is a
  prefix of ones (inodes are never freed), and every inode that the directory or the call in
  progress names is in it; it gives `InodesStayExclusive`, which like the model itself
  reaches to the first write over metadata. `BlockInv`: until the first deletion
  the block map is a prefix too, and both the table on the disk and the table as it will be
  when the call's inode is written are `Sound` (no block for two purposes, every block in the
  map, data where the files expect them); both, because a power cut can come before or after
  the write. `Open` names the inode whose indirect block is still to be written and so is the
  one that need not be on the disk yet; no inode of the table has that block (`Unused`), so
  writing it disturbs no other file. It gives `BlocksStayExclusive` and, as a block that is
  written was free or is the call's own, `MetadataStaysIntact`. `SizeInv`: an inode that was not given out is
  empty, so the file that gets it has as many blocks as were written for it; with `BlockInv`
  it gives `NamedFilesComplete`. Assumed: the directory has room for no more files than the
  inode map has bits (128 and 8 * 30 in the code).
* `Timer_proofs`. `WaitInv`: as long as a wait's target has not wrapped and the wait has not
  been long enough, `timer = target - ticks + elapsed`. It gives `WaitsLongEnough`;
  `TypeCorrect` and `ToneStaysInCall` are inductive. Assumed: durations are below the
  largest count. The loop over `iterations <= duration` never ends for the largest one.
* `Shell_proofs`. `HeapInv`: the commands that leak are as many as the objects with text, and
  at most two objects are blank at the prompt; it gives `OnlyTwoBlankObjects` and
  `ShellHeapLasts`. `KernelHeapInv`: names in use are those taken, and the shell's own are
  at most one for each activation of `main()`; it gives `OnlyNamesInKernelHeap` and
  `KernelHeapOutlasts`. Assumed: a heap has at least the four objects that `main()` and a
  command use.
* `Console_proofs`. `CommandInv`: the copy in memory and the screen agree up to the cursor,
  and nothing was written behind the furthest position, which is what a line that was
  taken back and typed again needs. It gives `CommandStaysOnScreen`. `EditorImplementsLine`
  follows from the types. Assumed: characters differ from scan codes and from names of keys.
* `Editor_proofs`. `BufferInv` joins the types, `DescriptorsInv` (a live process' descriptors
  lead to entries of its own, each to another one), `StorersInv` (who stored last is alive
  or nobody) and the two properties `SlotsOfTheirStorer` and `InsertGoesWhereShown`, which are
  inductive only together: the slot an editor reads is the one its open has stored in.
  `NamesInv`: a number is never given to two files, and a named entry whose number is in the
  directory has the name that the lookup finds first; it gives `NamesStayTrue`. Assumed:
  file numbers stay below that of the empty file (65535), and no file is named by the
  null name.

Only model-checked: the liveness properties `CallsReturn` and `WaitEnds`, as liveness and
`ENABLED` are out of TLAPS's reach, and the four runs that expect a violation. Every
invariant and every refinement that a passing run checks is also a theorem.

## Not modelled

Printing, port input and output, descriptor tables, the boot loader, the ELF loader and
page contents. Paging and frames have no bodies to translate beyond their callers; the
calls' failure is an outcome in `Processes` and `Editor`. `sysPs`, `sysDirectory` and
`sysUptime` change nothing but the kernel heap (see `KernelHeap`); they, `sysMemDump`,
`sysShowOpenFiles` and `sysWrite` are `OtherSyscall` in `Processes`. `sysWrite` takes a
descriptor of any value, and `uptimeSeconds` is displayed only; neither changes state that
another part reads. The number and string routines of the library keep no state.
Task priorities and run times are written and displayed, but no code in the repository
decides anything by them.

## Plan

1. `Editor` with the disk writes of `FileSystem`: a power cut while an open file is saved.
2. Proofs about compositions: that `Editor`'s tables take the steps of `OpenFiles`, so that
   `LockImplemented` holds with the shared buffer table too.
3. When the assignments' routines get bodies: `sysClose`, `sysKill`, `sysFree`, `sysSwitch`,
   `scheduler` and the paging routines translated in place of what their callers count on.
