------------------------------- MODULE Editor -------------------------------
(***************************************************************************)
(* The editor (ed.cpp) and the shell's commands on files, with the system  *)
(* calls they make.  An open tells its result to the editor through memory *)
(* that all processes share: the word at CURRENT_FILE_DESCRIPTOR and the   *)
(* table of buffer addresses at OPEN_BUFFER_TABLE, indexed by descriptor   *)
(* alone.  A buffer is one page, an address is the number of a page, and   *)
(* every process has its own pages under the same numbers.                 *)
(*                                                                         *)
(* The CPU goes from process to process between commands (sysSwitch and    *)
(* sysFree are taken to be written, the scheduler not to be switched on),  *)
(* so a command is one step.                                               *)
(***************************************************************************)
EXTENDS Constants, Sequences

CONSTANTS
  PAGES,      (* pages a process can have for files                        *)
  Names,      (* file names, none of them a prefix of another              *)
  FirstName,  (* the name of the one file on the disk at first             *)
  MaxFiles    (* bound on the files ever created                           *)

NoName == ""

ASSUME EditorAssumption ==
  /\ PAGES \in Nat
  /\ FirstName \in Names /\ NoName \notin Names
  /\ MaxFiles \in 1 .. 65534

Pages == 1 .. PAGES
Files == 1 .. MaxFiles
Shell == 1    (* the pid of the shell; all others run the editor           *)
Slots == 0 .. (MAX_FILE_DESCRIPTORS - 1)

VARIABLES
  oft, fd, nextFd,   (* see OpenFiles                                      *)
  buffer,      (* openFileTableEntry.userspaceBuffer                       *)
  fileName,    (* openFileTableEntry.fileName                              *)
  currentFd,   (* the word at CURRENT_FILE_DESCRIPTOR                      *)
  buffers,     (* the table at OPEN_BUFFER_TABLE                           *)
  mapped,      (* pages mapped in a process's address space                *)
  dir,         (* directory entries on the disk                            *)
  lastInode,   (* last number given out by allocateInode                   *)
  live,        (* processes that run or sleep                              *)
  onScreen,    (* fileContentsOnScreen, a local of the editor's main()     *)
  status,      (* "running"; a "panic", a "fault" or a "stray" write ends it *)
  shown, opener, storer   (* for the properties: the page that an open     *)
                          (* has printed and no other print replaced; who  *)
                          (* stored last in currentFd, in a slot of buffers *)

O == INSTANCE OpenFiles WITH Inodes <- Files

files  == <<oft, fd, nextFd, buffer, fileName>>
shared == <<currentFd, buffers, opener, storer>>
disk   == <<dir, lastInode>>
editor == <<onScreen, shown, status>>
vars   == <<files, shared, disk, mapped, live, editor>>

Init ==
  /\ O!Init
  /\ buffer = [e \in O!Entries |-> 0]
  /\ fileName = [e \in O!Entries |-> NoName]
  /\ currentFd = 0
  /\ buffers = [d \in Slots |-> 0]
  /\ mapped = [p \in Pids |-> {}]
  /\ dir = <<[name |-> FirstName, inode |-> 1]>>
  /\ lastInode = 1
  /\ live = {Shell}
  /\ onScreen = [p \in Pids |-> FALSE]
  /\ shown = [p \in Pids |-> 0]
  /\ opener = 0
  /\ storer = [d \in Slots |-> 0]
  /\ status = "running"

-----------------------------------------------------------------------------
(* What the calls are made of.                                             *)

(* returnInodeofFileName: that of the first entry of the name, 0 for none. *)
Places(name) == {k \in DOMAIN dir : dir[k].name = name}
returnInodeofFileName(name) ==
  IF Places(name) = {} THEN 0 ELSE dir[CHOOSE k \in Places(name) : IsFirst(k, Places(name))].inode

(* allocateInode never gives a number again: deleteFile leaves the map.    *)
InodesInDir == {dir[k].inode : k \in DOMAIN dir}
Mutant_allocateInode ==    (* the number of a deleted file is used again    *)
  IF Files \subseteq InodesInDir THEN 0
  ELSE CHOOSE i \in Files : IsFirst(i, Files \ InodesInDir)
allocateInode == lastInode + 1

(* createFile puts its entry behind the others, whatever names they have.  *)
createFile(name) ==
  /\ lastInode < MaxFiles
  /\ dir' = Append(dir, [name |-> name, inode |-> allocateInode])
  /\ lastInode' = lastInode + 1

(* requestAvailablePage may give any page, findBuffer the first that fits. *)
FreePages(p) == Pages \ mapped[p]
findBuffer(p, others, page) == IsFirst(page, FreePages(p) \ others)

(* Entry e gets a buffer and a name; cleared entries lose theirs.          *)
SetEntry(e, name, page) ==
  LET Field(old, new, none) ==
        [x \in O!Entries |->
           IF oft'[x].openedByPid = 0 THEN none ELSE IF x = e THEN new ELSE old[x]]
  IN /\ buffer' = Field(buffer, page, 0)
     /\ fileName' = Field(fileName, name, NoName)
ClearEntries == SetEntry(0, NoName, 0)

(* sysOpen and sysOpenEmpty store the descriptor and the buffer's address. *)
Mutant_Slot(p) == nextFd[p] + 1    \* counted before it is stored
Slot(p) == nextFd[p]
Share(p, page) ==
  /\ currentFd' = nextFd[p]
  /\ buffers' = [buffers EXCEPT ![Slot(p)] = page]
  /\ opener' = p
  /\ storer' = [storer EXCEPT ![Slot(p)] = p]

(* The editor prints a buffer from the shared table.  A null address is    *)
(* reported; one without a page in this process is a page fault.           *)
printBufferToScreen(p, page, opened) ==
  /\ shown' = [shown EXCEPT ![p] = IF opened THEN page ELSE 0]
  /\ status' = IF page = 0 \/ page \in mapped'[p] THEN status ELSE "fault"

(* What the editor does when systemOpenFile is back, successful or not:    *)
(* "edit" says that the contents are on the screen, "open" leaves that.    *)
AfterOpen(p, mode, opened) ==
  /\ printBufferToScreen(p, buffers'[currentFd'], opened)
  /\ onScreen' = IF mode = "RDWRITE" THEN [onScreen EXCEPT ![p] = TRUE] ELSE onScreen

Running(p) == status = "running" /\ p \in live
Mutant_Editing(p) == Running(p)    \* the shell can exit
Editing(p) == Running(p) /\ p # Shell

Panic == status' = "panic" /\ UNCHANGED <<files, shared, disk, mapped, live, onScreen, shown>>

-----------------------------------------------------------------------------
(* The commands "open" (RDONLY) and "edit" (RDWRITE).                      *)

open(p, name, mode, e, inodePage, page) ==
  /\ Editing(p)
  /\ returnInodeofFileName(name) # 0
  /\ inodePage \in FreePages(p) /\ findBuffer(p, {inodePage}, page)
  /\ O!sysOpen(p, returnInodeofFileName(name), mode, e)
  /\ SetEntry(e, name, page)
  /\ mapped' = [mapped EXCEPT ![p] = @ \union {page}]    \* inodePage is freed
  /\ Share(p, page)
  /\ AfterOpen(p, mode, TRUE)
  /\ UNCHANGED <<disk, live>>

(* With its descriptors used up a process opens nothing; for a file that   *)
(* is not there it keeps the page that was meant for the inode.            *)
openFails(p, name, mode) ==
  /\ Editing(p)
  /\ \/ O!AtFdLimit(p) /\ UNCHANGED mapped
     \/ /\ ~O!AtFdLimit(p)
        /\ returnInodeofFileName(name) = 0
        /\ \E inodePage \in FreePages(p) : mapped' = [mapped EXCEPT ![p] = @ \union {inodePage}]
  /\ UNCHANGED <<files, shared, disk, live>>
  /\ AfterOpen(p, mode, FALSE)

(* No page, none left for the buffer, or no entry: panic().                *)
openPanics(p, name) ==
  /\ Editing(p) /\ ~O!AtFdLimit(p)
  /\ \/ FreePages(p) = {}
     \/ /\ returnInodeofFileName(name) # 0
        /\ O!insertPanics \/ \E page \in Pages : FreePages(p) = {page}
  /\ Panic

-----------------------------------------------------------------------------
(* The other commands of the editor.                                       *)

view(p, d) ==
  /\ Editing(p)
  /\ onScreen' = [onScreen EXCEPT ![p] = TRUE]
  /\ UNCHANGED <<files, shared, disk, mapped, live>>
  /\ printBufferToScreen(p, buffers[d], FALSE)

(* "ins" takes the buffer of CURRENT_FILE_DESCRIPTOR, whatever it is that  *)
(* is on the screen, and writes to an address that is not checked.         *)
insert(p) ==
  /\ Editing(p) /\ onScreen[p]
  /\ status' = IF buffers[currentFd] \in mapped[p] THEN status ELSE "stray"
  /\ UNCHANGED <<files, shared, disk, mapped, live, onScreen, shown>>

(* "save": createFile with the entry of one of the process's descriptors.  *)
(* Neither the directory nor any lock is looked at.                        *)
save(p, name) ==
  /\ Editing(p)
  /\ createFile(name)
  /\ UNCHANGED <<files, shared, mapped, live, editor>>

Mutant_close(p, d) ==    (* the contents stay "on the screen"               *)
  /\ Editing(p)
  /\ O!sysClose(p, d)
  /\ ClearEntries
  /\ UNCHANGED <<shared, disk, mapped, live, editor>>
close(p, d) ==
  /\ Editing(p)
  /\ onScreen' = [onScreen EXCEPT ![p] = FALSE]
  /\ O!sysClose(p, d)
  /\ ClearEntries
  /\ UNCHANGED <<shared, disk, mapped, live, shown, status>>

(* A command that is not recognised calls main() again.                    *)
mainAgain(p) ==
  /\ Editing(p)
  /\ onScreen' = [onScreen EXCEPT ![p] = FALSE]
  /\ UNCHANGED <<files, shared, disk, mapped, live, shown, status>>

-----------------------------------------------------------------------------
(* The shell's commands "new" and "rm".                                    *)

openEmpty(name, e, page) ==
  /\ Running(Shell)
  /\ findBuffer(Shell, {}, page)
  /\ O!sysOpenEmpty(Shell, e)
  /\ SetEntry(e, name, page)
  /\ mapped' = [mapped EXCEPT ![Shell] = @ \union {page}]
  /\ Share(Shell, page)
  /\ createFile(name)
  /\ UNCHANGED <<live, editor>>

openEmptyPanics ==
  /\ Running(Shell) /\ ~O!AtFdLimit(Shell)
  /\ FreePages(Shell) = {} \/ O!insertPanics
  /\ Panic

(* deleteFile removes the first entry of the name, locked or open or not.  *)
(* If there is none it keeps the page it has taken.                        *)
delete(name) ==
  /\ Running(Shell)
  /\ IF Places(name) = {}
       THEN /\ \E page \in FreePages(Shell) : mapped' = [mapped EXCEPT ![Shell] = @ \union {page}]
            /\ UNCHANGED dir
       ELSE /\ \E k \in Places(name) :
                 /\ IsFirst(k, Places(name))
                 /\ dir' = SubSeq(dir, 1, k - 1) \o SubSeq(dir, k + 1, Len(dir))
            /\ UNCHANGED mapped
  /\ UNCHANGED <<files, shared, lastInode, live, editor>>

-----------------------------------------------------------------------------
(* Processes come and go: "run ed", "exit" and "free" of the shell.        *)

run(p) ==
  /\ Running(Shell)
  /\ p \notin live /\ nextFd[p] = 0
  /\ O!NewTaskFiles(p)
  /\ live' = live \union {p}
  /\ UNCHANGED <<buffer, fileName, shared, disk, mapped, editor>>

(* The editor's locals and pages go with the process.                      *)
exit(p) ==
  /\ Editing(p)
  /\ O!CloseProcessFiles(p)
  /\ ClearEntries
  /\ live' = live \ {p}
  /\ mapped' = [mapped EXCEPT ![p] = {}]
  /\ onScreen' = [onScreen EXCEPT ![p] = FALSE]
  /\ shown' = [shown EXCEPT ![p] = 0]
  /\ opener' = IF opener = p THEN 0 ELSE opener
  /\ storer' = [d \in Slots |-> IF storer[d] = p THEN 0 ELSE storer[d]]
  /\ UNCHANGED <<currentFd, buffers, disk, status>>

free ==
  /\ Running(Shell)
  /\ O!ZeroTaskFiles(Pids \ live)
  /\ UNCHANGED <<buffer, fileName, shared, disk, mapped, live, editor>>

Stopped == status # "running" /\ UNCHANGED vars

Next ==
  \/ \E p \in Pids, name \in Names :
       \/ \E mode \in O!Modes :
            \/ \E inodePage, page \in Pages, e \in O!Entries :
                 open(p, name, mode, e, inodePage, page)
            \/ openFails(p, name, mode)
       \/ openPanics(p, name)
       \/ save(p, name)
  \/ \E p \in Pids, d \in O!Fds : view(p, d) \/ close(p, d)
  \/ \E p \in Pids : insert(p) \/ mainAgain(p) \/ run(p) \/ exit(p)
  \/ \E name \in Names : \/ \E e \in O!Entries, page \in Pages : openEmpty(name, e, page)
                         \/ delete(name)
  \/ openEmptyPanics
  \/ free
  \/ Stopped

Spec == Init /\ [][Next]_vars

-----------------------------------------------------------------------------
(* Properties.                                                             *)

TypeOK ==
  /\ O!TypeOK
  /\ buffer \in [O!Entries -> Pages \union {0}]
  /\ fileName \in [O!Entries -> Names \union {NoName}]
  /\ currentFd \in Slots
  /\ buffers \in [Slots -> Pages \union {0}]
  /\ mapped \in [Pids -> SUBSET Pages]
  /\ dir \in Seq([name : Names, inode : Files])
  /\ lastInode \in Files
  /\ live \subseteq Pids /\ Shell \in live
  /\ onScreen \in [Pids -> BOOLEAN]
  /\ shown \in [Pids -> Pages \union {0}]
  /\ opener \in Pids \union {0}
  /\ storer \in [Slots -> Pids \union {0}]
  /\ status \in {"running", "panic", "fault", "stray"}

(* The table of addresses is indexed by descriptor alone (sysOpen,         *)
(* sysOpenEmpty).  A slot that a process stored in last still leads to a   *)
(* page of that process, and to the buffer of its own open file if that    *)
(* descriptor is open: no close, exit, reuse of an entry or of a task slot *)
(* makes the table and the process's descriptors disagree.                 *)
SlotsOfTheirStorer ==
  \A p \in live, d \in O!Fds :
    storer[d] = p =>
      /\ buffers[d] \in mapped[p]
      /\ fd[p][d] # 0 => buffer[fd[p][d]] = buffers[d]

(* An editor that has opened a file, with its contents on the screen and   *)
(* no open by another process since, inserts into the buffer it shows, and *)
(* that is the buffer of a file it still has open: closing, failing opens  *)
(* and other commands in between do not separate what is shown, what "ins" *)
(* changes and what can be saved (ed.cpp, main).                           *)
InsertGoesWhereShown ==
  \A p \in live :
    onScreen[p] /\ shown[p] # 0 /\ opener = p =>
      /\ buffers[currentFd] = shown[p]
      /\ fd[p][currentFd] # 0 /\ buffer[fd[p][currentFd]] = shown[p]

(* deleteFile looks neither at locks nor at open entries.  Still the inode *)
(* number in an entry stands for the file that was opened: as long as any  *)
(* file of that number is in the directory, the entry's name leads to it,  *)
(* so that a lock on the number never holds back another file.             *)
EntryNamesItsFile ==
  \A e \in O!Entries :
    oft[e].inode \in InodesInDir => returnInodeofFileName(fileName[e]) = oft[e].inode
=============================================================================
