----------------------------- MODULE Editor_proofs -----------------------------
(***************************************************************************)
(* Proofs about Editor: the table of buffers that all processes share, what*)
(* "ins" writes to, and the names of open files, for every number of       *)
(* processes, descriptors, entries, pages and files.                       *)
(***************************************************************************)
EXTENDS Editor, WellFoundedInduction, TLAPS

Owner(e) == oft[e].openedByPid
Tables  == [O!Entries -> O!Entry]
FdLists == [Pids -> [O!Fds -> O!Entries \union {0}]]

LEMMA Numbers ==
  /\ 0 \notin Pids /\ Shell \in Pids /\ KERNEL_OWNED \notin Pids /\ KERNEL_OWNED # 0
  /\ 0 \notin O!Entries /\ 0 \notin Pages
  /\ O!Fds \subseteq Slots /\ 0 \in Slots
  /\ \A n \in 0 .. MAX_FILE_DESCRIPTORS :
       n >= STD /\ ~(n >= MAX_FILE_DESCRIPTORS) => n \in O!Fds /\ n + 1 \in 0 .. MAX_FILE_DESCRIPTORS
  /\ STD \in 0 .. MAX_FILE_DESCRIPTORS /\ 0 \in 0 .. MAX_FILE_DESCRIPTORS
  /\ \A n \in Nat : n >= STD => n + 1 >= STD
  /\ O!Pids = Pids
<1>1. 0 \notin Pids /\ Shell \in Pids /\ KERNEL_OWNED \notin Pids /\ KERNEL_OWNED # 0
  BY ConstantsAssumption, SMTT(20) DEF Pids, Shell, KERNEL_OWNED
<1>2. 0 \notin O!Entries /\ 0 \notin Pages
  BY ConstantsAssumption, EditorAssumption, SMTT(20) DEF O!Entries, Pages
<1>3. O!Fds \subseteq Slots /\ 0 \in Slots
  BY ConstantsAssumption, SMT DEF O!Fds, Slots, O!STD, STD
<1>4. ASSUME NEW n \in 0 .. MAX_FILE_DESCRIPTORS, n >= STD, ~(n >= MAX_FILE_DESCRIPTORS)
      PROVE  n \in O!Fds /\ n + 1 \in 0 .. MAX_FILE_DESCRIPTORS
  BY <1>4, ConstantsAssumption, SMT DEF O!Fds, STD, O!STD
<1>5. STD \in 0 .. MAX_FILE_DESCRIPTORS /\ 0 \in 0 .. MAX_FILE_DESCRIPTORS
  BY ConstantsAssumption, SMT DEF STD
<1>6. \A n \in Nat : n >= STD => n + 1 >= STD
  BY SMT DEF STD
<1> QED
  BY <1>1, <1>2, <1>3, <1>4, <1>5, <1>6 DEF O!Pids, Pids

USE Numbers

LEMMA FileNumbers ==
  /\ 0 \notin Files /\ O!EMPTY_FILE \notin Files /\ O!EMPTY_FILE # 0
  /\ Files \subseteq Nat /\ 1 \in Files
  /\ \A i \in Files : i < O!EMPTY_FILE
  /\ \A i \in Files : i < MaxFiles => i + 1 \in Files
BY EditorAssumption, SMT DEF Files, O!EMPTY_FILE

LEMMA EntryFields ==
  /\ O!NoEntry \in O!Entry /\ O!NoEntry.openedByPid = 0 /\ O!NoEntry.inode = 0
  /\ \A p \in Pids, i \in Files \union {O!EMPTY_FILE} :
       /\ O!Opened(p, i) \in O!Entry
       /\ O!Opened(p, i).openedByPid = p /\ O!Opened(p, i).inode = i
  /\ \A r \in O!Entry : /\ [r EXCEPT !.lockedForWriting = TRUE] \in O!Entry
                        /\ [r EXCEPT !.lockedForWriting = TRUE].openedByPid = r.openedByPid
                        /\ [r EXCEPT !.lockedForWriting = TRUE].inode = r.inode
<1>1. O!NoEntry \in O!Entry /\ O!NoEntry.openedByPid = 0 /\ O!NoEntry.inode = 0
  BY DEF O!Entry, O!NoEntry, O!Opened
<1>2. ASSUME NEW p \in Pids, NEW i \in Files \union {O!EMPTY_FILE}
      PROVE  /\ O!Opened(p, i) \in O!Entry
             /\ O!Opened(p, i).openedByPid = p /\ O!Opened(p, i).inode = i
  BY DEF O!Entry, O!Opened
<1>3. ASSUME NEW r \in O!Entry
      PROVE  /\ [r EXCEPT !.lockedForWriting = TRUE] \in O!Entry
             /\ [r EXCEPT !.lockedForWriting = TRUE].openedByPid = r.openedByPid
             /\ [r EXCEPT !.lockedForWriting = TRUE].inode = r.inode
  BY DEF O!Entry
<1> QED
  BY <1>1, <1>2, <1>3

-----------------------------------------------------------------------------
(* What a call does to the tables of OpenFiles, without the marks: they    *)
(* matter to none of the properties.                                       *)

(* Entry e is given to p for file i, the others keep owner and file.       *)
Gives(o, e, p, i) ==
  /\ o \in Tables /\ Owner(e) = 0
  /\ o[e].openedByPid = p /\ o[e].inode = i
  /\ \A x \in O!Entries \ {e} : o[x].openedByPid = Owner(x) /\ o[x].inode = oft[x].inode

LEMMA InsertGives ==
  ASSUME oft \in Tables, NEW e \in O!Entries, e \in O!FreeEntries, NEW p \in Pids,
         NEW i \in Files \union {O!EMPTY_FILE}
  PROVE  Gives(O!insertOpenFileTableEntry(e, p, i), e, p, i)
<1>1. PICK o : o = O!insertOpenFileTableEntry(e, p, i)
  OBVIOUS
<1>2. o[e] = O!Opened(p, i) /\ (\A x \in O!Entries \ {e} : o[x] = oft[x]) /\ o \in Tables
  BY <1>1, EntryFields DEF O!insertOpenFileTableEntry, Tables
<1> QED
  BY <1>1, <1>2, EntryFields DEF Gives, O!FreeEntries, Owner

LEMMA LockFields ==
  ASSUME NEW o \in Tables, NEW p, NEW i
  PROVE  /\ O!lockFile(o, p, i) \in Tables
         /\ \A x \in O!Entries : /\ O!lockFile(o, p, i)[x].openedByPid = o[x].openedByPid
                                 /\ O!lockFile(o, p, i)[x].inode = o[x].inode
<1>1. PICK t : t = O!lockFile(o, p, i)
  OBVIOUS
<1>2. \A x \in O!Entries : t[x] \in {o[x], [o[x] EXCEPT !.lockedForWriting = TRUE]}
  BY <1>1 DEF O!lockFile
<1>3. \A x \in O!Entries : o[x] \in O!Entry
  BY DEF Tables
<1>4. \A x \in O!Entries : t[x] \in O!Entry /\ t[x].openedByPid = o[x].openedByPid
                                           /\ t[x].inode = o[x].inode
  <2> TAKE x \in O!Entries
  <2>1. PICK r : r = [o[x] EXCEPT !.lockedForWriting = TRUE]
    OBVIOUS
  <2>2. r \in O!Entry /\ r.openedByPid = o[x].openedByPid /\ r.inode = o[x].inode
    BY <1>3, <2>1, EntryFields
  <2> QED
    BY <1>2, <1>3, <2>1, <2>2
<1>5. t = [x \in O!Entries |-> t[x]]
  BY <1>1, Zenon DEF O!lockFile
<1>6. t \in Tables
  BY <1>4, <1>5 DEF Tables
<1> QED
  BY <1>1, <1>4, <1>6

LEMMA OpenEffect ==
  ASSUME TypeOK, NEW p \in Pids, nextFd[p] >= STD, NEW i \in Files, NEW mode, NEW e \in O!Entries,
         O!sysOpen(p, i, mode, e)
  PROVE  /\ nextFd[p] \in O!Fds /\ Gives(oft', e, p, i)
         /\ fd' = [fd EXCEPT ![p][nextFd[p]] = e]
         /\ nextFd' = [nextFd EXCEPT ![p] = @ + 1] /\ nextFd[p] + 1 \in 0 .. MAX_FILE_DESCRIPTORS
<1>1. PICK o : o = O!insertOpenFileTableEntry(e, p, i)
  OBVIOUS
<1>2. oft' = IF mode = "RDWRITE" THEN O!lockFile(o, p, i) ELSE o
  BY <1>1 DEF O!sysOpen
<1>3. Gives(o, e, p, i)
  BY <1>1, InsertGives DEF O!sysOpen, O!IsFirst, TypeOK, O!TypeOK, Tables
<1>4. Gives(O!lockFile(o, p, i), e, p, i)
  <2>1. o \in Tables
    BY <1>3 DEF Gives
  <2> QED
    BY <1>3, <2>1, LockFields DEF Gives
<1>5. nextFd[p] \in 0 .. MAX_FILE_DESCRIPTORS
  BY DEF TypeOK, O!TypeOK
<1>6. ~(nextFd[p] >= MAX_FILE_DESCRIPTORS)
  BY DEF O!sysOpen, O!AtFdLimit
<1>7. nextFd[p] \in O!Fds /\ nextFd[p] + 1 \in 0 .. MAX_FILE_DESCRIPTORS
  BY <1>5, <1>6
<1> QED
  BY <1>2, <1>3, <1>4, <1>7 DEF O!sysOpen

(* sysOpenEmpty leaves the descriptor open if sysClose is not written.     *)
LEMMA OpenEmptyEffect ==
  ASSUME TypeOK, NEW p \in Pids, nextFd[p] >= STD, NEW e \in O!Entries, O!sysOpenEmpty(p, e)
  PROVE  /\ nextFd[p] \in O!Fds /\ Owner(e) = 0 /\ nextFd' = nextFd
         /\ \/ /\ Gives(oft', e, p, O!EMPTY_FILE)
               /\ fd' = [fd EXCEPT ![p][nextFd[p]] = e]
            \/ /\ oft' = [oft EXCEPT ![e] = O!NoEntry]
               /\ fd' = [fd EXCEPT ![p][nextFd[p]] = 0]
<1>1. oft \in Tables /\ fd \in FdLists /\ nextFd[p] \in 0 .. MAX_FILE_DESCRIPTORS
  BY DEF TypeOK, O!TypeOK, Tables, FdLists
<1>2. ~(nextFd[p] >= MAX_FILE_DESCRIPTORS) /\ e \in O!FreeEntries /\ nextFd' = nextFd
  BY DEF O!sysOpenEmpty, O!AtFdLimit, O!IsFirst
<1>3. PICK n \in O!Fds : n = nextFd[p]
  BY <1>1, <1>2
<1>4. PICK o, fds : o = O!insertOpenFileTableEntry(e, p, O!EMPTY_FILE) /\ fds = [fd EXCEPT ![p][n] = e]
  OBVIOUS
<1>5. oft' = O!CloseEntry(o, n, p, fds) /\ fd' = O!CloseFd(n, p, fds)
  BY <1>3, <1>4, Zenon DEF O!sysOpenEmpty
<1>6. Gives(o, e, p, O!EMPTY_FILE)
  BY <1>1, <1>2, <1>4, InsertGives
<1>7. CASE O!Closable(n, p, fds)
  <2>1. fds[p][n] = e
    BY <1>1, <1>3, <1>4 DEF FdLists
  <2>2. oft' = [o EXCEPT ![e] = O!NoEntry] /\ fd' = [fds EXCEPT ![p][n] = 0]
    BY <1>5, <1>7, <2>1 DEF O!CloseEntry, O!CloseFd
  <2>3. oft' = [oft EXCEPT ![e] = O!NoEntry]
    BY <1>1, <1>4, <2>2 DEF O!insertOpenFileTableEntry, Tables
  <2>4. fd' = [fd EXCEPT ![p][n] = 0]
    BY <1>1, <1>3, <1>4, <2>2 DEF FdLists
  <2> QED
    BY <1>2, <1>3, <2>3, <2>4 DEF O!FreeEntries, Owner
<1>8. CASE ~O!Closable(n, p, fds)
  <2>1. oft' = o /\ fd' = fds
    BY <1>5, <1>8 DEF O!CloseEntry, O!CloseFd
  <2> QED
    BY <1>2, <1>3, <1>4, <1>6, <2>1 DEF O!FreeEntries, Owner
<1> QED
  BY <1>7, <1>8

LEMMA CloseEffect ==
  ASSUME TypeOK, NEW p \in Pids, NEW d \in O!Fds, O!sysClose(p, d)
  PROVE  /\ nextFd' = nextFd
         /\ \/ oft' = oft /\ fd' = fd
            \/ \E e \in O!Entries : /\ e = fd[p][d]
                                    /\ oft' = [oft EXCEPT ![e] = O!NoEntry]
                                    /\ fd' = [fd EXCEPT ![p][d] = 0]
<1>1. nextFd' = nextFd /\ oft' = O!CloseEntry(oft, d, p, fd) /\ fd' = O!CloseFd(d, p, fd)
  BY DEF O!sysClose
<1>2. CASE O!Closable(d, p, fd)
  <2>1. fd[p][d] \in O!Entries
    BY <1>2 DEF O!Closable, TypeOK, O!TypeOK
  <2> QED
    BY <1>1, <1>2, <2>1 DEF O!CloseEntry, O!CloseFd
<1>3. CASE ~O!Closable(d, p, fd)
  BY <1>1, <1>3 DEF O!CloseEntry, O!CloseFd
<1> QED
  BY <1>2, <1>3

-----------------------------------------------------------------------------
(* The descriptors of processes that are there lead to entries of theirs,  *)
(* no two to the same; in a slot that is not used there are none.          *)
Descriptors(o, fds, L) ==
  \A p \in L, d \in O!Fds :
    fds[p][d] # 0 =>
      /\ o[fds[p][d]].openedByPid = p
      /\ \A c \in O!Fds : fds[p][c] = fds[p][d] => c = d

DescriptorsInv ==
  /\ \A p \in live : nextFd[p] >= STD
  /\ \A p \in Pids : nextFd[p] = 0 => \A d \in O!Fds : fd[p][d] = 0
  /\ Descriptors(oft, fd, live)

LEMMA GiveDescriptor ==
  ASSUME fd \in FdLists, live \subseteq Pids, Descriptors(oft, fd, live),
         NEW p \in Pids, NEW n \in O!Fds, NEW e \in O!Entries, NEW i, NEW o, Gives(o, e, p, i)
  PROVE  Descriptors(o, [fd EXCEPT ![p][n] = e], live)
<1>1. PICK fds : fds = [fd EXCEPT ![p][n] = e]
  OBVIOUS
<1>2. /\ fds[p][n] = e
      /\ \A q \in Pids, d \in O!Fds : q # p \/ d # n => fds[q][d] = fd[q][d]
      /\ \A q \in Pids, d \in O!Fds : fd[q][d] \in O!Entries \union {0}
  BY <1>1 DEF FdLists
<1>3. \A q \in live, d \in O!Fds : fd[q][d] # e
  BY DEF Descriptors, Gives, Owner
<1>4. ASSUME NEW q \in live, NEW d \in O!Fds, fds[q][d] # 0
      PROVE  /\ o[fds[q][d]].openedByPid = q
             /\ \A c \in O!Fds : fds[q][c] = fds[q][d] => c = d
  <2>1. CASE q = p /\ d = n
    BY <1>2, <1>3, <1>4, <2>1 DEF Gives
  <2>2. CASE ~(q = p /\ d = n)
    <3>1. fds[q][d] = fd[q][d] /\ fd[q][d] \in O!Entries \ {e}
      BY <1>2, <1>3, <1>4, <2>2
    <3>2. oft[fd[q][d]].openedByPid = q /\ \A c \in O!Fds : fd[q][c] = fd[q][d] => c = d
      BY <1>4, <3>1 DEF Descriptors
    <3>3. o[fds[q][d]].openedByPid = q
      BY <3>1, <3>2 DEF Gives, Owner
    <3>4. \A c \in O!Fds : fds[q][c] = fds[q][d] => c = d
      BY <1>2, <3>1, <3>2
    <3> QED
      BY <3>3, <3>4
  <2> QED
    BY <2>1, <2>2
<1>5. Descriptors(o, fds, live)
  BY <1>4, Zenon DEF Descriptors
<1> QED
  BY <1>1, <1>5

(* Clearing an entry that only descriptor n of p may lead to, and that     *)
(* descriptor with it.                                                     *)
LEMMA TakeDescriptor ==
  ASSUME oft \in Tables, fd \in FdLists, live \subseteq Pids, Descriptors(oft, fd, live),
         NEW p \in Pids, NEW n \in O!Fds, NEW e \in O!Entries,
         \A q \in live, d \in O!Fds : fd[q][d] = e => q = p /\ d = n
  PROVE  Descriptors([oft EXCEPT ![e] = O!NoEntry], [fd EXCEPT ![p][n] = 0], live)
<1>1. PICK o, fds : o = [oft EXCEPT ![e] = O!NoEntry] /\ fds = [fd EXCEPT ![p][n] = 0]
  OBVIOUS
<1>2. /\ fds[p][n] = 0
      /\ \A q \in Pids, d \in O!Fds : q # p \/ d # n => fds[q][d] = fd[q][d]
      /\ \A q \in Pids, d \in O!Fds : fd[q][d] \in O!Entries \union {0}
      /\ \A x \in O!Entries \ {e} : o[x] = oft[x]
  BY <1>1 DEF FdLists, Tables
<1>3. ASSUME NEW q \in live, NEW d \in O!Fds, fds[q][d] # 0
      PROVE  /\ o[fds[q][d]].openedByPid = q
             /\ \A c \in O!Fds : fds[q][c] = fds[q][d] => c = d
  <2>1. fds[q][d] = fd[q][d] /\ fd[q][d] \in O!Entries \ {e}
    BY <1>2, <1>3
  <2>2. oft[fd[q][d]].openedByPid = q /\ \A c \in O!Fds : fd[q][c] = fd[q][d] => c = d
    BY <1>3, <2>1 DEF Descriptors
  <2>3. o[fds[q][d]].openedByPid = q
    BY <1>2, <2>1, <2>2
  <2>4. \A c \in O!Fds : fds[q][c] = fds[q][d] => c = d
    BY <1>2, <1>3, <2>1, <2>2
  <2> QED
    BY <2>3, <2>4
<1>4. Descriptors(o, fds, live)
  BY <1>3, Zenon DEF Descriptors
<1> QED
  BY <1>1, <1>4

(* One lemma for each kind of call: the types of the tables, and the       *)
(* descriptors.                                                            *)
FilesTyped == oft \in Tables /\ fd \in FdLists /\ nextFd \in [Pids -> 0 .. MAX_FILE_DESCRIPTORS]

LEMMA FilesTypes == (FilesTyped <=> O!TypeOK) /\ (FilesTyped' <=> O!TypeOK')
BY DEF FilesTyped, O!TypeOK, Tables, FdLists

LEMMA FdTypes ==
  ASSUME fd \in FdLists, NEW p \in Pids, NEW n \in O!Fds, NEW v \in O!Entries \union {0}
  PROVE  /\ [fd EXCEPT ![p][n] = v] \in FdLists
         /\ [fd EXCEPT ![p][n] = v][p][n] = v
         /\ \A q \in Pids, d \in O!Fds :
              q # p \/ d # n => [fd EXCEPT ![p][n] = v][q][d] = fd[q][d]
BY DEF FdLists

FilesInv == FilesTyped /\ live \subseteq Pids /\ DescriptorsInv

LEMMA TypesOfFiles == TypeOK => FilesTyped /\ live \subseteq Pids
BY FilesTypes DEF TypeOK

LEMMA OpenFiles ==
  ASSUME TypeOK, DescriptorsInv, NEW p \in live, NEW i \in Files, NEW mode, NEW e \in O!Entries,
         O!sysOpen(p, i, mode, e), live' = live
  PROVE  FilesInv'
<1>1. FilesTyped /\ p \in Pids /\ nextFd[p] >= STD /\ live \subseteq Pids
  BY TypesOfFiles DEF DescriptorsInv
<1>2. /\ nextFd[p] \in O!Fds /\ Gives(oft', e, p, i)
      /\ fd' = [fd EXCEPT ![p][nextFd[p]] = e]
      /\ nextFd' = [nextFd EXCEPT ![p] = @ + 1] /\ nextFd[p] + 1 \in 0 .. MAX_FILE_DESCRIPTORS
  BY <1>1, OpenEffect
<1>3. FilesTyped'
  BY <1>1, <1>2, FdTypes DEF FilesTyped, Gives
<1>4. Descriptors(oft', fd', live')
  BY <1>1, <1>2, GiveDescriptor DEF FilesTyped, DescriptorsInv
<1>5. PICK n \in 0 .. MAX_FILE_DESCRIPTORS : n = nextFd[p]
  BY <1>1 DEF FilesTyped
<1>6. n + 1 >= STD /\ n + 1 # 0
  BY <1>1, <1>5, SMT DEF STD
<1>7. \A q \in Pids : nextFd'[q] = IF q = p THEN n + 1 ELSE nextFd[q]
  BY <1>1, <1>2, <1>5 DEF FilesTyped
<1>8. \A q \in live' : nextFd'[q] >= STD
  BY <1>1, <1>6, <1>7 DEF DescriptorsInv
<1>9. ASSUME NEW q \in Pids, nextFd'[q] = 0, NEW d \in O!Fds PROVE fd'[q][d] = 0
  BY <1>1, <1>2, <1>6, <1>7, <1>9, FdTypes DEF DescriptorsInv, FilesTyped
<1> QED
  BY <1>1, <1>3, <1>4, <1>8, <1>9 DEF DescriptorsInv, FilesInv

LEMMA OpenEmptyFiles ==
  ASSUME TypeOK, DescriptorsInv, NEW p \in live, NEW e \in O!Entries,
         O!sysOpenEmpty(p, e), live' = live
  PROVE  FilesInv'
<1>1. FilesTyped /\ p \in Pids /\ nextFd[p] >= STD /\ live \subseteq Pids
  BY TypesOfFiles DEF DescriptorsInv
<1>2. PICK n \in O!Fds :
        /\ n = nextFd[p] /\ Owner(e) = 0 /\ nextFd' = nextFd
        /\ \/ Gives(oft', e, p, O!EMPTY_FILE) /\ fd' = [fd EXCEPT ![p][n] = e]
           \/ oft' = [oft EXCEPT ![e] = O!NoEntry] /\ fd' = [fd EXCEPT ![p][n] = 0]
  BY <1>1, OpenEmptyEffect
<1>3. FilesTyped' /\ Descriptors(oft', fd', live')
  <2>1. CASE Gives(oft', e, p, O!EMPTY_FILE) /\ fd' = [fd EXCEPT ![p][n] = e]
    BY <1>1, <1>2, <2>1, FdTypes, GiveDescriptor DEF FilesTyped, Gives, DescriptorsInv
  <2>2. CASE oft' = [oft EXCEPT ![e] = O!NoEntry] /\ fd' = [fd EXCEPT ![p][n] = 0]
    <3>1. \A q \in live, d \in O!Fds : fd[q][d] # e
      BY <1>1, <1>2 DEF DescriptorsInv, Descriptors, Owner
    <3>2. oft' \in Tables
      BY <1>1, <2>2, EntryFields DEF FilesTyped, Tables
    <3>3. fd' \in FdLists
      BY <1>1, <2>2, FdTypes DEF FilesTyped
    <3>4. Descriptors([oft EXCEPT ![e] = O!NoEntry], [fd EXCEPT ![p][n] = 0], live)
      BY <1>1, <3>1, TakeDescriptor DEF FilesTyped, DescriptorsInv
    <3> QED
      BY <1>1, <1>2, <2>2, <3>2, <3>3, <3>4 DEF FilesTyped
  <2> QED
    BY <1>2, <2>1, <2>2
<1>4. fd' \in FdLists /\ \A q \in Pids, d \in O!Fds : q # p => fd'[q][d] = fd[q][d]
  <2>1. PICK v \in O!Entries \union {0} : fd' = [fd EXCEPT ![p][n] = v]
    BY <1>2
  <2>2. fd \in FdLists
    BY <1>1 DEF FilesTyped
  <2>3. /\ [fd EXCEPT ![p][n] = v] \in FdLists
        /\ \A q \in Pids, d \in O!Fds :
             q # p \/ d # n => [fd EXCEPT ![p][n] = v][q][d] = fd[q][d]
    BY <1>1, <1>2, <2>2, FdTypes
  <2> QED
    BY <2>1, <2>3
<1>5. nextFd[p] # 0
  BY <1>1, SMT DEF FilesTyped, STD
<1>6. \A q \in Pids : nextFd'[q] = 0 => \A d \in O!Fds : fd'[q][d] = 0
  BY <1>1, <1>2, <1>4, <1>5 DEF DescriptorsInv
<1> QED
  BY <1>1, <1>2, <1>3, <1>6 DEF DescriptorsInv, FilesInv

LEMMA CloseFiles ==
  ASSUME TypeOK, DescriptorsInv, NEW p \in live, NEW d \in O!Fds, O!sysClose(p, d), live' = live
  PROVE  FilesInv'
<1>1. FilesTyped /\ p \in Pids /\ nextFd[p] >= STD /\ live \subseteq Pids
  BY TypesOfFiles DEF DescriptorsInv
<1>2. nextFd' = nextFd
  BY <1>1, CloseEffect
<1>3. CASE oft' = oft /\ fd' = fd
  BY <1>1, <1>2, <1>3 DEF FilesTyped, DescriptorsInv, FilesInv
<1>4. ASSUME NEW e \in O!Entries, e = fd[p][d], oft' = [oft EXCEPT ![e] = O!NoEntry],
             fd' = [fd EXCEPT ![p][d] = 0]
      PROVE  FilesInv'
  <2>1. \A q \in live, c \in O!Fds : fd[q][c] = e => q = p /\ c = d
    BY <1>4 DEF DescriptorsInv, Descriptors
  <2>2. oft' \in Tables
    BY <1>1, <1>4, EntryFields DEF FilesTyped, Tables
  <2>3. FilesTyped'
    BY <1>1, <1>2, <1>4, <2>2, FdTypes DEF FilesTyped
  <2>4. Descriptors([oft EXCEPT ![e] = O!NoEntry], [fd EXCEPT ![p][d] = 0], live)
    BY <1>1, <2>1, TakeDescriptor DEF FilesTyped, DescriptorsInv
  <2>5. nextFd[p] # 0
    BY <1>1, SMT DEF FilesTyped, STD
  <2>6. \A q \in Pids : nextFd'[q] = 0 => \A c \in O!Fds : fd'[q][c] = 0
    BY <1>1, <1>2, <1>4, <2>5, FdTypes DEF DescriptorsInv, FilesTyped
  <2> QED
    BY <1>1, <1>2, <1>4, <2>3, <2>4, <2>6 DEF DescriptorsInv, FilesInv
<1> QED
  BY <1>1, <1>3, <1>4, CloseEffect

LEMMA ExitFiles ==
  ASSUME TypeOK, DescriptorsInv, NEW p \in live, O!CloseProcessFiles(p), live' = live \ {p}
  PROVE  FilesInv'
<1>1. FilesTyped /\ p \in Pids /\ live \subseteq Pids
  BY TypesOfFiles
<1>2. /\ oft' = [e \in O!Entries |-> IF Owner(e) = p THEN O!NoEntry ELSE oft[e]]
      /\ fd' = fd /\ nextFd' = nextFd
  BY DEF O!CloseProcessFiles, O!closeAllFiles, Owner
<1>3. oft' \in Tables
  BY <1>1, <1>2, EntryFields DEF FilesTyped, Tables
<1>4. ASSUME NEW q \in live', NEW d \in O!Fds, fd'[q][d] # 0
      PROVE  /\ oft'[fd'[q][d]].openedByPid = q
             /\ \A c \in O!Fds : fd'[q][c] = fd'[q][d] => c = d
  <2>1. PICK x \in O!Entries : x = fd[q][d]
    BY <1>1, <1>2, <1>4 DEF FilesTyped, FdLists
  <2>2. Owner(x) = q /\ q # p /\ \A c \in O!Fds : fd[q][c] = x => c = d
    BY <1>2, <1>4, <2>1 DEF DescriptorsInv, Descriptors, Owner
  <2>3. oft'[x].openedByPid = q
    BY <1>2, <2>2 DEF Owner
  <2> QED
    BY <1>2, <2>1, <2>2, <2>3
<1>5. Descriptors(oft', fd', live')
  BY <1>4, Zenon DEF Descriptors
<1> QED
  BY <1>1, <1>2, <1>3, <1>5 DEF DescriptorsInv, FilesInv, FilesTyped

LEMMA RunFiles ==
  ASSUME TypeOK, DescriptorsInv, NEW p \in Pids \ live, nextFd[p] = 0, O!NewTaskFiles(p),
         live' = live \union {p}
  PROVE  FilesInv'
<1>1. FilesTyped /\ live \subseteq Pids
  BY TypesOfFiles
<1>2. nextFd' = [nextFd EXCEPT ![p] = STD] /\ oft' = oft /\ fd' = fd
  BY DEF O!NewTaskFiles, O!STD, STD
<1>3. \A q \in Pids : nextFd'[q] = IF q = p THEN STD ELSE nextFd[q]
  BY <1>1, <1>2 DEF FilesTyped
<1>4. FilesTyped'
  BY <1>1, <1>2 DEF FilesTyped
<1>5. Descriptors(oft', fd', live')
  BY <1>1, <1>2 DEF DescriptorsInv, Descriptors
<1>6. STD >= STD /\ STD # 0
  BY SMT DEF STD
<1> QED
  BY <1>1, <1>2, <1>3, <1>4, <1>5, <1>6 DEF DescriptorsInv, FilesInv

LEMMA FreeFiles ==
  ASSUME TypeOK, DescriptorsInv, O!ZeroTaskFiles(Pids \ live), live' = live
  PROVE  FilesInv'
<1>1. FilesTyped /\ live \subseteq Pids
  BY TypesOfFiles
<1>2. /\ fd' = [q \in Pids |-> IF q \in Pids \ live THEN O!NoFds ELSE fd[q]]
      /\ nextFd' = [q \in Pids |-> IF q \in Pids \ live THEN 0 ELSE nextFd[q]]
      /\ oft' = oft
  BY DEF O!ZeroTaskFiles
<1>3. O!NoFds \in [O!Fds -> O!Entries \union {0}] /\ \A d \in O!Fds : O!NoFds[d] = 0
  BY DEF O!NoFds
<1>4. FilesTyped'
  BY <1>1, <1>2, <1>3 DEF FilesTyped, FdLists
<1>5. \A q \in live : fd'[q] = fd[q] /\ nextFd'[q] = nextFd[q]
  BY <1>1, <1>2
<1>6. Descriptors(oft', fd', live')
  BY <1>2, <1>5 DEF DescriptorsInv, Descriptors
<1>7. \A q \in Pids : nextFd'[q] = 0 => \A d \in O!Fds : fd'[q][d] = 0
  BY <1>2, <1>3 DEF DescriptorsInv
<1> QED
  BY <1>1, <1>4, <1>5, <1>6, <1>7 DEF DescriptorsInv, FilesInv

LEMMA KeptFiles ==
  ASSUME TypeOK, DescriptorsInv, UNCHANGED <<oft, fd, nextFd>>, live' = live
  PROVE  FilesInv'
BY TypesOfFiles DEF DescriptorsInv, FilesInv, FilesTyped

-----------------------------------------------------------------------------
(* The directory.                                                          *)
DirEntry == [name : Names, inode : Files]
DirTyped == dir \in Seq(DirEntry) /\ lastInode \in Files

Without(k) == SubSeq(dir, 1, k - 1) \o SubSeq(dir, k + 1, Len(dir))

(* What a command may do to it: nothing, add a file, or remove an entry.   *)
DirStep ==
  \/ UNCHANGED disk
  \/ \E name \in Names : createFile(name)
  \/ \E name \in Names, k \in DOMAIN dir :
       IsFirst(k, Places(name)) /\ dir' = Without(k) /\ lastInode' = lastInode

LEMMA HasFirst ==
  ASSUME NEW S \in SUBSET Nat, S # {}
  PROVE  \E n \in S : IsFirst(n, S)
<1>1. PICK R : R = OpToRel(<, Nat)
  OBVIOUS
<1>2. \A m, n \in Nat : m < n => <<m, n>> \in R
  BY <1>1 DEF OpToRel
<1>3. PICK n \in S : \A m \in S : ~(<<m, n>> \in R)
  BY <1>1, NatLessThanWellFounded, WFMin
<1>4. ASSUME NEW m \in S PROVE n <= m
  <2>1. m \in Nat /\ n \in Nat
    OBVIOUS
  <2>2. ~(m < n)
    BY <1>2, <1>3, <2>1, Zenon
  <2> QED
    BY <2>1, <2>2
<1> QED
  BY <1>3, <1>4 DEF IsFirst

LEMMA FirstPlace ==
  ASSUME DirTyped, NEW name, Places(name) # {}
  PROVE  \E k \in DOMAIN dir : /\ IsFirst(k, Places(name)) /\ dir[k].name = name
                               /\ returnInodeofFileName(name) = dir[k].inode
<1>1. Places(name) \in SUBSET Nat
  BY DEF Places, DirTyped
<1>2. \E k \in Places(name) : IsFirst(k, Places(name))
  BY <1>1, HasFirst
<1>3. PICK k : k = CHOOSE j \in Places(name) : IsFirst(j, Places(name))
  OBVIOUS
<1>4. k \in Places(name) /\ IsFirst(k, Places(name))
  BY <1>2, <1>3, Zenon
<1>5. returnInodeofFileName(name) = dir[k].inode
  BY <1>3, Zenon DEF returnInodeofFileName
<1> QED
  BY <1>4, <1>5 DEF Places

LEMMA InodeOfName ==
  ASSUME DirTyped, NEW name
  PROVE  returnInodeofFileName(name) \in Files \union {0}
<1>1. CASE Places(name) = {}
  BY <1>1 DEF returnInodeofFileName
<1>2. CASE Places(name) # {}
  <2>1. PICK k \in DOMAIN dir : returnInodeofFileName(name) = dir[k].inode
    BY <1>2, FirstPlace
  <2>2. dir[k] \in DirEntry
    BY <2>1 DEF DirTyped
  <2> QED
    BY <2>1, <2>2 DEF DirEntry
<1> QED
  BY <1>1, <1>2

(* The entries before k stay where they are, those behind it move up.      *)
LEMMA WithoutEntry ==
  ASSUME DirTyped, NEW k \in DOMAIN dir, NEW d, d = Without(k)
  PROVE  /\ d \in Seq(DirEntry) /\ Len(d) = Len(dir) - 1
         /\ \A j \in DOMAIN d : d[j] = IF j < k THEN dir[j] ELSE dir[j + 1]
         /\ \A j \in DOMAIN d : j \in DOMAIN dir /\ j + 1 \in DOMAIN dir /\ j \in Nat
<1>1. dir \in Seq(DirEntry) /\ k \in 1 .. Len(dir) /\ Len(dir) \in Nat
  BY DEF DirTyped
<1>2. PICK a, b : a = SubSeq(dir, 1, k - 1) /\ b = SubSeq(dir, k + 1, Len(dir))
  OBVIOUS
<1>3. a \in Seq(DirEntry) /\ Len(a) = k - 1 /\ \A j \in 1 .. (k - 1) : a[j] = dir[j]
  BY <1>1, <1>2
<1>4. b \in Seq(DirEntry) /\ Len(b) = Len(dir) - k /\ \A j \in 1 .. (Len(dir) - k) : b[j] = dir[k + j]
  BY <1>1, <1>2
<1>5. d = a \o b
  BY <1>2 DEF Without
<1>6. d \in Seq(DirEntry) /\ Len(d) = Len(dir) - 1
  BY <1>1, <1>3, <1>4, <1>5
<1>7. ASSUME NEW j \in DOMAIN d
      PROVE  /\ d[j] = IF j < k THEN dir[j] ELSE dir[j + 1]
             /\ j \in DOMAIN dir /\ j + 1 \in DOMAIN dir /\ j \in Nat
  <2>1. j \in 1 .. (Len(dir) - 1)
    BY <1>6
  <2>2. CASE j < k
    BY <1>1, <1>3, <1>4, <1>5, <2>1, <2>2
  <2>3. CASE ~(j < k)
    <3>1. j - (k - 1) \in 1 .. (Len(dir) - k) /\ k + (j - (k - 1)) = j + 1
      BY <1>1, <2>1, <2>3
    <3>2. d[j] = b[j - (k - 1)]
      BY <1>1, <1>3, <1>4, <1>5, <2>1, <2>3
    <3>3. d[j] = dir[j + 1]
      BY <1>4, <3>1, <3>2
    <3>4. j \in DOMAIN dir /\ j + 1 \in DOMAIN dir /\ j \in Nat
      BY <1>1, <2>1
    <3> QED
      BY <2>3, <3>3, <3>4
  <2> QED
    BY <2>2, <2>3
<1> QED
  BY <1>6, <1>7

LEMMA DirTypes == ASSUME DirTyped, DirStep PROVE DirTyped'
<1>1. CASE UNCHANGED disk
  BY <1>1 DEF disk, DirTyped
<1>2. ASSUME NEW name \in Names, createFile(name) PROVE DirTyped'
  <2>1. lastInode \in Files /\ lastInode < MaxFiles /\ lastInode' = lastInode + 1
    BY <1>2 DEF createFile, DirTyped
  <2>2. lastInode + 1 \in Files
    BY <2>1, FileNumbers
  <2>3. [name |-> name, inode |-> lastInode + 1] \in DirEntry
    BY <2>2 DEF DirEntry
  <2>4. dir' = Append(dir, [name |-> name, inode |-> lastInode + 1])
    BY <1>2 DEF createFile, allocateInode
  <2> QED
    BY <2>1, <2>2, <2>3, <2>4 DEF DirTyped
<1>3. ASSUME NEW k \in DOMAIN dir, dir' = Without(k), lastInode' = lastInode PROVE DirTyped'
  BY <1>3, WithoutEntry DEF DirTyped
<1> QED
  BY <1>1, <1>2, <1>3 DEF DirStep

-----------------------------------------------------------------------------
(* The buffers.                                                            *)
Statuses == {"running", "panic", "fault", "stray"}

BuffersTyped ==
  /\ buffer \in [O!Entries -> Pages \union {0}]
  /\ fileName \in [O!Entries -> Names \union {NoName}]
  /\ buffers \in [Slots -> Pages \union {0}] /\ currentFd \in Slots
  /\ mapped \in [Pids -> SUBSET Pages]
  /\ onScreen \in [Pids -> BOOLEAN] /\ shown \in [Pids -> Pages \union {0}]
  /\ opener \in Pids \union {0} /\ storer \in [Slots -> Pids \union {0}]
  /\ Shell \in live /\ status \in Statuses

LEMMA TypeParts ==
  /\ TypeOK <=> FilesTyped /\ live \subseteq Pids /\ DirTyped /\ BuffersTyped
  /\ TypeOK' <=> (FilesTyped /\ live \subseteq Pids /\ DirTyped /\ BuffersTyped)'
<1>1. TypeOK <=> FilesTyped /\ live \subseteq Pids /\ DirTyped /\ BuffersTyped
  BY FilesTypes, Zenon DEF TypeOK, DirTyped, DirEntry, BuffersTyped, Statuses
<1>2. TypeOK' <=> (FilesTyped /\ live \subseteq Pids /\ DirTyped /\ BuffersTyped)'
  BY FilesTypes, Zenon DEF TypeOK, DirTyped, DirEntry, BuffersTyped, Statuses
<1> QED
  BY <1>1, <1>2

(* Who stored last in a slot, or opened last, is still there; a descriptor *)
(* in currentFd is one of a file; and the shell has no contents shown.     *)
StorersInv ==
  /\ opener \in live \union {0} /\ (opener # 0 => currentFd \in O!Fds)
  /\ \A d \in Slots : storer[d] \in live \union {0}
  /\ ~onScreen[Shell]

BufferInv == TypeOK /\ DescriptorsInv /\ StorersInv /\ SlotsOfTheirStorer /\ InsertGoesWhereShown

LEMMA SetEntryEffect ==
  ASSUME BuffersTyped, NEW e, NEW name \in Names \union {NoName}, NEW page \in Pages \union {0},
         SetEntry(e, name, page)
  PROVE  /\ buffer' \in [O!Entries -> Pages \union {0}]
         /\ fileName' \in [O!Entries -> Names \union {NoName}]
         /\ \A x \in O!Entries : oft'[x].openedByPid # 0 =>
              /\ buffer'[x] = IF x = e THEN page ELSE buffer[x]
              /\ fileName'[x] = IF x = e THEN name ELSE fileName[x]
<1>1. /\ buffer' = [x \in O!Entries |-> IF oft'[x].openedByPid = 0 THEN 0
                                        ELSE IF x = e THEN page ELSE buffer[x]]
      /\ fileName' = [x \in O!Entries |-> IF oft'[x].openedByPid = 0 THEN NoName
                                          ELSE IF x = e THEN name ELSE fileName[x]]
  BY Zenon DEF SetEntry
<1>2. buffer' \in [O!Entries -> Pages \union {0}]
  BY <1>1 DEF BuffersTyped
<1>3. fileName' \in [O!Entries -> Names \union {NoName}]
  BY <1>1 DEF BuffersTyped
<1> QED
  BY <1>1, <1>2, <1>3

(* After a step that writes entry e, every other entry that a descriptor   *)
(* leads to has the buffer it had.                                         *)
BuffersKept(e, page) ==
  \A q \in live', d \in O!Fds :
    fd'[q][d] # 0 => /\ fd'[q][d] = e => buffer'[fd'[q][d]] = page
                     /\ fd'[q][d] # e => buffer'[fd'[q][d]] = buffer[fd'[q][d]]

LEMMA KeptBuffer ==
  ASSUME BuffersTyped, FilesInv', NEW e, NEW name \in Names \union {NoName},
         NEW page \in Pages \union {0}, SetEntry(e, name, page)
  PROVE  BuffersKept(e, page)
<1>0. \A x \in O!Entries :
        oft'[x].openedByPid # 0 => buffer'[x] = IF x = e THEN page ELSE buffer[x]
  BY SetEntryEffect
<1>1. ASSUME NEW q \in live', NEW d \in O!Fds, fd'[q][d] # 0
      PROVE  /\ fd'[q][d] = e => buffer'[fd'[q][d]] = page
             /\ fd'[q][d] # e => buffer'[fd'[q][d]] = buffer[fd'[q][d]]
  <2>1. q \in Pids /\ fd' \in FdLists
    BY DEF FilesInv, FilesTyped
  <2>2. PICK x \in O!Entries : x = fd'[q][d]
    BY <1>1, <2>1 DEF FdLists
  <2>3. oft'[x].openedByPid = q
    BY <1>1, <2>2 DEF FilesInv, DescriptorsInv, Descriptors
  <2>4. buffer'[x] = IF x = e THEN page ELSE buffer[x]
    BY <1>0, <2>1, <2>3
  <2> QED
    BY <2>2, <2>4
<1> QED
  BY <1>1, Zenon DEF BuffersKept

(* An open of process p in its descriptor n, successful (fd'[p][n] = e) or *)
(* closed again, and what it stores in the shared table.                   *)
LEMMA ShareSlots ==
  ASSUME BufferInv, FilesInv', live' = live, NEW p \in live, NEW n \in O!Fds,
         NEW e \in O!Entries, Owner(e) = 0, NEW name \in Names, NEW page \in Pages,
         SetEntry(e, name, page),
         buffers' = [buffers EXCEPT ![n] = page], storer' = [storer EXCEPT ![n] = p],
         mapped' = [mapped EXCEPT ![p] = @ \union {page}],
         fd'[p][n] \in {0, e},
         \A q \in Pids, d \in O!Fds : q # p \/ d # n => fd'[q][d] = fd[q][d]
  PROVE  SlotsOfTheirStorer'
<1>1. BuffersTyped /\ p \in Pids /\ live \subseteq Pids
  BY TypeParts DEF BufferInv
<1>2. buffers'[n] = page /\ \A d \in O!Fds \ {n} : buffers'[d] = buffers[d] /\ storer'[d] = storer[d]
  BY <1>1 DEF BuffersTyped
<1>3. page \in mapped'[p] /\ \A q \in Pids : mapped[q] \subseteq mapped'[q]
  BY <1>1 DEF BuffersTyped
<1>4. storer'[n] = p
  BY <1>1 DEF BuffersTyped
<1>5. BuffersKept(e, page)
  BY <1>1, KeptBuffer
<1>6. ASSUME NEW q \in live', NEW d \in O!Fds, storer'[d] = q
      PROVE  buffers'[d] \in mapped'[q] /\ (fd'[q][d] # 0 => buffer'[fd'[q][d]] = buffers'[d])
  <2>1. CASE d = n
    <3>1. q = p
      BY <1>4, <1>6, <2>1
    <3>2. fd'[p][n] # 0 => buffer'[fd'[p][n]] = page
      BY <1>5, <2>1 DEF BuffersKept
    <3> QED
      BY <1>2, <1>3, <2>1, <3>1, <3>2
  <2>2. CASE d # n
    <3>1. storer[d] = q /\ buffers'[d] = buffers[d] /\ fd'[q][d] = fd[q][d] /\ q \in live /\ q \in Pids
      BY <1>1, <1>2, <1>6, <2>2
    <3>2. buffers[d] \in mapped[q] /\ (fd[q][d] # 0 => buffer[fd[q][d]] = buffers[d])
      BY <3>1 DEF BufferInv, SlotsOfTheirStorer
    <3>3. ASSUME fd'[q][d] # 0 PROVE buffer'[fd'[q][d]] = buffers'[d]
      <4>1. fd[q][d] # e
        BY <3>1, <3>3 DEF BufferInv, DescriptorsInv, Descriptors, Owner
      <4>2. fd'[q][d] # e => buffer'[fd'[q][d]] = buffer[fd'[q][d]]
        BY <1>5, <3>3 DEF BuffersKept
      <4> QED
        BY <3>1, <3>2, <3>3, <4>1, <4>2
    <3> QED
      BY <1>3, <3>1, <3>2, <3>3
  <2> QED
    BY <2>1, <2>2
<1> QED
  BY <1>6, Zenon DEF SlotsOfTheirStorer

LEMMA OpenBuffers ==
  ASSUME BufferInv, NEW p \in Pids, NEW name \in Names, NEW mode \in O!Modes,
         NEW inodePage \in Pages, NEW page \in Pages, NEW e \in O!Entries,
         open(p, name, mode, e, inodePage, page)
  PROVE  BufferInv'
<1>1. /\ p \in live /\ p # Shell /\ live' = live /\ status = "running"
      /\ dir' = dir /\ lastInode' = lastInode
  BY DEF open, Editing, Running, disk
<1>2. FilesTyped /\ live \subseteq Pids /\ DirTyped /\ BuffersTyped
  BY TypeParts DEF BufferInv
<1>3. PICK i \in Files : i = returnInodeofFileName(name)
  BY <1>2, InodeOfName DEF open
<1>4. O!sysOpen(p, i, mode, e) /\ SetEntry(e, name, page)
  BY <1>3 DEF open
<1>5. nextFd[p] >= STD
  BY <1>1 DEF BufferInv, DescriptorsInv
<1>6. FilesInv'
  BY <1>1, <1>4, OpenFiles DEF BufferInv
<1>7. PICK n \in O!Fds : n = nextFd[p] /\ Gives(oft', e, p, i) /\ fd' = [fd EXCEPT ![p][n] = e]
  BY <1>4, <1>5, OpenEffect DEF BufferInv
<1>8. /\ currentFd' = n /\ buffers' = [buffers EXCEPT ![n] = page]
      /\ opener' = p /\ storer' = [storer EXCEPT ![n] = p]
      /\ mapped' = [mapped EXCEPT ![p] = @ \union {page}]
  BY <1>7 DEF open, Share, Slot
<1>9. n \in Slots /\ buffers'[n] = page
  BY <1>2, <1>8 DEF BuffersTyped
<1>10. /\ shown' = [shown EXCEPT ![p] = page] /\ status' \in Statuses
       /\ onScreen' = [onScreen EXCEPT ![p] = TRUE] \/ onScreen' = onScreen
  BY <1>1, <1>8, <1>9 DEF open, AfterOpen, printBufferToScreen, Statuses
<1>11. /\ fd'[p][n] = e
       /\ \A q \in Pids, d \in O!Fds : q # p \/ d # n => fd'[q][d] = fd[q][d]
  BY <1>2, <1>7, FdTypes DEF FilesTyped
<1>12. BuffersTyped'
  <2>1. /\ buffer' \in [O!Entries -> Pages \union {0}]
        /\ fileName' \in [O!Entries -> Names \union {NoName}]
    BY <1>2, <1>4, SetEntryEffect
  <2>2. buffers' \in [Slots -> Pages \union {0}] /\ storer' \in [Slots -> Pids \union {0}]
    BY <1>2, <1>8 DEF BuffersTyped
  <2>3. mapped' \in [Pids -> SUBSET Pages]
    BY <1>2, <1>8 DEF BuffersTyped
  <2>4. onScreen' \in [Pids -> BOOLEAN] /\ shown' \in [Pids -> Pages \union {0}]
    BY <1>2, <1>10 DEF BuffersTyped
  <2> QED
    BY <1>1, <1>2, <1>8, <1>9, <1>10, <2>1, <2>2, <2>3, <2>4 DEF BuffersTyped
<1>13. TypeOK'
  BY <1>1, <1>2, <1>6, <1>12, TypeParts DEF FilesInv, DirTyped
<1>14. SlotsOfTheirStorer'
  BY <1>1, <1>4, <1>6, <1>7, <1>8, <1>11, ShareSlots DEF Gives
<1>15. StorersInv'
  <2>1. \A d \in Slots : storer'[d] \in {p, storer[d]}
    BY <1>2, <1>8 DEF BuffersTyped
  <2>2. onScreen'[Shell] = onScreen[Shell]
    BY <1>1, <1>2, <1>10 DEF BuffersTyped
  <2> QED
    BY <1>1, <1>7, <1>8, <2>1, <2>2 DEF BufferInv, StorersInv
<1>16. InsertGoesWhereShown'
  <2>0. BuffersKept(e, page)
    BY <1>2, <1>4, <1>6, KeptBuffer
  <2>1. buffer'[e] = page /\ e # 0
    BY <1>1, <1>11, <2>0 DEF BuffersKept
  <2>2. shown'[p] = page
    BY <1>2, <1>10 DEF BuffersTyped
  <2>3. /\ buffers'[currentFd'] = shown'[p]
        /\ fd'[p][currentFd'] # 0 /\ buffer'[fd'[p][currentFd']] = shown'[p]
    BY <1>8, <1>9, <1>11, <2>1, <2>2
  <2> QED
    BY <1>8, <2>3 DEF InsertGoesWhereShown
<1> QED
  BY <1>6, <1>13, <1>14, <1>15, <1>16 DEF BufferInv, FilesInv

LEMMA OpenEmptyBuffers ==
  ASSUME BufferInv, NEW name \in Names, NEW e \in O!Entries, NEW page \in Pages,
         openEmpty(name, e, page)
  PROVE  BufferInv'
<1>1. FilesTyped /\ live \subseteq Pids /\ DirTyped /\ BuffersTyped /\ Shell \in live
  BY TypeParts DEF BufferInv, BuffersTyped
<1>2. /\ live' = live /\ onScreen' = onScreen /\ shown' = shown /\ status' = status
      /\ O!sysOpenEmpty(Shell, e) /\ SetEntry(e, name, page)
      /\ createFile(name)
  BY DEF openEmpty, editor
<1>3. nextFd[Shell] >= STD
  BY <1>1 DEF BufferInv, DescriptorsInv
<1>4. FilesInv'
  BY <1>1, <1>2, OpenEmptyFiles DEF BufferInv
<1>5. PICK n \in O!Fds :
        /\ n = nextFd[Shell] /\ Owner(e) = 0
        /\ fd' = [fd EXCEPT ![Shell][n] = e] \/ fd' = [fd EXCEPT ![Shell][n] = 0]
  BY <1>2, <1>3, OpenEmptyEffect DEF BufferInv
<1>6. /\ currentFd' = n /\ buffers' = [buffers EXCEPT ![n] = page]
      /\ opener' = Shell /\ storer' = [storer EXCEPT ![n] = Shell]
      /\ mapped' = [mapped EXCEPT ![Shell] = @ \union {page}]
  BY <1>5 DEF openEmpty, Share, Slot
<1>7. /\ fd'[Shell][n] \in {0, e}
      /\ \A q \in Pids, d \in O!Fds : q # Shell \/ d # n => fd'[q][d] = fd[q][d]
  <2>1. PICK v \in O!Entries \union {0} : v \in {0, e} /\ fd' = [fd EXCEPT ![Shell][n] = v]
    BY <1>5
  <2>2. fd \in FdLists
    BY <1>1 DEF FilesTyped
  <2>3. /\ [fd EXCEPT ![Shell][n] = v][Shell][n] = v
        /\ \A q \in Pids, d \in O!Fds :
             q # Shell \/ d # n => [fd EXCEPT ![Shell][n] = v][q][d] = fd[q][d]
    BY <1>5, <2>1, <2>2, FdTypes
  <2> QED
    BY <2>1, <2>3
<1>8. BuffersTyped'
  <2>1. /\ buffer' \in [O!Entries -> Pages \union {0}]
        /\ fileName' \in [O!Entries -> Names \union {NoName}]
    BY <1>1, <1>2, SetEntryEffect
  <2>2. buffers' \in [Slots -> Pages \union {0}] /\ storer' \in [Slots -> Pids \union {0}]
    BY <1>1, <1>6 DEF BuffersTyped
  <2>3. mapped' \in [Pids -> SUBSET Pages]
    BY <1>1, <1>6 DEF BuffersTyped
  <2> QED
    BY <1>1, <1>2, <1>6, <2>1, <2>2, <2>3 DEF BuffersTyped
<1>9. DirTyped'
  BY <1>1, <1>2, DirTypes DEF DirStep
<1>10. TypeOK'
  BY <1>4, <1>8, <1>9, TypeParts DEF FilesInv
<1>11. SlotsOfTheirStorer'
  BY <1>1, <1>2, <1>4, <1>5, <1>6, <1>7, ShareSlots
<1>12. StorersInv'
  <2>1. \A d \in Slots : storer'[d] \in {Shell, storer[d]}
    BY <1>1, <1>6 DEF BuffersTyped
  <2> QED
    BY <1>1, <1>2, <1>6, <2>1 DEF BufferInv, StorersInv
<1>13. InsertGoesWhereShown'
  BY <1>2, <1>6 DEF BufferInv, StorersInv, InsertGoesWhereShown
<1> QED
  BY <1>4, <1>10, <1>11, <1>12, <1>13 DEF BufferInv, FilesInv

(* The other steps store nothing in the shared table.                      *)
BuffersSame ==
  \A q \in live', d \in O!Fds : fd'[q][d] # 0 => buffer'[fd'[q][d]] = buffer[fd'[q][d]]

LEMMA ClearedBuffers == ASSUME BuffersTyped, FilesInv', ClearEntries PROVE BuffersSame
<1>1. BuffersKept(0, 0)
  BY KeptBuffer DEF ClearEntries
<1> QED
  BY <1>1, Zenon DEF BuffersKept, BuffersSame

LEMMA SameBuffers ==
  ASSUME BuffersTyped, FilesInv', UNCHANGED buffer PROVE BuffersSame
BY DEF BuffersSame

LEMMA SameSlots ==
  ASSUME BufferInv, BuffersSame, UNCHANGED buffers, live' \subseteq Pids,
         \A q \in live', d \in O!Fds : storer'[d] = q =>
           storer[d] = q /\ mapped[q] \subseteq mapped'[q] /\ fd'[q][d] \in {0, fd[q][d]}
  PROVE  SlotsOfTheirStorer'
<1>1. ASSUME NEW q \in live', NEW d \in O!Fds, storer'[d] = q
      PROVE  buffers'[d] \in mapped'[q] /\ (fd'[q][d] # 0 => buffer'[fd'[q][d]] = buffers'[d])
  <2>1. storer[d] = q /\ mapped[q] \subseteq mapped'[q] /\ fd'[q][d] \in {0, fd[q][d]} /\ d \in Slots
    BY <1>1
  <2>2. q \in live
    BY <2>1 DEF BufferInv, StorersInv
  <2>3. buffers[d] \in mapped[q] /\ (fd[q][d] # 0 => buffer[fd[q][d]] = buffers[d])
    BY <2>1, <2>2 DEF BufferInv, SlotsOfTheirStorer
  <2>4. fd'[q][d] # 0 => buffer'[fd'[q][d]] = buffer[fd[q][d]]
    BY <2>1 DEF BuffersSame
  <2> QED
    BY <2>1, <2>3, <2>4
<1> QED
  BY <1>1, Zenon DEF SlotsOfTheirStorer

LEMMA SameInsert ==
  ASSUME BufferInv, BuffersSame, UNCHANGED <<buffers, currentFd>>,
         \A q \in live' : onScreen'[q] /\ shown'[q] # 0 /\ opener' = q =>
           /\ q \in live /\ onScreen[q] /\ shown'[q] = shown[q] /\ opener = q
           /\ \A d \in O!Fds : fd'[q][d] = fd[q][d]
  PROVE  InsertGoesWhereShown'
<1>1. ASSUME NEW q \in live', onScreen'[q], shown'[q] # 0, opener' = q
      PROVE  /\ buffers'[currentFd'] = shown'[q]
             /\ fd'[q][currentFd'] # 0 /\ buffer'[fd'[q][currentFd']] = shown'[q]
  <2>1. /\ q \in live /\ onScreen[q] /\ shown'[q] = shown[q] /\ opener = q
        /\ \A d \in O!Fds : fd'[q][d] = fd[q][d]
    BY <1>1
  <2>2. q # 0 /\ currentFd \in O!Fds
    <3>1. live \subseteq Pids
      BY TypeParts DEF BufferInv
    <3> QED
      BY <2>1, <3>1 DEF BufferInv, StorersInv
  <2>3. /\ buffers[currentFd] = shown[q]
        /\ fd[q][currentFd] # 0 /\ buffer[fd[q][currentFd]] = shown[q]
    BY <1>1, <2>1 DEF BufferInv, InsertGoesWhereShown
  <2>4. fd'[q][currentFd] # 0 /\ buffer'[fd'[q][currentFd]] = buffer[fd[q][currentFd]]
    BY <2>1, <2>2, <2>3 DEF BuffersSame
  <2> QED
    BY <2>1, <2>2, <2>3, <2>4
<1> QED
  BY <1>1, Zenon DEF InsertGoesWhereShown

LEMMA CloseBuffers ==
  ASSUME BufferInv, NEW p \in Pids, NEW d \in O!Fds, close(p, d)
  PROVE  BufferInv'
<1>1. FilesTyped /\ live \subseteq Pids /\ DirTyped /\ BuffersTyped
  BY TypeParts DEF BufferInv
<1>2. /\ p \in live /\ p # Shell /\ live' = live /\ status' = status /\ shown' = shown
      /\ onScreen' = [onScreen EXCEPT ![p] = FALSE] /\ mapped' = mapped
      /\ UNCHANGED <<currentFd, buffers, opener, storer, dir, lastInode>>
      /\ O!sysClose(p, d) /\ ClearEntries
  BY DEF close, Editing, Running, shared, disk
<1>3. FilesInv'
  BY <1>2, CloseFiles DEF BufferInv
<1>4. \A q \in Pids, c \in O!Fds :
        fd'[q][c] \in {0, fd[q][c]} /\ (q # p => fd'[q][c] = fd[q][c])
  <2>1. fd' = fd \/ fd' = [fd EXCEPT ![p][d] = 0]
    BY <1>2, CloseEffect DEF BufferInv
  <2>2. fd \in FdLists
    BY <1>1 DEF FilesTyped
  <2>3. /\ [fd EXCEPT ![p][d] = 0][p][d] = 0
        /\ \A q \in Pids, c \in O!Fds : q # p \/ c # d => [fd EXCEPT ![p][d] = 0][q][c] = fd[q][c]
    BY <2>2 DEF FdLists
  <2> QED
    BY <2>1, <2>3
<1>5. BuffersSame
  BY <1>1, <1>2, <1>3, ClearedBuffers
<1>6. BuffersTyped'
  <2>1. /\ buffer' \in [O!Entries -> Pages \union {0}]
        /\ fileName' \in [O!Entries -> Names \union {NoName}]
    BY <1>1, <1>2, SetEntryEffect DEF ClearEntries
  <2> QED
    BY <1>1, <1>2, <2>1 DEF BuffersTyped
<1>7. TypeOK'
  BY <1>1, <1>2, <1>3, <1>6, TypeParts DEF FilesInv, DirTyped
<1>8. SlotsOfTheirStorer'
  BY <1>1, <1>2, <1>4, <1>5, SameSlots
<1>9. InsertGoesWhereShown'
  <2>1. \A q \in live' : onScreen'[q] => q # p /\ onScreen[q] /\ q \in Pids
    BY <1>1, <1>2 DEF BuffersTyped
  <2> QED
    BY <1>1, <1>2, <1>4, <1>5, <2>1, SameInsert
<1>10. StorersInv'
  BY <1>1, <1>2 DEF BufferInv, StorersInv, BuffersTyped
<1> QED
  BY <1>3, <1>7, <1>8, <1>9, <1>10 DEF BufferInv, FilesInv

LEMMA ExitBuffers ==
  ASSUME BufferInv, NEW p \in Pids, exit(p)
  PROVE  BufferInv'
<1>1. FilesTyped /\ live \subseteq Pids /\ DirTyped /\ BuffersTyped
  BY TypeParts DEF BufferInv
<1>2. /\ p \in live /\ p # Shell /\ live' = live \ {p} /\ status' = status
      /\ onScreen' = [onScreen EXCEPT ![p] = FALSE] /\ shown' = [shown EXCEPT ![p] = 0]
      /\ mapped' = [mapped EXCEPT ![p] = {}]
      /\ opener' = (IF opener = p THEN 0 ELSE opener)
      /\ storer' = [d \in Slots |-> IF storer[d] = p THEN 0 ELSE storer[d]]
      /\ UNCHANGED <<currentFd, buffers, dir, lastInode>>
      /\ O!CloseProcessFiles(p) /\ ClearEntries
  BY DEF exit, Editing, Running, disk
<1>3. FilesInv'
  BY <1>2, ExitFiles DEF BufferInv
<1>4. fd' = fd
  BY <1>2 DEF O!CloseProcessFiles
<1>5. BuffersSame
  BY <1>1, <1>2, <1>3, ClearedBuffers
<1>6. BuffersTyped'
  <2>1. /\ buffer' \in [O!Entries -> Pages \union {0}]
        /\ fileName' \in [O!Entries -> Names \union {NoName}]
    BY <1>1, <1>2, SetEntryEffect DEF ClearEntries
  <2>2. onScreen' \in [Pids -> BOOLEAN] /\ shown' \in [Pids -> Pages \union {0}]
        /\ mapped' \in [Pids -> SUBSET Pages]
    BY <1>1, <1>2 DEF BuffersTyped
  <2>3. opener' \in Pids \union {0} /\ storer' \in [Slots -> Pids \union {0}]
    BY <1>1, <1>2 DEF BuffersTyped
  <2> QED
    BY <1>1, <1>2, <2>1, <2>2, <2>3 DEF BuffersTyped
<1>7. TypeOK'
  BY <1>1, <1>2, <1>3, <1>6, TypeParts DEF FilesInv, DirTyped
<1>8. SlotsOfTheirStorer'
  <2>1. \A q \in live' : q \in Pids /\ q # 0 /\ mapped'[q] = mapped[q]
    BY <1>1, <1>2 DEF BuffersTyped
  <2>2. \A q \in live', d \in O!Fds : storer'[d] = q => storer[d] = q
    BY <1>2, <2>1
  <2> QED
    BY <1>1, <1>2, <1>4, <1>5, <2>1, <2>2, SameSlots
<1>9. InsertGoesWhereShown'
  <2>1. \A q \in live' : /\ q \in live /\ q # 0 /\ onScreen'[q] = onScreen[q] /\ shown'[q] = shown[q]
                         /\ (opener' = q => opener = q)
    BY <1>1, <1>2 DEF BuffersTyped
  <2> QED
    BY <1>2, <1>4, <1>5, <2>1, SameInsert
<1>10. StorersInv'
  <2>1. opener' \in live' \union {0} /\ (opener' # 0 => currentFd' \in O!Fds)
    BY <1>2 DEF BufferInv, StorersInv
  <2>2. \A d \in Slots : storer'[d] \in live' \union {0}
    BY <1>2 DEF BufferInv, StorersInv
  <2>3. ~onScreen'[Shell]
    BY <1>1, <1>2 DEF BufferInv, StorersInv, BuffersTyped
  <2> QED
    BY <2>1, <2>2, <2>3 DEF StorersInv
<1> QED
  BY <1>3, <1>7, <1>8, <1>9, <1>10 DEF BufferInv, FilesInv

LEMMA RunBuffers ==
  ASSUME BufferInv, NEW p \in Pids, run(p)
  PROVE  BufferInv'
<1>1. FilesTyped /\ live \subseteq Pids /\ DirTyped /\ BuffersTyped
  BY TypeParts DEF BufferInv
<1>2. /\ p \notin live /\ nextFd[p] = 0 /\ live' = live \union {p} /\ O!NewTaskFiles(p)
      /\ UNCHANGED <<buffer, fileName, shared, disk, mapped, editor>>
  BY DEF run
<1>3. FilesInv'
  BY <1>2, RunFiles DEF BufferInv
<1>4. fd' = fd
  BY <1>2 DEF O!NewTaskFiles
<1>5. BuffersSame
  BY <1>1, <1>2, <1>3, SameBuffers
<1>6. BuffersTyped' /\ DirTyped'
  BY <1>1, <1>2 DEF BuffersTyped, DirTyped, shared, disk, editor
<1>7. TypeOK'
  BY <1>3, <1>6, TypeParts DEF FilesInv
<1>8. live' \subseteq Pids /\ \A q \in live' : q # 0
  BY <1>1, <1>2
<1>9. SlotsOfTheirStorer'
  BY <1>2, <1>4, <1>5, <1>8, SameSlots DEF shared
<1>10. InsertGoesWhereShown'
  <2>1. \A q \in live' : opener = q => q \in live
    BY <1>8 DEF BufferInv, StorersInv
  <2> QED
    BY <1>2, <1>4, <1>5, <2>1, SameInsert DEF shared, editor
<1>11. StorersInv'
  BY <1>2 DEF BufferInv, StorersInv, shared, editor
<1> QED
  BY <1>3, <1>7, <1>9, <1>10, <1>11 DEF BufferInv, FilesInv

LEMMA FreeBuffers ==
  ASSUME BufferInv, free
  PROVE  BufferInv'
<1>1. FilesTyped /\ live \subseteq Pids /\ DirTyped /\ BuffersTyped
  BY TypeParts DEF BufferInv
<1>2. /\ live' = live /\ O!ZeroTaskFiles(Pids \ live)
      /\ UNCHANGED <<buffer, fileName, shared, disk, mapped, editor>>
  BY DEF free
<1>3. FilesInv'
  BY <1>2, FreeFiles DEF BufferInv
<1>4. \A q \in live', d \in O!Fds : fd'[q][d] = fd[q][d]
  BY <1>1, <1>2 DEF O!ZeroTaskFiles
<1>5. BuffersSame
  BY <1>1, <1>2, <1>3, SameBuffers
<1>6. BuffersTyped' /\ DirTyped'
  BY <1>1, <1>2 DEF BuffersTyped, DirTyped, shared, disk, editor
<1>7. TypeOK'
  BY <1>3, <1>6, TypeParts DEF FilesInv
<1>8. SlotsOfTheirStorer'
  BY <1>1, <1>2, <1>4, <1>5, SameSlots DEF shared
<1>9. InsertGoesWhereShown'
  BY <1>2, <1>4, <1>5, SameInsert DEF shared, editor
<1>10. StorersInv'
  BY <1>2 DEF BufferInv, StorersInv, shared, editor
<1> QED
  BY <1>3, <1>7, <1>8, <1>9, <1>10 DEF BufferInv, FilesInv

(* The other commands leave files, descriptors and the table alone: they   *)
(* can map pages, and what they print is not what an open has printed.     *)
Quiet ==
  /\ UNCHANGED <<files, shared, live>> /\ DirStep
  /\ mapped' \in [Pids -> SUBSET Pages] /\ \A q \in Pids : mapped[q] \subseteq mapped'[q]
  /\ onScreen' \in [Pids -> BOOLEAN] /\ onScreen'[Shell] = onScreen[Shell]
  /\ shown' \in [Pids -> Pages \union {0}] /\ status' \in Statuses
  /\ \A q \in Pids : onScreen'[q] /\ shown'[q] # 0 => onScreen[q] /\ shown'[q] = shown[q]

LEMMA PrintsOther ==
  ASSUME BuffersTyped, NEW p \in Pids \ {Shell}, shown' = [shown EXCEPT ![p] = 0],
         \/ onScreen' = [onScreen EXCEPT ![p] = TRUE]
         \/ onScreen' = onScreen
  PROVE  /\ onScreen' \in [Pids -> BOOLEAN] /\ onScreen'[Shell] = onScreen[Shell]
         /\ shown' \in [Pids -> Pages \union {0}]
         /\ \A q \in Pids : onScreen'[q] /\ shown'[q] # 0 => onScreen[q] /\ shown'[q] = shown[q]
<1>1. onScreen' \in [Pids -> BOOLEAN] /\ shown' \in [Pids -> Pages \union {0}]
  BY DEF BuffersTyped
<1>2. shown'[p] = 0 /\ \A q \in Pids \ {p} : onScreen'[q] = onScreen[q] /\ shown'[q] = shown[q]
  BY DEF BuffersTyped
<1> QED
  BY <1>1, <1>2

LEMMA PrintsNothing ==
  ASSUME BuffersTyped, UNCHANGED shown, NEW p \in Pids \ {Shell},
         \/ onScreen' = [onScreen EXCEPT ![p] = FALSE]
         \/ onScreen' = onScreen
  PROVE  /\ onScreen' \in [Pids -> BOOLEAN] /\ onScreen'[Shell] = onScreen[Shell]
         /\ shown' \in [Pids -> Pages \union {0}]
         /\ \A q \in Pids : onScreen'[q] /\ shown'[q] # 0 => onScreen[q] /\ shown'[q] = shown[q]
<1>1. onScreen' \in [Pids -> BOOLEAN] /\ shown' \in [Pids -> Pages \union {0}]
  BY DEF BuffersTyped
<1>2. \A q \in Pids : onScreen'[q] => onScreen[q]
  BY DEF BuffersTyped
<1>3. onScreen'[Shell] = onScreen[Shell]
  BY DEF BuffersTyped
<1> QED
  BY <1>1, <1>2, <1>3

LEMMA PageTaken ==
  ASSUME BuffersTyped, NEW p \in Pids, NEW page \in FreePages(p),
         mapped' = [mapped EXCEPT ![p] = @ \union {page}]
  PROVE  mapped' \in [Pids -> SUBSET Pages] /\ \A q \in Pids : mapped[q] \subseteq mapped'[q]
BY DEF BuffersTyped, FreePages

LEMMA OpenFailsQuiet ==
  ASSUME BufferInv, NEW p \in Pids, NEW name, NEW mode, openFails(p, name, mode)
  PROVE  Quiet
<1>1. BuffersTyped
  BY TypeParts DEF BufferInv
<1>2. /\ UNCHANGED <<files, shared, live>> /\ DirStep /\ p # Shell /\ status = "running"
      /\ AfterOpen(p, mode, FALSE)
  BY DEF openFails, DirStep, Editing, Running
<1>3. mapped' \in [Pids -> SUBSET Pages] /\ \A q \in Pids : mapped[q] \subseteq mapped'[q]
  <2>1. CASE UNCHANGED mapped
    BY <1>1, <2>1 DEF BuffersTyped
  <2>2. CASE \E page \in FreePages(p) : mapped' = [mapped EXCEPT ![p] = @ \union {page}]
    BY <1>1, <2>2, PageTaken
  <2> QED
    BY <2>1, <2>2 DEF openFails
<1>4. /\ shown' = [shown EXCEPT ![p] = 0] /\ status' \in Statuses
      /\ onScreen' = [onScreen EXCEPT ![p] = TRUE] \/ onScreen' = onScreen
  BY <1>2 DEF AfterOpen, printBufferToScreen, Statuses
<1> QED
  BY <1>1, <1>2, <1>3, <1>4, PrintsOther DEF Quiet

LEMMA CommandQuiet ==
  ASSUME BufferInv, NEW p \in Pids, NEW name \in Names, NEW d,
         view(p, d) \/ insert(p) \/ save(p, name) \/ mainAgain(p)
  PROVE  Quiet
<1>1. BuffersTyped
  BY TypeParts DEF BufferInv
<1>2. mapped' = mapped => mapped' \in [Pids -> SUBSET Pages]
                          /\ \A q \in Pids : mapped[q] \subseteq mapped'[q]
  BY <1>1 DEF BuffersTyped
<1>3. CASE view(p, d)
  BY <1>1, <1>2, <1>3, PrintsOther
     DEF view, Editing, Running, printBufferToScreen, Statuses, DirStep, Quiet
<1>4. CASE insert(p)
  BY <1>1, <1>2, <1>4, PrintsNothing DEF insert, Editing, Running, Statuses, DirStep, Quiet
<1>5. CASE save(p, name)
  BY <1>1, <1>2, <1>5, PrintsNothing
     DEF save, Editing, Running, Statuses, DirStep, Quiet, editor, BuffersTyped
<1>6. CASE mainAgain(p)
  BY <1>1, <1>2, <1>6, PrintsNothing
     DEF mainAgain, Editing, Running, Statuses, DirStep, Quiet, BuffersTyped
<1> QED
  BY <1>3, <1>4, <1>5, <1>6

LEMMA DeleteQuiet ==
  ASSUME BufferInv, NEW name \in Names, delete(name)
  PROVE  Quiet
<1>1. BuffersTyped
  BY TypeParts DEF BufferInv
<1>2. UNCHANGED <<files, shared, live, onScreen, shown, status, lastInode>>
  BY DEF delete, editor
<1>3. mapped' \in [Pids -> SUBSET Pages] /\ \A q \in Pids : mapped[q] \subseteq mapped'[q]
  <2>1. CASE UNCHANGED mapped
    BY <1>1, <2>1 DEF BuffersTyped
  <2>2. CASE \E page \in FreePages(Shell) : mapped' = [mapped EXCEPT ![Shell] = @ \union {page}]
    BY <1>1, <2>2, PageTaken
  <2> QED
    BY <2>1, <2>2 DEF delete
<1>4. DirStep
  <2>1. CASE dir' = dir
    BY <1>2, <2>1 DEF DirStep, disk
  <2>2. ASSUME NEW k \in Places(name), IsFirst(k, Places(name)),
               dir' = SubSeq(dir, 1, k - 1) \o SubSeq(dir, k + 1, Len(dir))
        PROVE  DirStep
    <3>1. k \in DOMAIN dir /\ dir' = Without(k)
      BY <2>2 DEF Places, Without
    <3> QED
      BY <1>2, <2>2, <3>1 DEF DirStep
  <2> QED
    BY <2>1, <2>2 DEF delete
<1> QED
  BY <1>1, <1>2, <1>3, <1>4 DEF Quiet, BuffersTyped

LEMMA PanicQuiet ==
  ASSUME BufferInv, Panic \/ UNCHANGED vars
  PROVE  Quiet
<1>1. BuffersTyped
  BY TypeParts DEF BufferInv
<1>2. UNCHANGED <<files, shared, disk, mapped, live, onScreen, shown>> /\ status' \in Statuses
  BY <1>1 DEF Panic, vars, editor, Statuses, BuffersTyped
<1> QED
  BY <1>1, <1>2 DEF Quiet, DirStep, BuffersTyped

LEMMA QuietBuffers == ASSUME BufferInv, Quiet PROVE BufferInv'
<1>1. FilesTyped /\ live \subseteq Pids /\ DirTyped /\ BuffersTyped
  BY TypeParts DEF BufferInv
<1>2. UNCHANGED <<oft, fd, nextFd, buffer, fileName, currentFd, buffers, opener, storer, live>>
  BY DEF Quiet, files, shared
<1>3. FilesInv'
  BY <1>2, KeptFiles DEF BufferInv
<1>4. BuffersSame
  BY <1>1, <1>2, <1>3, SameBuffers
<1>5. BuffersTyped' /\ DirTyped'
  BY <1>1, <1>2, DirTypes DEF Quiet, BuffersTyped
<1>6. TypeOK'
  BY <1>3, <1>5, TypeParts DEF FilesInv
<1>7. SlotsOfTheirStorer'
  BY <1>1, <1>2, <1>4, SameSlots DEF Quiet
<1>8. InsertGoesWhereShown'
  BY <1>1, <1>2, <1>4, SameInsert DEF Quiet
<1>9. StorersInv'
  BY <1>2 DEF BufferInv, StorersInv, Quiet
<1> QED
  BY <1>3, <1>6, <1>7, <1>8, <1>9 DEF BufferInv, FilesInv

LEMMA BufferInit == Init => BufferInv
<1> SUFFICES ASSUME Init PROVE BufferInv
  OBVIOUS
<1>1. FilesTyped
  <2>1. oft \in Tables
    <3>1. O!Opened(O!KERNEL_OWNED, 0) \in O!Entry
      BY DEF O!Opened, O!Entry
    <3> QED
      BY <3>1, EntryFields DEF Init, O!Init, O!createOpenFileTable, Tables
  <2>2. fd \in FdLists
    BY DEF Init, O!Init, O!NoFds, FdLists
  <2>3. nextFd \in [Pids -> 0 .. MAX_FILE_DESCRIPTORS]
    BY DEF Init, O!Init, O!STD, STD
  <2> QED
    BY <2>1, <2>2, <2>3 DEF FilesTyped
<1>2. DirTyped
  <2>1. [name |-> FirstName, inode |-> 1] \in DirEntry
    BY FileNumbers, EditorAssumption DEF DirEntry
  <2> QED
    BY <2>1, FileNumbers, SMTT(30) DEF Init, DirTyped
<1>3. BuffersTyped
  BY DEF Init, BuffersTyped, Statuses
<1>4. live \subseteq Pids
  BY DEF Init
<1>5. TypeOK
  BY <1>1, <1>2, <1>3, <1>4, TypeParts
<1>6. DescriptorsInv
  <2>1. \A p \in Pids, d \in O!Fds : fd[p][d] = 0
    BY DEF Init, O!Init, O!NoFds
  <2>2. nextFd[Shell] = STD /\ STD >= STD
    BY SMT DEF Init, O!Init, O!STD, STD, Shell
  <2> QED
    BY <1>4, <2>1, <2>2 DEF Init, DescriptorsInv, Descriptors
<1>7. StorersInv
  BY DEF Init, StorersInv
<1>8. SlotsOfTheirStorer
  BY DEF Init, SlotsOfTheirStorer
<1>9. InsertGoesWhereShown
  BY DEF Init, InsertGoesWhereShown
<1> QED
  BY <1>5, <1>6, <1>7, <1>8, <1>9 DEF BufferInv

LEMMA BufferNext == BufferInv /\ [Next]_vars => BufferInv'
<1> SUFFICES ASSUME BufferInv, [Next]_vars PROVE BufferInv'
  OBVIOUS
<1>1. ASSUME NEW p \in Pids, NEW name \in Names, NEW mode \in O!Modes, NEW inodePage \in Pages,
             NEW page \in Pages, NEW e \in O!Entries, open(p, name, mode, e, inodePage, page)
      PROVE  BufferInv'
  BY <1>1, OpenBuffers
<1>2. ASSUME NEW p \in Pids, NEW name \in Names, NEW mode \in O!Modes, openFails(p, name, mode)
      PROVE  BufferInv'
  BY <1>2, OpenFailsQuiet, QuietBuffers
<1>3. ASSUME NEW p \in Pids, NEW name \in Names, openPanics(p, name) PROVE BufferInv'
  BY <1>3, PanicQuiet, QuietBuffers DEF openPanics
<1>4. ASSUME NEW p \in Pids, NEW name \in Names, save(p, name) PROVE BufferInv'
  BY <1>4, CommandQuiet, QuietBuffers, SMTT(20)
<1>5. ASSUME NEW p \in Pids, NEW d \in O!Fds, view(p, d) PROVE BufferInv'
  BY <1>5, CommandQuiet, QuietBuffers, EditorAssumption, SMTT(20)
<1>6. ASSUME NEW p \in Pids, NEW d \in O!Fds, close(p, d) PROVE BufferInv'
  BY <1>6, CloseBuffers
<1>7. ASSUME NEW p \in Pids, insert(p) \/ mainAgain(p) PROVE BufferInv'
  BY <1>7, CommandQuiet, QuietBuffers, EditorAssumption
<1>8. ASSUME NEW p \in Pids, run(p) \/ exit(p) PROVE BufferInv'
  BY <1>8, RunBuffers, ExitBuffers
<1>9. ASSUME NEW name \in Names, NEW e \in O!Entries, NEW page \in Pages, openEmpty(name, e, page)
      PROVE  BufferInv'
  BY <1>9, OpenEmptyBuffers
<1>10. ASSUME NEW name \in Names, delete(name) PROVE BufferInv'
  BY <1>10, DeleteQuiet, QuietBuffers
<1>11. CASE openEmptyPanics \/ Stopped \/ UNCHANGED vars
  BY <1>11, PanicQuiet, QuietBuffers DEF openEmptyPanics, Stopped
<1>12. CASE free
  BY <1>12, FreeBuffers
<1> QED
  BY <1>1, <1>2, <1>3, <1>4, <1>5, <1>6, <1>7, <1>8, <1>9, <1>10, <1>11, <1>12 DEF Next

LEMMA BufferInvariant == Spec => []BufferInv
BY BufferInit, BufferNext, PTL DEF Spec

(* The variables keep their types: no descriptor is given beyond its array,*)
(* no file a number that another one can have been given.                  *)
THEOREM TypeCorrect == Spec => []TypeOK
BY BufferInvariant, PTL DEF BufferInv

(* A slot of the shared table leads to a page of the process that stored   *)
(* in it last, and to the buffer of that descriptor if it is open.         *)
THEOREM SlotsStayTheirs == Spec => []SlotsOfTheirStorer
BY BufferInvariant, PTL DEF BufferInv

(* What an editor has on the screen after an open of its own is what it    *)
(* inserts into, and the buffer of a file that it has open.                *)
THEOREM InsertsWhereShown == Spec => []InsertGoesWhereShown
BY BufferInvariant, PTL DEF BufferInv

-----------------------------------------------------------------------------
(* The names of open files, in any directory d, table o with names f, and  *)
(* last number given out.                                                  *)

(* The first entry of name n is one of file i.                             *)
LeadsTo(d, n, i) ==
  \E k \in DOMAIN d : /\ d[k].name = n /\ d[k].inode = i
                      /\ \A j \in DOMAIN d : d[j].name = n => k <= j

Present(d, i) == \E k \in DOMAIN d : d[k].inode = i

(* Numbers are not given again: two entries have different ones, and       *)
(* nothing is open with one that is still to come.                         *)
DirOK(d, last) ==
  /\ \A k \in DOMAIN d : d[k].inode <= last
  /\ \A k, m \in DOMAIN d : d[k].inode = d[m].inode => k = m

EntryOK(r, n, d, last) ==
  /\ r.inode \in Files => r.inode <= last
  /\ r.openedByPid = 0 => r.inode = 0
  /\ Present(d, r.inode) => LeadsTo(d, n, r.inode)

NamesInv ==
  /\ DirOK(dir, lastInode)
  /\ \A e \in O!Entries : EntryOK(oft[e], fileName[e], dir, lastInode)

LEMMA LookupLeads ==
  ASSUME DirTyped, NEW name, NEW i
  PROVE  /\ LeadsTo(dir, name, i) => returnInodeofFileName(name) = i
         /\ returnInodeofFileName(name) = i /\ i # 0 => LeadsTo(dir, name, i)
<1>1. \A k \in DOMAIN dir : k \in Nat
  BY DEF DirTyped
<1>2. ASSUME LeadsTo(dir, name, i) PROVE returnInodeofFileName(name) = i
  <2>1. PICK k \in DOMAIN dir : /\ dir[k].name = name /\ dir[k].inode = i
                                /\ \A j \in DOMAIN dir : dir[j].name = name => k <= j
    BY <1>2 DEF LeadsTo
  <2>2. k \in Places(name)
    BY <2>1 DEF Places
  <2>3. PICK m \in DOMAIN dir : /\ IsFirst(m, Places(name)) /\ dir[m].name = name
                                /\ returnInodeofFileName(name) = dir[m].inode
    BY <2>2, FirstPlace
  <2>4. m <= k /\ k <= m
    BY <2>1, <2>2, <2>3 DEF IsFirst
  <2>5. m = k
    BY <1>1, <2>1, <2>3, <2>4
  <2> QED
    BY <2>1, <2>3, <2>5
<1>3. ASSUME returnInodeofFileName(name) = i, i # 0 PROVE LeadsTo(dir, name, i)
  <2>1. Places(name) # {}
    BY <1>3 DEF returnInodeofFileName
  <2>2. PICK m \in DOMAIN dir : /\ IsFirst(m, Places(name)) /\ dir[m].name = name
                                /\ returnInodeofFileName(name) = dir[m].inode
    BY <2>1, FirstPlace
  <2>3. \A j \in DOMAIN dir : dir[j].name = name => m <= j
    BY <2>2 DEF IsFirst, Places
  <2> QED
    BY <1>3, <2>2, <2>3 DEF LeadsTo
<1> QED
  BY <1>2, <1>3

(* What a step of the directory keeps: numbers stay distinct, and a name   *)
(* that led to a file that is still there leads to it.                     *)
DirKept(d) ==
  \A n, i : LeadsTo(dir, n, i) /\ Present(d, i) => LeadsTo(d, n, i)

NothingNew(d) == \A i \in Files : i <= lastInode /\ Present(d, i) => Present(dir, i)

LEMMA AppendKeeps ==
  ASSUME DirTyped, DirOK(dir, lastInode), NEW name \in Names,
         NEW d, d = Append(dir, [name |-> name, inode |-> lastInode + 1])
  PROVE  DirOK(d, lastInode + 1) /\ DirKept(d) /\ NothingNew(d)
<1>1. lastInode \in Nat /\ dir \in Seq(DirEntry) /\ Len(dir) \in Nat
  BY FileNumbers DEF DirTyped
<1>2. \A k \in DOMAIN dir : k \in Nat /\ k <= Len(dir) /\ dir[k].inode \in Nat
  <2>1. \A k \in DOMAIN dir : k \in Nat /\ k <= Len(dir) /\ dir[k] \in DirEntry
    BY <1>1
  <2>2. \A r \in DirEntry : r.inode \in Nat
    BY FileNumbers DEF DirEntry
  <2> QED
    BY <2>1, <2>2
<1>3. PICK m \in Nat : m = Len(dir) + 1
  BY <1>1
<1>4. /\ DOMAIN d = DOMAIN dir \union {m} /\ m \notin DOMAIN dir
      /\ \A k \in DOMAIN dir : d[k] = dir[k] /\ k <= m
      /\ d[m].name = name /\ d[m].inode = lastInode + 1
  BY <1>1, <1>3
<1>5. DirOK(d, lastInode + 1)
  <2>1. \A k \in DOMAIN dir : d[k].inode <= lastInode + 1 /\ d[k].inode # lastInode + 1
    BY <1>1, <1>2, <1>4 DEF DirOK
  <2>2. lastInode + 1 <= lastInode + 1
    BY <1>1
  <2>3. \A k \in DOMAIN d : d[k].inode <= lastInode + 1
    BY <1>4, <2>1, <2>2
  <2>4. \A k, j \in DOMAIN d : d[k].inode = d[j].inode => k = j
    BY <1>4, <2>1 DEF DirOK
  <2> QED
    BY <2>3, <2>4 DEF DirOK
<1>6. ASSUME NEW n, NEW i, LeadsTo(dir, n, i) PROVE LeadsTo(d, n, i)
  <2>1. PICK k \in DOMAIN dir : /\ dir[k].name = n /\ dir[k].inode = i
                                /\ \A j \in DOMAIN dir : dir[j].name = n => k <= j
    BY <1>6 DEF LeadsTo
  <2>2. \A j \in DOMAIN d : d[j].name = n => k <= j
    BY <1>4, <2>1
  <2> QED
    BY <1>4, <2>1, <2>2 DEF LeadsTo
<1>7. ASSUME NEW i \in Files, i <= lastInode, Present(d, i) PROVE Present(dir, i)
  <2>1. i # lastInode + 1
    BY <1>1, <1>7, FileNumbers
  <2> QED
    BY <1>4, <1>7, <2>1 DEF Present
<1> QED
  BY <1>5, <1>6, <1>7 DEF DirKept, NothingNew

LEMMA WithoutKeeps ==
  ASSUME DirTyped, DirOK(dir, lastInode), NEW x \in DOMAIN dir, NEW d, d = Without(x)
  PROVE  DirOK(d, lastInode) /\ DirKept(d) /\ NothingNew(d)
<1>1. x \in Nat /\ Len(dir) \in Nat /\ \A k \in DOMAIN dir : k \in Nat /\ k <= Len(dir) /\ 1 <= k
  BY DEF DirTyped
<1>2. /\ DOMAIN d = 1 .. (Len(dir) - 1)
      /\ \A j \in DOMAIN d : j \in Nat /\ j \in DOMAIN dir /\ j + 1 \in DOMAIN dir
      /\ \A j \in DOMAIN d : (j < x => d[j] = dir[j]) /\ (~(j < x) => d[j] = dir[j + 1])
  BY WithoutEntry
<1>3. ASSUME NEW j \in DOMAIN d
      PROVE  \E k \in DOMAIN dir \ {x} :
               d[j] = dir[k] /\ ((j < x /\ k = j) \/ (~(j < x) /\ k = j + 1))
  <2>1. j \in Nat /\ j \in DOMAIN dir /\ j + 1 \in DOMAIN dir
        /\ (j < x => d[j] = dir[j]) /\ (~(j < x) => d[j] = dir[j + 1])
    BY <1>2, <1>3
  <2>2. CASE j < x
    BY <1>1, <2>1, <2>2
  <2>3. CASE ~(j < x)
    <3>1. j + 1 # x
      BY <1>1, <2>1, <2>3
    <3> QED
      BY <2>1, <2>3, <3>1
  <2> QED
    BY <2>2, <2>3
<1>4. DirOK(d, lastInode)
  <2>1. ASSUME NEW j \in DOMAIN d PROVE d[j].inode <= lastInode
    BY <1>3, <2>1 DEF DirOK
  <2>2. ASSUME NEW j \in DOMAIN d, NEW m \in DOMAIN d, d[j].inode = d[m].inode PROVE j = m
    <3>1. PICK k \in DOMAIN dir \ {x} :
            d[j] = dir[k] /\ ((j < x /\ k = j) \/ (~(j < x) /\ k = j + 1))
      BY <1>3
    <3>2. PICK l \in DOMAIN dir \ {x} :
            d[m] = dir[l] /\ ((m < x /\ l = m) \/ (~(m < x) /\ l = m + 1))
      BY <1>3
    <3>3. k = l
      BY <2>2, <3>1, <3>2 DEF DirOK
    <3>4. j \in Nat /\ m \in Nat
      BY <1>2
    <3> QED
      BY <1>1, <3>1, <3>2, <3>3, <3>4
  <2> QED
    BY <2>1, <2>2, Zenon DEF DirOK
<1>5. ASSUME NEW n, NEW i, LeadsTo(dir, n, i), Present(d, i) PROVE LeadsTo(d, n, i)
  <2>1. PICK k \in DOMAIN dir : /\ dir[k].name = n /\ dir[k].inode = i
                                /\ \A j \in DOMAIN dir : dir[j].name = n => k <= j
    BY <1>5 DEF LeadsTo
  <2>2. PICK j \in DOMAIN d : d[j].inode = i
    BY <1>5 DEF Present
  <2>3. PICK l \in DOMAIN dir \ {x} :
          d[j] = dir[l] /\ ((j < x /\ l = j) \/ (~(j < x) /\ l = j + 1))
    BY <1>3, <2>2
  <2>4. l = k
    BY <2>1, <2>2, <2>3 DEF DirOK
  <2>5. ASSUME NEW m \in DOMAIN d, d[m].name = n PROVE j <= m
    <3>1. PICK h \in DOMAIN dir \ {x} :
            d[m] = dir[h] /\ ((m < x /\ h = m) \/ (~(m < x) /\ h = m + 1))
      BY <1>3
    <3>2. k <= h
      BY <2>1, <2>5, <3>1
    <3>3. j \in Nat /\ m \in Nat /\ h \in Nat /\ k \in Nat
      BY <1>1, <1>2, <2>2, <3>1
    <3> QED
      BY <1>1, <2>3, <2>4, <3>1, <3>2, <3>3
  <2> QED
    BY <2>1, <2>2, <2>3, <2>4, <2>5 DEF LeadsTo
<1>6. ASSUME NEW i \in Files, Present(d, i) PROVE Present(dir, i)
  BY <1>3, <1>6 DEF Present
<1> QED
  BY <1>4, <1>5, <1>6 DEF DirKept, NothingNew

LEMMA DirKeeps ==
  ASSUME DirTyped, DirOK(dir, lastInode), DirStep, NEW d, d = dir'
  PROVE  DirOK(d, lastInode') /\ DirKept(d) /\ NothingNew(d) /\ lastInode <= lastInode'
<1>1. lastInode \in Nat
  BY FileNumbers DEF DirTyped
<1>2. CASE UNCHANGED disk
  BY <1>1, <1>2 DEF disk, DirKept, NothingNew
<1>3. ASSUME NEW name \in Names, createFile(name)
      PROVE  DirOK(d, lastInode') /\ DirKept(d) /\ NothingNew(d) /\ lastInode <= lastInode'
  <2>1. d = Append(dir, [name |-> name, inode |-> lastInode + 1]) /\ lastInode' = lastInode + 1
    BY <1>3 DEF createFile, allocateInode
  <2>2. lastInode <= lastInode + 1
    BY <1>1
  <2> QED
    BY <2>1, <2>2, AppendKeeps
<1>4. ASSUME NEW k \in DOMAIN dir, dir' = Without(k), lastInode' = lastInode
      PROVE  DirOK(d, lastInode') /\ DirKept(d) /\ NothingNew(d) /\ lastInode <= lastInode'
  BY <1>1, <1>4, WithoutKeeps
<1> QED
  BY <1>2, <1>3, <1>4 DEF DirStep

(* What may become of an entry: it keeps owner, file and name, it is       *)
(* cleared, it is given to a new, empty file, or to one that its name      *)
(* leads to.                                                               *)
EntryStep(e) ==
  \/ /\ oft'[e].openedByPid = Owner(e) /\ oft'[e].inode = oft[e].inode
     /\ Owner(e) # 0 => fileName'[e] = fileName[e]
  \/ oft'[e].inode = 0
  \/ oft'[e].inode = O!EMPTY_FILE /\ oft'[e].openedByPid # 0
  \/ /\ UNCHANGED disk /\ oft'[e].openedByPid # 0
     /\ \E k \in DOMAIN dir : dir[k].inode = oft'[e].inode
     /\ LeadsTo(dir, fileName'[e], oft'[e].inode)

LEMMA NamesStep ==
  ASSUME NamesInv, DirTyped, DirTyped', DirStep, oft' \in Tables,
         \A e \in O!Entries : EntryStep(e)
  PROVE  NamesInv'
<1>1. PICK d : d = dir'
  OBVIOUS
<1>2. DirOK(d, lastInode') /\ DirKept(d) /\ NothingNew(d) /\ lastInode <= lastInode'
  BY <1>1, DirKeeps DEF NamesInv
<1>3. lastInode \in Nat /\ lastInode' \in Nat /\ 0 \notin Files /\ O!EMPTY_FILE \notin Files
  BY FileNumbers DEF DirTyped
<1>4. \A i : Present(d, i) => i \in Files
  <2>1. d \in Seq(DirEntry)
    BY <1>1 DEF DirTyped
  <2>2. \A k \in DOMAIN d : d[k] \in DirEntry
    BY <2>1
  <2>3. \A r \in DirEntry : r.inode \in Files
    BY DEF DirEntry
  <2> QED
    BY <2>2, <2>3 DEF Present
<1>5. ASSUME NEW e \in O!Entries PROVE EntryOK(oft'[e], fileName'[e], d, lastInode')
  <2>1. EntryOK(oft[e], fileName[e], dir, lastInode) /\ EntryStep(e)
    BY DEF NamesInv
  <2>2. PICK r, n : r = oft'[e] /\ n = fileName'[e]
    OBVIOUS
  <2>3. CASE /\ r.openedByPid = Owner(e) /\ r.inode = oft[e].inode
             /\ Owner(e) # 0 => n = fileName[e]
    <3>1. r.inode \in Files => r.inode <= lastInode'
      <4>1. r.inode \in Files => r.inode <= lastInode
        BY <2>1, <2>3 DEF EntryOK
      <4>2. \A i, a, b \in Nat : i <= a /\ a <= b => i <= b
        OBVIOUS
      <4> QED
        BY <1>2, <1>3, <4>1, <4>2, FileNumbers
    <3>2. r.openedByPid = 0 => r.inode = 0
      BY <2>1, <2>3 DEF EntryOK, Owner
    <3>3. ASSUME Present(d, r.inode) PROVE LeadsTo(d, n, r.inode)
      <4>1. r.inode \in Files /\ r.inode # 0
        BY <1>3, <1>4, <3>3
      <4>2. n = fileName[e] /\ r.inode <= lastInode
        BY <2>1, <2>3, <3>2, <4>1 DEF EntryOK
      <4>3. LeadsTo(dir, n, r.inode)
        BY <1>2, <2>1, <2>3, <3>3, <4>1, <4>2 DEF NothingNew, EntryOK
      <4> QED
        BY <1>2, <3>3, <4>3 DEF DirKept
    <3> QED
      BY <2>2, <3>1, <3>2, <3>3 DEF EntryOK
  <2>4. CASE r.inode = 0 \/ (r.inode = O!EMPTY_FILE /\ r.openedByPid # 0)
    BY <1>3, <1>4, <2>2, <2>4 DEF EntryOK
  <2>5. CASE /\ UNCHANGED disk /\ r.openedByPid # 0
             /\ \E k \in DOMAIN dir : dir[k].inode = r.inode
             /\ LeadsTo(dir, n, r.inode)
    <3>1. d = dir /\ lastInode' = lastInode
      BY <1>1, <2>5 DEF disk
    <3>2. r.inode <= lastInode
      BY <2>5 DEF NamesInv, DirOK
    <3> QED
      BY <2>2, <2>5, <3>1, <3>2 DEF EntryOK
  <2> QED
    BY <2>1, <2>2, <2>3, <2>4, <2>5 DEF EntryStep
<1> QED
  BY <1>1, <1>2, <1>5 DEF NamesInv

(* The entries, call by call.                                              *)
LEMMA KeptEntry ==
  ASSUME BuffersTyped, NEW e, NEW name \in Names \union {NoName}, NEW page \in Pages \union {0},
         SetEntry(e, name, page), NEW x \in O!Entries, x # e,
         oft'[x].openedByPid = Owner(x), oft'[x].inode = oft[x].inode
  PROVE  EntryStep(x)
<1>1. fileName' = [y \in O!Entries |-> IF oft'[y].openedByPid = 0 THEN NoName
                                      ELSE IF y = e THEN name ELSE fileName[y]]
  BY Zenon DEF SetEntry
<1>2. Owner(x) # 0 => fileName'[x] = fileName[x]
  BY <1>1
<1> QED
  BY <1>2 DEF EntryStep

LEMMA OpenEntries ==
  ASSUME BufferInv, NEW p \in Pids, NEW name \in Names, NEW mode \in O!Modes,
         NEW inodePage \in Pages, NEW page \in Pages, NEW e \in O!Entries,
         open(p, name, mode, e, inodePage, page), NEW x \in O!Entries
  PROVE  EntryStep(x)
<1>1. DirTyped /\ BuffersTyped /\ p \in live /\ UNCHANGED disk /\ nextFd[p] >= STD
  BY TypeParts DEF BufferInv, DescriptorsInv, open, Editing, Running
<1>2. PICK i \in Files : i = returnInodeofFileName(name) /\ i # 0
  BY <1>1, InodeOfName, FileNumbers DEF open
<1>3. O!sysOpen(p, i, mode, e) /\ SetEntry(e, name, page)
  BY <1>2 DEF open
<1>4. Gives(oft', e, p, i)
  BY <1>1, <1>3, OpenEffect DEF BufferInv
<1>5. CASE x = e
  <2>1. fileName'[e] = name
    BY <1>1, <1>3, <1>4, SetEntryEffect DEF Gives
  <2>2. LeadsTo(dir, name, i)
    BY <1>1, <1>2, LookupLeads
  <2>3. \E k \in DOMAIN dir : dir[k].inode = i
    BY <2>2 DEF LeadsTo
  <2> QED
    BY <1>1, <1>4, <1>5, <2>1, <2>2, <2>3 DEF EntryStep, Gives
<1>6. CASE x # e
  BY <1>1, <1>3, <1>4, <1>6, KeptEntry DEF Gives
<1> QED
  BY <1>5, <1>6

LEMMA OpenEmptyEntries ==
  ASSUME BufferInv, NEW name \in Names, NEW e \in O!Entries, NEW page \in Pages,
         openEmpty(name, e, page), NEW x \in O!Entries
  PROVE  EntryStep(x)
<1>1. BuffersTyped /\ FilesTyped /\ Shell \in live
  BY TypeParts DEF BufferInv, BuffersTyped
<1>2. O!sysOpenEmpty(Shell, e) /\ SetEntry(e, name, page)
  BY DEF openEmpty
<1>3. nextFd[Shell] >= STD
  BY <1>1 DEF BufferInv, DescriptorsInv
<1>4. Gives(oft', e, Shell, O!EMPTY_FILE) \/ oft' = [oft EXCEPT ![e] = O!NoEntry]
  BY <1>2, <1>3, OpenEmptyEffect DEF BufferInv
<1>5. CASE x = e
  <2>1. CASE Gives(oft', e, Shell, O!EMPTY_FILE)
    BY <1>5, <2>1 DEF Gives, EntryStep
  <2>2. CASE oft' = [oft EXCEPT ![e] = O!NoEntry]
    BY <1>1, <1>5, <2>2, EntryFields DEF EntryStep, FilesTyped, Tables
  <2> QED
    BY <1>4, <2>1, <2>2
<1>6. CASE x # e
  <2>1. oft'[x].openedByPid = Owner(x) /\ oft'[x].inode = oft[x].inode
    BY <1>1, <1>4, <1>6 DEF Gives, FilesTyped, Tables, Owner
  <2> QED
    BY <1>1, <1>2, <1>6, <2>1, KeptEntry
<1> QED
  BY <1>5, <1>6

LEMMA ClearedEntries ==
  ASSUME BuffersTyped, ClearEntries, NEW x \in O!Entries, oft'[x] \in {oft[x], O!NoEntry}
  PROVE  EntryStep(x)
<1>1. CASE oft'[x] = O!NoEntry
  BY <1>1, EntryFields DEF EntryStep
<1>2. CASE oft'[x] = oft[x]
  BY <1>2, KeptEntry DEF ClearEntries, Owner
<1> QED
  BY <1>1, <1>2

LEMMA CloseEntries ==
  ASSUME BufferInv, NEW p \in Pids, NEW d \in O!Fds, close(p, d), NEW x \in O!Entries
  PROVE  EntryStep(x)
<1>1. BuffersTyped /\ oft \in Tables
  BY TypeParts DEF BufferInv, FilesTyped
<1>2. O!sysClose(p, d) /\ ClearEntries
  BY DEF close
<1>3. oft' = oft \/ \E e \in O!Entries : oft' = [oft EXCEPT ![e] = O!NoEntry]
  BY <1>2, CloseEffect DEF BufferInv
<1>4. oft'[x] \in {oft[x], O!NoEntry}
  BY <1>1, <1>3 DEF Tables
<1> QED
  BY <1>1, <1>2, <1>4, ClearedEntries

LEMMA ExitEntries ==
  ASSUME BufferInv, NEW p \in Pids, exit(p), NEW x \in O!Entries
  PROVE  EntryStep(x)
<1>1. BuffersTyped /\ O!CloseProcessFiles(p) /\ ClearEntries
  BY TypeParts DEF BufferInv, exit
<1>2. oft'[x] \in {oft[x], O!NoEntry}
  BY <1>1 DEF O!CloseProcessFiles, O!closeAllFiles
<1> QED
  BY <1>1, <1>2, ClearedEntries

LEMMA SameEntries ==
  ASSUME UNCHANGED <<oft, fileName>>, NEW x \in O!Entries PROVE EntryStep(x)
BY DEF EntryStep, Owner

LEMMA NamesInit == Init => NamesInv
<1> SUFFICES ASSUME Init PROVE NamesInv
  OBVIOUS
<1>1. dir = <<[name |-> FirstName, inode |-> 1]>> /\ lastInode = 1
  BY DEF Init
<1>2. DirOK(dir, lastInode)
  BY <1>1 DEF DirOK
<1>3. ASSUME NEW e \in O!Entries PROVE EntryOK(oft[e], fileName[e], dir, lastInode)
  <2>1. oft[e].inode = 0
    BY DEF Init, O!Init, O!createOpenFileTable, O!NoEntry, O!Opened
  <2>2. ~Present(dir, 0)
    BY <1>1 DEF Present
  <2> QED
    BY <2>1, <2>2, FileNumbers DEF EntryOK
<1> QED
  BY <1>2, <1>3 DEF NamesInv

LEMMA NamesNext == BufferInv /\ BufferInv' /\ NamesInv /\ [Next]_vars => NamesInv'
<1> SUFFICES ASSUME BufferInv, BufferInv', NamesInv, [Next]_vars PROVE NamesInv'
  OBVIOUS
<1>0. DirTyped /\ DirTyped' /\ oft' \in Tables
  BY TypeParts DEF BufferInv, FilesTyped
<1>1. ASSUME NEW p \in Pids, NEW name \in Names, NEW mode \in O!Modes, NEW inodePage \in Pages,
             NEW page \in Pages, NEW e \in O!Entries, open(p, name, mode, e, inodePage, page)
      PROVE  NamesInv'
  BY <1>0, <1>1, OpenEntries, NamesStep DEF open, DirStep
<1>2. ASSUME NEW name \in Names, NEW e \in O!Entries, NEW page \in Pages, openEmpty(name, e, page)
      PROVE  NamesInv'
  BY <1>0, <1>2, OpenEmptyEntries, NamesStep DEF openEmpty, DirStep
<1>3. ASSUME NEW p \in Pids, NEW d \in O!Fds, close(p, d) PROVE NamesInv'
  BY <1>0, <1>3, CloseEntries, NamesStep DEF close, DirStep
<1>4. ASSUME NEW p \in Pids, exit(p) PROVE NamesInv'
  BY <1>0, <1>4, ExitEntries, NamesStep DEF exit, DirStep
<1>5. ASSUME NEW p \in Pids, run(p) PROVE NamesInv'
  BY <1>0, <1>5, SameEntries, NamesStep DEF run, O!NewTaskFiles, DirStep
<1>6. CASE free
  BY <1>0, <1>6, SameEntries, NamesStep DEF free, O!ZeroTaskFiles, DirStep
<1>7. ASSUME Quiet PROVE NamesInv'
  BY <1>0, <1>7, SameEntries, NamesStep DEF Quiet, files
<1>8. ASSUME NEW p \in Pids, NEW name \in Names, NEW mode \in O!Modes, openFails(p, name, mode)
      PROVE  NamesInv'
  BY <1>7, <1>8, OpenFailsQuiet
<1>9. ASSUME NEW p \in Pids, NEW name \in Names, openPanics(p, name) \/ save(p, name)
      PROVE  NamesInv'
  BY <1>7, <1>9, PanicQuiet, CommandQuiet, SMTT(20) DEF openPanics
<1>10. ASSUME NEW p \in Pids, NEW d \in O!Fds, view(p, d) PROVE NamesInv'
  BY <1>7, <1>10, CommandQuiet, EditorAssumption, SMTT(20)
<1>11. ASSUME NEW p \in Pids, insert(p) \/ mainAgain(p) PROVE NamesInv'
  BY <1>7, <1>11, CommandQuiet, EditorAssumption
<1>12. ASSUME NEW name \in Names, delete(name) PROVE NamesInv'
  BY <1>7, <1>12, DeleteQuiet
<1>13. CASE openEmptyPanics \/ Stopped \/ UNCHANGED vars
  BY <1>7, <1>13, PanicQuiet DEF openEmptyPanics, Stopped
<1> QED
  BY <1>1, <1>2, <1>3, <1>4, <1>5, <1>6, <1>8, <1>9, <1>10, <1>11, <1>12, <1>13 DEF Next

(* The name in an entry leads to the file that was opened, as long as any  *)
(* file of its number is in the directory: deletions, and files created    *)
(* under the same name, take no other file to that number.                 *)
THEOREM NamesStayTrue == Spec => []EntryNamesItsFile
<1>1. BufferInv /\ NamesInv => EntryNamesItsFile
  <2> SUFFICES ASSUME BufferInv, NamesInv, NEW e \in O!Entries, oft[e].inode \in InodesInDir
               PROVE  returnInodeofFileName(fileName[e]) = oft[e].inode
    BY DEF EntryNamesItsFile
  <2>1. DirTyped
    BY TypeParts DEF BufferInv
  <2>2. Present(dir, oft[e].inode)
    BY DEF InodesInDir, Present
  <2>3. LeadsTo(dir, fileName[e], oft[e].inode)
    BY <2>2 DEF NamesInv, EntryOK
  <2> QED
    BY <2>1, <2>3, LookupLeads
<1>2. Spec => []NamesInv
  BY BufferInit, BufferNext, NamesInit, NamesNext, PTL DEF Spec
<1> QED
  BY <1>1, <1>2, BufferInvariant, PTL

=============================================================================
