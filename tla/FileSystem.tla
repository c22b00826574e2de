------------------------------ MODULE FileSystem ------------------------------
(***************************************************************************)
(* The ext2 file system of fs.cpp: the two usage maps, the inode table and *)
(* the root directory.  A call works on copies in kernel memory and writes *)
(* them back one after the other; no other call runs in between, but the   *)
(* machine may be switched off between two writes, so each write to the    *)
(* disk is a step.                                                         *)
(***************************************************************************)
EXTENDS Integers, Sequences, FiniteSets

CONSTANTS
  BLOCK_BYTES,    (* bytes of the block usage map that stand for blocks,   *)
                  (* 0xEF; of the 0xF0 that are scanned the last has only  *)
                  (* mkfs' padding bit set, and the scan passes over it    *)
  INODE_BYTES,    (* bytes of the inode usage map that are scanned: 0x1E   *)
  MAX_FILES_PER_DIRECTORY,  (* inodes that are written back to the disk    *)
  DIR_ENTRIES,    (* directory entries that fit in the root directory      *)
  DIRECT,         (* EXT2_NUMBER_OF_DIRECT_BLOCKS                          *)
  RESERVED_BLOCKS, RESERVED_INODES,    (* what mkfs has in use             *)
  Names,          (* file names                                            *)
  Prefixes,       (* pairs of a name and a name that begins with it        *)
  Sizes,          (* sizes of a buffer, in blocks                          *)
  MaxCreates, MaxDeletes   (* bounds on the calls of createFile and of      *)
                           (* deleteFile                                    *)

ASSUME FileSystemAssumption ==
  /\ {BLOCK_BYTES, INODE_BYTES, DIR_ENTRIES, DIRECT} \subseteq Nat \ {0}
  /\ MAX_FILES_PER_DIRECTORY \in 0 .. 8 * INODE_BYTES    (* 128 and 8 * 30 *)
  /\ {MaxCreates, MaxDeletes} \subseteq Nat
  /\ RESERVED_BLOCKS \in 1 .. 8 * BLOCK_BYTES
  /\ RESERVED_INODES \in 1 .. 8 * INODE_BYTES
  /\ Sizes \subseteq Nat
  /\ Prefixes \subseteq Names \X Names /\ \A n \in Names : <<n, n>> \in Prefixes

VARIABLES
  blockMap,   (* block usage map: a byte is the set of its one bits        *)
  inodeMap,   (* inode usage map                                           *)
  table,      (* the inode table                                           *)
  data,       (* what was last written to each block                       *)
  dir,        (* the root directory                                        *)
  lastEntry,  (* the last entry has the long record length that createFile *)
              (* looks for (recLength > 255)                               *)
  intact,     (* no write has hit metadata or a list of block numbers      *)
  call,       (* the call in progress                                      *)
  creates,    (* how many calls of createFile were made                    *)
  deletes     (* how many calls of deleteFile were made                    *)

disk == <<blockMap, inodeMap, table, data, dir, lastEntry, intact>>
counts == <<creates, deletes>>
vars == <<disk, call, counts>>

Bits == 0 .. 7
Byte == SUBSET Bits
Full == Bits
Ones(k) == 0 .. (k - 1)    (* the byte 2^k - 1 *)

-----------------------------------------------------------------------------
(* Usage maps.  Number k (block or inode, from 1) has bit (k-1) % 8 of     *)
(* byte (k-1) / 8.  A full map makes allocate write byte n, past the scan. *)
Map(n) == [0 .. n -> Byte]
UsedUpTo(k, n) == [b \in 0 .. n |-> {i \in Bits : 8 * b + i < k}]
Marked(m, k) == (k - 1) % 8 \in m[(k - 1) \div 8]

(* The scan stops at the first byte of the form 2^k - 1 with k < 8.  It    *)
(* counts 8 for a byte 255 before that and nothing for any other byte.     *)
Stops(m, n) == {b \in 0 .. (n - 1) : \E k \in Bits : m[b] = Ones(k)}
StopByte(m, n) ==
  IF Stops(m, n) = {} THEN n
  ELSE CHOOSE b \in Stops(m, n) : \A c \in Stops(m, n) : b <= c
LastUsed(m, n) ==
  LET stop == StopByte(m, n)
  IN  8 * Cardinality({b \in 0 .. (stop - 1) : m[b] = Full})
        + (IF stop < n THEN Cardinality(m[stop]) ELSE 0)
Mutant_NextNumber(m, n) == LastUsed(m, n) + 2
NextNumber(m, n) == LastUsed(m, n) + 1

(* allocateFreeBlock, allocateInode: the stop byte gets one more bit.      *)
Mutant_Allocate(m, n) == m    (* the map is not written back               *)
Allocate(m, n) ==
  LET k == NextNumber(m, n)
  IN  [m EXCEPT ![StopByte(m, n)] = IF k % 8 = 0 THEN Full ELSE Ones(k % 8)]

allocateFreeBlock      == Allocate(blockMap, BLOCK_BYTES)
readNextAvailableBlock == NextNumber(blockMap, BLOCK_BYTES)
allocateInode          == Allocate(inodeMap, INODE_BYTES)
readNextAvailableInode == NextNumber(inodeMap, INODE_BYTES)

(* byte - 2^i, modulo 256: the borrow takes the next higher one bit.       *)
Subtract(byte, i) ==
  LET above == {j \in byte : j >= i}
      next  == IF above = {} THEN 8 ELSE CHOOSE j \in above : \A l \in above : j <= l
  IN  (byte \ {next}) \union (i .. (next - 1))

freeBlock(m, k) ==
  [m EXCEPT ![k \div 8] = Subtract(@, IF k % 8 = 0 THEN 7 ELSE (k % 8) - 1)]

-----------------------------------------------------------------------------
Blocks == 1 .. (8 * BLOCK_BYTES + 1)
Inodes == 1 .. (8 * INODE_BYTES + 1)

(* i_block[0..11]; i_block[12], 0 when there is none; and the numbers in   *)
(* the block it points to, as long as that is not overwritten.             *)
NoInode == [direct |-> <<>>, indirect |-> 0, more |-> <<>>]
DataBlocks(i) == i.direct \o i.more

Idle == [kind |-> "none"]
Creating(name, inode, size) ==
  [kind |-> "create", name |-> name, inode |-> inode, size |-> size,
   written |-> 0, node |-> table[inode]]
Deleting(inode, freed) == [kind |-> "delete", inode |-> inode, toFree |-> freed]

Init ==
  /\ blockMap = UsedUpTo(RESERVED_BLOCKS, BLOCK_BYTES)
  /\ inodeMap = UsedUpTo(RESERVED_INODES, INODE_BYTES)
  /\ table = [i \in Inodes |-> NoInode]
  /\ data = [b \in Blocks |-> <<0, 0>>]
  /\ dir = <<>> /\ lastEntry = TRUE
  /\ intact = TRUE
  /\ call = Idle
  /\ creates = 0 /\ deletes = 0

(* strcmp(entry, name): an entry whose name is a prefix of name is taken   *)
(* for it.  The search stops at the first one.                             *)
Found(name) == {e \in DOMAIN dir : <<dir[e].name, name>> \in Prefixes}
FirstFound(e, name) == e \in Found(name) /\ \A f \in Found(name) : e <= f

-----------------------------------------------------------------------------
(* createFile, writeInodeEntry and writeBufferToDisk.  A name that is      *)
(* there already is not looked for, and the inode is filled in where it    *)
(* lies in the table, whatever it holds.                                   *)
createFile(name, size) ==
  /\ call = Idle
  /\ creates < MaxCreates
  /\ inodeMap' = allocateInode
  /\ call' = Creating(name, readNextAvailableInode, size)
  /\ creates' = creates + 1
  /\ UNCHANGED <<blockMap, table, data, dir, lastEntry, intact, deletes>>

Put(list, p, b) == IF p <= Len(list) THEN [list EXCEPT ![p] = b] ELSE Append(list, b)

(* Where the loops of writeBufferToDisk store the number of block j.  Turn *)
(* number DIRECT makes the indirect block.                                 *)
Store(node, j, b) ==
  IF j < DIRECT THEN [node EXCEPT !.direct = Put(@, j + 1, b)]
  ELSE IF j = DIRECT THEN [node EXCEPT !.indirect = b, !.more = <<>>]
  ELSE [node EXCEPT !.more = Append(@, b)]

(* What mkfs has made (the maps, the inode table, the root directory) and  *)
(* the indirect blocks of the files.  When one of them is overwritten, the *)
(* system goes on with what then lies there; the model ends (see Next).    *)
HoldsMetadata(b) ==
  b <= RESERVED_BLOCKS \/ \E i \in Inodes : table[i].indirect = b

(* A block that is written: block j of the file, DIRECT being the indirect *)
(* one, in which the numbers of the later ones are.                        *)
writeBlock(b, j) ==
  /\ data' = [data EXCEPT ![b] = <<call.inode, j>>]
  /\ intact' = (intact /\ ~HoldsMetadata(b))

(* One turn: the map is written, then the block.  (A power cut between the *)
(* two differs from one before the turn in a mark only, and from one after *)
(* it in a block that no inode on the disk has been given.)  In the turn   *)
(* of the indirect block none of the buffer's is written.                  *)
writeBufferToDisk ==
  /\ call.kind = "create"
  /\ call.written < call.size
  /\ blockMap' = allocateFreeBlock
  /\ LET b == readNextAvailableBlock
         j == call.written
     IN  /\ IF j = DIRECT THEN UNCHANGED <<data, intact>> ELSE writeBlock(b, j)
         /\ call' = [call EXCEPT !.written = j + 1, !.node = Store(@, j, b)]
  /\ UNCHANGED <<inodeMap, table, dir, lastEntry, counts>>

(* The indirect block is written after those whose numbers are in it.      *)
HasIndirect == call.size > DIRECT
writeIndirectBlock ==
  /\ call.kind = "create" /\ HasIndirect
  /\ call.written = call.size
  /\ writeBlock(call.node.indirect, DIRECT)
  /\ call' = [call EXCEPT !.kind = "inode"]
  /\ UNCHANGED <<blockMap, inodeMap, table, dir, lastEntry, counts>>

BufferWritten ==
  \/ call.kind = "create" /\ ~HasIndirect /\ call.written = call.size
  \/ call.kind = "inode"

Mutant_writeInodeEntry ==    (* the indirect block is not waited for       *)
  /\ call.kind \in {"create", "inode"}
  /\ call.written = call.size
  /\ table' = [table EXCEPT ![call.inode] = call.node]
  /\ call' = [call EXCEPT !.kind = "entry"]
  /\ UNCHANGED <<blockMap, inodeMap, data, dir, lastEntry, intact, counts>>
writeInodeEntry ==
  /\ BufferWritten
  /\ table' = [table EXCEPT ![call.inode] = call.node]
  /\ call' = [call EXCEPT !.kind = "entry"]
  /\ UNCHANGED <<blockMap, inodeMap, data, dir, lastEntry, intact, counts>>

(* Only one block of the directory is written back.  An entry behind it is *)
(* lost, and so are all later ones: the entry that now comes last has its  *)
(* own length already, and they go behind a gap at which every scan stops. *)
Room == lastEntry /\ Len(dir) < DIR_ENTRIES
writeDirectory ==
  /\ call.kind = "entry"
  /\ dir' = IF Room
              THEN Append(dir, [name |-> call.name, inode |-> call.inode, size |-> call.size])
              ELSE dir
  /\ lastEntry' = Room
  /\ call' = Idle
  /\ UNCHANGED <<blockMap, inodeMap, table, data, intact, counts>>

-----------------------------------------------------------------------------
(* deleteFile.  freeAllBlocks frees the data blocks, not the indirect one; *)
(* the inode is zeroed and stays marked in the inode usage map.            *)
deleteFile(name, e) ==
  /\ call = Idle
  /\ deletes < MaxDeletes
  /\ FirstFound(e, name)
  /\ call' = Deleting(dir[e].inode, DataBlocks(table[dir[e].inode]))
  /\ deletes' = deletes + 1
  /\ UNCHANGED <<disk, creates>>

freeAllBlocks ==
  /\ call.kind = "delete"
  /\ call.toFree # <<>>
  /\ blockMap' = freeBlock(blockMap, Head(call.toFree))
  /\ call' = [call EXCEPT !.toFree = Tail(@)]
  /\ UNCHANGED <<inodeMap, table, data, dir, lastEntry, intact, counts>>

Mutant_zeroInode ==    (* the number of the inode is freed as that of a block *)
  /\ call.kind = "delete"
  /\ call.toFree = <<>>
  /\ inodeMap' = freeBlock(inodeMap, call.inode)
  /\ table' = [table EXCEPT ![call.inode] = NoInode]
  /\ call' = [call EXCEPT !.kind = "remove"]
  /\ UNCHANGED <<blockMap, data, dir, lastEntry, intact, counts>>
zeroInode ==
  /\ call.kind = "delete"
  /\ call.toFree = <<>>
  /\ table' = [table EXCEPT ![call.inode] = NoInode]
  /\ call' = [call EXCEPT !.kind = "remove"]
  /\ UNCHANGED <<blockMap, inodeMap, data, dir, lastEntry, intact, counts>>

(* The entries behind the deleted one move up.                             *)
EntryOf(e, inode) ==
  dir[e].inode = inode /\ \A f \in DOMAIN dir : dir[f].inode = inode => e <= f
deleteDirectoryEntry ==
  /\ call.kind = "remove"
  /\ \E e \in DOMAIN dir :
       /\ EntryOf(e, call.inode)
       /\ dir' = SubSeq(dir, 1, e - 1) \o SubSeq(dir, e + 1, Len(dir))
  /\ call' = Idle
  /\ UNCHANGED <<blockMap, inodeMap, table, data, lastEntry, intact, counts>>

(* The machine is switched off: what was not written is lost, and with it  *)
(* every inode that is kept in memory only.                                *)
PowerOff ==
  /\ call' = Idle
  /\ table' = [i \in Inodes |-> IF i <= MAX_FILES_PER_DIRECTORY THEN table[i] ELSE NoInode]
  /\ UNCHANGED <<blockMap, inodeMap, data, dir, lastEntry, intact, counts>>

(* What the code does with maps, inodes, entries or block numbers that     *)
(* were overwritten depends on the text of the file that is there now.     *)
Next ==
  \/ /\ intact
     /\ \/ \E name \in Names, size \in Sizes : createFile(name, size)
        \/ writeBufferToDisk \/ writeIndirectBlock \/ writeInodeEntry \/ writeDirectory
        \/ \E name \in Names, e \in DOMAIN dir : deleteFile(name, e)
        \/ freeAllBlocks \/ zeroInode \/ deleteDirectoryEntry
  \/ PowerOff

Spec == Init /\ [][Next]_vars

-----------------------------------------------------------------------------
(* Properties.                                                             *)

Node == [direct : Seq(Blocks), indirect : Blocks \union {0}, more : Seq(Blocks)]

Calls ==
  {Idle}
    \union [kind : {"create", "inode", "entry"}, name : Names, inode : Inodes, size : Sizes,
            written : Nat, node : Node]
    \union [kind : {"delete", "remove"}, inode : Inodes, toFree : Seq(Blocks)]

TypeOK ==
  /\ blockMap \in Map(BLOCK_BYTES) /\ inodeMap \in Map(INODE_BYTES)
  /\ table \in [Inodes -> Node]
  /\ data \in [Blocks -> (Inodes \union {0}) \X Nat]
  /\ dir \in Seq([name : Names, inode : Inodes, size : Sizes])
  /\ lastEntry \in BOOLEAN /\ intact \in BOOLEAN
  /\ call \in Calls
  /\ creates \in 0 .. MaxCreates /\ deletes \in 0 .. MaxDeletes

(* The block numbers of an inode; the one a full map gives lies past it.   *)
Numbers(i) == i.direct \o (IF i.indirect = 0 THEN <<>> ELSE <<i.indirect>>) \o i.more
InMap(b) == b <= 8 * BLOCK_BYTES

(* As long as nothing is deleted, createFile never writes over the maps,   *)
(* the inode table, the directory or the block numbers of another file,    *)
(* wherever the machine was switched off.  It ends with the block map: the *)
(* number that a full one gives may be any file's indirect block.  (After  *)
(* a deletion nothing holds it: allocateFreeBlock gives out numbers that   *)
(* are in use, and fs.cpp:420, 438 and 442 write to them.)                 *)
MapIsFull == Marked(blockMap, 8 * BLOCK_BYTES + 1)
MetadataIntact == deletes = 0 /\ ~MapIsFull => intact

(* As long as nothing is deleted, no block serves two purposes, be it in   *)
(* two files or twice in one, and none that mkfs uses is given away,       *)
(* wherever the machine was switched off (allocateFreeBlock writes the map *)
(* back before the block is used).                                         *)
BlocksExclusive ==
  deletes = 0 /\ intact =>
    \A i, j \in Inodes :
      \A p \in DOMAIN Numbers(table[i]), q \in DOMAIN Numbers(table[j]) :
        LET b == Numbers(table[i])[p]
        IN  /\ b > RESERVED_BLOCKS
            /\ b = Numbers(table[j])[q] /\ InMap(b) => i = j /\ p = q

(* As long as nothing is deleted, a file that the directory names is       *)
(* complete: its inode and all its blocks are marked in use and hold what  *)
(* was written for it, the indirect block included, though a power cut may *)
(* have fallen between any two writes of any createFile.  That is the      *)
(* order of createFile's writes: maps, data, inode, directory.             *)
EntriesComplete ==
  deletes = 0 /\ intact =>
    \A e \in DOMAIN dir :
      LET node == table[dir[e].inode]
      IN  dir[e].inode <= MAX_FILES_PER_DIRECTORY =>
            /\ Marked(inodeMap, dir[e].inode)
            /\ Len(Numbers(node)) = dir[e].size
            /\ \A p \in DOMAIN Numbers(node) :
                 InMap(Numbers(node)[p]) =>
                   /\ Marked(blockMap, Numbers(node)[p])
                   /\ data[Numbers(node)[p]] = <<dir[e].inode, p - 1>>

(* Two directory entries never share an inode, and an entry's inode never  *)
(* becomes that of a new file, whatever is deleted and wherever the        *)
(* machine is switched off: numbers are not used again (deleteFile leaves  *)
(* the inode usage map alone).  It ends with the map, as a full one gives  *)
(* the same number to every file, and with the first write over metadata,  *)
(* which may be any map, inode or entry (see MetadataIntact: not before    *)
(* the first deletion).                                                    *)
InodesExclusive ==
  intact =>
    \A e, f \in DOMAIN dir :
      dir[e].inode = dir[f].inode /\ dir[e].inode <= 8 * INODE_BYTES => e = f

(* "Finds a free block and returns the block number" (fs.h:181).           *)
NextBlockIsFree ==
  InMap(readNextAvailableBlock) => ~Marked(blockMap, readNextAvailableBlock)

(* writeBufferToDisk "writes the buffer to disk" (fs.h:231): the blocks of *)
(* the file, in their order, hold those of the buffer.                     *)
FileReadsBack ==
  \A e \in DOMAIN dir :
    LET blocks == DataBlocks(table[dir[e].inode])
    IN  deletes = 0 /\ dir[e].inode <= MAX_FILES_PER_DIRECTORY =>
          \A p \in 1 .. dir[e].size :
            /\ p <= Len(blocks)
            /\ InMap(blocks[p]) => data[blocks[p]] = <<dir[e].inode, p - 1>>

(* deleteFile removes "the file you want to delete" (fs.h:201): the entry  *)
(* that is looked up has the name that was asked for.                      *)
DeletesNamedFile ==
  [][\A name \in Names, e \in DOMAIN dir : deleteFile(name, e) => dir[e].name = name]_vars
=============================================================================
