--------------------------- MODULE FileSystem_proofs ---------------------------
(***************************************************************************)
(* Proofs about FileSystem.  First what the operators on usage maps and on *)
(* lists of block numbers compute, then the types, then the invariants,    *)
(* one after the other: inode numbers, shared blocks, complete files.      *)
(***************************************************************************)
EXTENDS FileSystem, FiniteSetTheorems, SequenceTheorems, WellFoundedInduction, TLAPS

-----------------------------------------------------------------------------
(* Usage maps.                                                             *)

LEMMA NatMin ==
  ASSUME NEW S, S \subseteq Nat, S # {}
  PROVE  \E x \in S : \A y \in S : x <= y
<1>1. PICK x \in S : \A y \in S : ~ (<<y, x>> \in OpToRel(<, Nat))
  BY WFMin, NatLessThanWellFounded
<1>2. ASSUME NEW y \in S
      PROVE  x <= y
  <2>1. x \in Nat /\ y \in Nat
    OBVIOUS
  <2>2. y < x => <<y, x>> \in OpToRel(<, Nat)
    BY <2>1, Zenon DEF OpToRel
  <2>3. ~ (y < x)
    BY <1>1, <2>2, Zenon
  <2> QED
    BY <2>1, <2>3
<1> QED
  BY <1>2

LEMMA StopByteFirst ==
  ASSUME NEW n \in Nat \ {0}, NEW m
  PROVE  /\ Stops(m, n) = {} => StopByte(m, n) = n
         /\ Stops(m, n) # {} =>
              /\ StopByte(m, n) \in Stops(m, n)
              /\ \A c \in Stops(m, n) : StopByte(m, n) <= c
<1>1. Stops(m, n) \subseteq Nat
  BY DEF Stops
<1>2. ASSUME Stops(m, n) # {}
      PROVE  \E b \in Stops(m, n) : \A c \in Stops(m, n) : b <= c
  BY <1>1, <1>2, NatMin
<1> QED
  BY <1>2 DEF StopByte

(* The number of bits of 2^k - 1.                                          *)
LEMMA OnesCount ==
  ASSUME NEW k \in Nat
  PROVE  IsFiniteSet(Ones(k)) /\ Cardinality(Ones(k)) = k
BY FS_Interval DEF Ones

LEMMA OnesDiffer ==
  ASSUME NEW k \in Nat, NEW l \in Nat, Ones(k) = Ones(l)
  PROVE  k = l
BY OnesCount

LEMMA NextNumberType ==
  ASSUME NEW n \in Nat \ {0}, NEW m \in Map(n)
  PROVE  /\ NextNumber(m, n) \in 1 .. (8 * n + 1)
         /\ Allocate(m, n) \in Map(n)
<1> DEFINE stop == StopByte(m, n)
           full == {b \in 0 .. (stop - 1) : m[b] = Full}
<1>1. /\ stop \in 0 .. n
      /\ stop < n => \E k \in Bits : m[stop] = Ones(k)
  BY StopByteFirst DEF Stops
<1>2. Cardinality(full) \in 0 .. stop
  <2>1. IsFiniteSet(0 .. (stop - 1)) /\ Cardinality(0 .. (stop - 1)) = stop
    <3> HIDE DEF stop
    <3>1. stop \in Nat
      BY <1>1
    <3> QED
      BY <3>1, OnesCount DEF Ones
  <2>2. full \in SUBSET (0 .. (stop - 1))
    OBVIOUS
  <2> QED
    BY <2>1, <2>2, FS_Subset, FS_CardinalityType
<1>3. stop < n => Cardinality(m[stop]) \in Bits
  BY <1>1, OnesCount DEF Bits
<1>4. LastUsed(m, n) \in 0 .. 8 * n
  <2>1. LastUsed(m, n) = 8 * Cardinality(full) + (IF stop < n THEN Cardinality(m[stop]) ELSE 0)
    BY DEF LastUsed
  <2> HIDE DEF stop, full
  <2> QED
    BY <1>1, <1>2, <1>3, <2>1, SMT DEF Bits
<1>5. Full \in Byte /\ \A k \in Nat : Ones(k % 8) \in Byte
  BY DEF Full, Byte, Bits, Ones
<1> QED
  BY <1>1, <1>4, <1>5 DEF NextNumber, Allocate, Map

-----------------------------------------------------------------------------
(* A map from which nothing was freed: the first k numbers are in use.     *)
Grown(m, n) == \E k \in 0 .. (8 * n + 1) : m = UsedUpTo(k, n)

Numbered(n) == 1 .. (8 * n + 1)

LEMMA MarkedUpTo ==
  ASSUME NEW n \in Nat \ {0}, NEW k \in 0 .. (8 * n + 1), NEW b \in Numbered(n)
  PROVE  Marked(UsedUpTo(k, n), b) <=> b <= k
<1>1. PICK byte \in 0 .. n, bit \in Bits :
        byte = (b - 1) \div 8 /\ bit = (b - 1) % 8 /\ 8 * byte + bit = b - 1
  BY DEF Numbered, Bits
<1>2. UsedUpTo(k, n)[byte] = {i \in Bits : 8 * byte + i < k}
  BY DEF UsedUpTo
<1>3. Marked(UsedUpTo(k, n), b) <=> 8 * byte + bit < k
  BY <1>1, <1>2 DEF Marked
<1> QED
  BY <1>1, <1>3 DEF Numbered, Bits

LEMMA StopOfUsedUpTo ==
  ASSUME NEW n \in Nat \ {0}, NEW k \in 0 .. (8 * n + 1)
  PROVE  /\ k < 8 * n => StopByte(UsedUpTo(k, n), n) = k \div 8
         /\ k >= 8 * n => StopByte(UsedUpTo(k, n), n) = n
         /\ \A b \in 0 .. (k \div 8) - 1 : b <= n => UsedUpTo(k, n)[b] = Full
         /\ k \div 8 <= n => UsedUpTo(k, n)[k \div 8] = Ones(k % 8)
<1> DEFINE m == UsedUpTo(k, n)
<1>1. \A b \in 0 .. n : m[b] = {i \in Bits : 8 * b + i < k}
  BY DEF UsedUpTo
<1>2. ASSUME NEW b \in 0 .. n, b < k \div 8
      PROVE  m[b] = Full
  <2>1. \A i \in Bits : 8 * b + i < k
    BY <1>2 DEF Bits
  <2> QED
    BY <1>1, <2>1 DEF Full
<1>3. ASSUME k \div 8 <= n
      PROVE  m[k \div 8] = Ones(k % 8)
  <2>1. \A i \in Bits : 8 * (k \div 8) + i < k <=> i \in Ones(k % 8)
    BY DEF Bits, Ones
  <2>2. Ones(k % 8) \subseteq Bits
    BY DEF Bits, Ones
  <2>3. k \div 8 \in 0 .. n
    BY <1>3
  <2> QED
    BY <1>1, <2>1, <2>2, <2>3
<1>4. \A j \in Bits : Full # Ones(j)
  <2>1. Full = Ones(8)
    BY DEF Full, Bits, Ones
  <2> QED
    BY <2>1, OnesDiffer DEF Bits
<1>5. \A b \in 0 .. (k \div 8) - 1 : b <= n => b \notin Stops(m, n)
  BY <1>2, <1>4 DEF Stops
<1>6. ASSUME k < 8 * n
      PROVE  StopByte(m, n) = k \div 8
  <2>1. k \div 8 \in 0 .. (n - 1) /\ k % 8 \in Bits
    BY <1>6 DEF Bits
  <2>2. k \div 8 \in Stops(m, n)
    BY <1>3, <2>1 DEF Stops
  <2>3. StopByte(m, n) \in Stops(m, n) /\ StopByte(m, n) <= k \div 8
    BY <2>2, StopByteFirst
  <2>4. StopByte(m, n) \in 0 .. (n - 1)
    BY <2>3 DEF Stops
  <2> QED
    BY <1>5, <2>1, <2>3, <2>4
<1>7. ASSUME k >= 8 * n
      PROVE  StopByte(m, n) = n
  <2>1. \A b \in 0 .. (n - 1) : b \in 0 .. (k \div 8) - 1
    BY <1>7
  <2>2. Stops(m, n) = {}
    BY <1>5, <2>1 DEF Stops
  <2> QED
    BY <2>2, StopByteFirst
<1> QED
  BY <1>2, <1>3, <1>6, <1>7

LEMMA NextOfUsedUpTo ==
  ASSUME NEW n \in Nat \ {0}, NEW k \in 0 .. (8 * n + 1),
         NEW next, next = IF k < 8 * n THEN k + 1 ELSE 8 * n + 1
  PROVE  /\ NextNumber(UsedUpTo(k, n), n) = next
         /\ Allocate(UsedUpTo(k, n), n) = UsedUpTo(next, n)
<1> DEFINE m == UsedUpTo(k, n)
           stop == StopByte(m, n)
<1>1. /\ stop \in 0 .. n
      /\ k < 8 * n => stop = k \div 8 /\ stop < n
      /\ k >= 8 * n => stop = n
      /\ \A b \in 0 .. (stop - 1) : m[b] = Full
  <2>1. /\ k < 8 * n => stop = k \div 8
        /\ k >= 8 * n => stop = n
        /\ \A b \in 0 .. (k \div 8) - 1 : b <= n => m[b] = Full
    BY StopOfUsedUpTo
  <2>2. /\ k < 8 * n => k \div 8 \in 0 .. (n - 1)
        /\ k >= 8 * n => k \div 8 = n
    OBVIOUS
  <2> HIDE DEF m, stop
  <2> QED
    BY <2>1, <2>2
<1>2. Cardinality({b \in 0 .. (stop - 1) : m[b] = Full}) = stop
  <2>1. {b \in 0 .. (stop - 1) : m[b] = Full} = 0 .. (stop - 1)
    BY <1>1
  <2>2. stop \in Nat
    BY <1>1
  <2> HIDE DEF m, stop
  <2> QED
    BY <2>1, <2>2, OnesCount DEF Ones
<1>3. LastUsed(m, n) = IF k < 8 * n THEN k ELSE 8 * n
  <2>1. LastUsed(m, n) = 8 * stop + (IF stop < n THEN Cardinality(m[stop]) ELSE 0)
    BY <1>2 DEF LastUsed
  <2>2. k < 8 * n => Cardinality(m[stop]) = k % 8
    BY <1>1, StopOfUsedUpTo, OnesCount
  <2> HIDE DEF m, stop
  <2> QED
    BY <1>1, <2>1, <2>2, SMT
<1>4. NextNumber(m, n) = next
  BY <1>3 DEF NextNumber
<1>5. Allocate(m, n) = [m EXCEPT ![stop] = IF next % 8 = 0 THEN Full ELSE Ones(next % 8)]
  BY <1>4 DEF Allocate
<1>6. \A b \in 0 .. n : Allocate(m, n)[b] = UsedUpTo(next, n)[b]
  <2> SUFFICES ASSUME NEW b \in 0 .. n
               PROVE  Allocate(m, n)[b] = UsedUpTo(next, n)[b]
    OBVIOUS
  <2>1. next \in 0 .. (8 * n + 1) /\ UsedUpTo(next, n)[b] = {i \in Bits : 8 * b + i < next}
        /\ m[b] = {i \in Bits : 8 * b + i < k} /\ DOMAIN m = 0 .. n
    BY DEF UsedUpTo
  <2>2. CASE b # stop
    <3>1. Allocate(m, n)[b] = m[b]
      BY <1>5, <2>1, <2>2
    <3>2. \A i \in Bits : 8 * b + i < next <=> 8 * b + i < k
      <4> HIDE DEF m, stop
      <4> QED
        BY <1>1, <2>2 DEF Bits
    <3> QED
      BY <2>1, <3>1, <3>2
  <2>3. CASE b = stop
    <3>1. Allocate(m, n)[b] = IF next % 8 = 0 THEN Full ELSE Ones(next % 8)
      BY <1>5, <2>1, <2>3
    <3>2. ASSUME next % 8 = 0
          PROVE  \A i \in Bits : 8 * b + i < next
      <4> HIDE DEF m, stop
      <4> QED
        BY <1>1, <2>3, <3>2 DEF Bits
    <3>3. ASSUME next % 8 # 0
          PROVE  \A i \in Bits : 8 * b + i < next <=> i \in Ones(next % 8)
      <4> HIDE DEF m, stop
      <4> QED
        BY <1>1, <2>3, <3>3 DEF Bits, Ones
    <3>4. Ones(next % 8) \subseteq Bits
      BY DEF Ones, Bits
    <3> QED
      BY <2>1, <3>1, <3>2, <3>3, <3>4 DEF Full
  <2> QED
    BY <2>2, <2>3
<1>7. Allocate(m, n) = [b \in 0 .. n |-> Allocate(m, n)[b]]
  BY <1>5 DEF UsedUpTo
<1> QED
  BY <1>4, <1>6, <1>7 DEF UsedUpTo

(* What readNextAvailable... and allocate... do to such a map: the number  *)
(* is free unless the map is full, and it is the only one that is marked.  *)
LEMMA Growing ==
  ASSUME NEW n \in Nat \ {0}, NEW m, Grown(m, n),
         NEW new, new = NextNumber(m, n), NEW m2, m2 = Allocate(m, n)
  PROVE  /\ new \in Numbered(n)
         /\ Grown(m2, n)
         /\ new <= 8 * n => ~ Marked(m, new)
         /\ \A b \in Numbered(n) : Marked(m2, b) <=> Marked(m, b) \/ b = new
<1>1. PICK k \in 0 .. (8 * n + 1) : m = UsedUpTo(k, n)
  BY DEF Grown
<1>2. PICK next : next = IF k < 8 * n THEN k + 1 ELSE 8 * n + 1
  OBVIOUS
<1>3. new = next /\ m2 = UsedUpTo(next, n)
  BY <1>1, <1>2, NextOfUsedUpTo
<1>4. next \in Numbered(n) /\ next \in 0 .. (8 * n + 1)
  BY <1>2 DEF Numbered
<1>5. \A b \in Numbered(n) : Marked(m, b) <=> b <= k
  BY <1>1, MarkedUpTo
<1>6. \A b \in Numbered(n) : Marked(m2, b) <=> b <= next
  BY <1>3, <1>4, MarkedUpTo
<1>7. Grown(m2, n)
  BY <1>3, <1>4 DEF Grown
<1>8. \A b \in Numbered(n) : b <= next <=> b <= k \/ b = next
  BY <1>2 DEF Numbered
<1>9. next <= 8 * n => ~ (next <= k)
  BY <1>2
<1> QED
  BY <1>3, <1>4, <1>5, <1>6, <1>7, <1>8, <1>9

LEMMA FreedMap ==
  ASSUME NEW n \in Nat \ {0}, NEW m \in Map(n), NEW k \in Numbered(n)
  PROVE  freeBlock(m, k) \in Map(n)
<1>1. k \div 8 \in 0 .. n
  BY DEF Numbered
<1>2. ASSUME NEW byte \in Byte, NEW i \in Bits
      PROVE  Subtract(byte, i) \in Byte
  <2> DEFINE above == {j \in byte : j >= i}
             next == IF above = {} THEN 8 ELSE CHOOSE j \in above : \A l \in above : j <= l
  <2>1. above \subseteq Bits
    BY DEF Byte
  <2>2. next \in 0 .. 8
    <3>1. ASSUME above # {}
          PROVE  \E j \in above : \A l \in above : j <= l
      <4>1. above \subseteq Nat
        BY <2>1 DEF Bits
      <4> QED
        BY <3>1, <4>1, NatMin
    <3> QED
      BY <2>1, <3>1 DEF Bits
  <2>3. i .. (next - 1) \subseteq Bits
    <3> HIDE DEF next
    <3> QED
      BY <2>2 DEF Bits
  <2>4. Subtract(byte, i) = (byte \ {next}) \union (i .. (next - 1))
    BY DEF Subtract
  <2> HIDE DEF next
  <2> QED
    BY <2>3, <2>4 DEF Byte
<1>3. (IF k % 8 = 0 THEN 7 ELSE (k % 8) - 1) \in Bits
  BY DEF Numbered, Bits
<1>4. PICK bit \in Bits : bit = IF k % 8 = 0 THEN 7 ELSE (k % 8) - 1
  BY <1>3
<1>5. freeBlock(m, k) = [m EXCEPT ![k \div 8] = Subtract(m[k \div 8], bit)]
  BY <1>4 DEF freeBlock
<1> QED
  BY <1>1, <1>2, <1>5 DEF Map

-----------------------------------------------------------------------------
(* The inductive invariant.                                                *)

(* Every inode that an entry names, or that createFile is about to enter,  *)
(* has been given out; in the map, each of them once.                      *)
InodesDiffer ==
  \A e, f \in DOMAIN dir :
    dir[e].inode = dir[f].inode /\ dir[e].inode <= 8 * INODE_BYTES => e = f

InodeInv ==
  /\ Grown(inodeMap, INODE_BYTES)
  /\ \A e \in DOMAIN dir : Marked(inodeMap, dir[e].inode)
  /\ call.kind \in {"create", "inode", "entry"} =>
       /\ Marked(inodeMap, call.inode)
       /\ call.inode <= 8 * INODE_BYTES => \A e \in DOMAIN dir : dir[e].inode # call.inode
  /\ InodesDiffer

(* The table as it will be when the inode that is being filled in has been *)
(* written to it.                                                          *)
With(t, c) ==
  [i \in Inodes |-> IF c.kind \in {"create", "inode"} /\ i = c.inode THEN c.node ELSE t[i]]
View == With(table, call)

(* The parts of an inode are filled one after the other.                   *)
Filled(node) ==
  /\ Len(node.direct) <= DIRECT
  /\ node.indirect # 0 => Len(node.direct) = DIRECT
  /\ node.indirect = 0 => node.more = <<>>

(* The inode whose indirect block is still to be written, 0 if none is.    *)
Open(c) == IF c.kind = "create" /\ c.written > DIRECT THEN c.inode ELSE 0

(* A table t whose blocks map m has in use, each for one purpose, and for  *)
(* which d holds the blocks of the files, but for the indirect block of    *)
(* inode o.                                                                *)
Exclusive(t) ==
  \A i, j \in Inodes :
    \A p \in DOMAIN Numbers(t[i]), q \in DOMAIN Numbers(t[j]) :
      LET b == Numbers(t[i])[p]
      IN  /\ b > RESERVED_BLOCKS
          /\ b = Numbers(t[j])[q] /\ InMap(b) => i = j /\ p = q

MarkedAll(t, m) ==
  \A i \in Inodes : \A p \in DOMAIN Numbers(t[i]) : Marked(m, Numbers(t[i])[p])

Holds(t, d, o) ==
  \A i \in Inodes : \A p \in DOMAIN Numbers(t[i]) :
    InMap(Numbers(t[i])[p]) /\ ~ (i = o /\ p = DIRECT + 1) =>
      d[Numbers(t[i])[p]] = <<i, p - 1>>

Sound(t, m, d, o) ==
  /\ \A i \in Inodes : Filled(t[i])
  /\ Exclusive(t) /\ MarkedAll(t, m) /\ Holds(t, d, o)

(* No inode of t has block b.                                              *)
Unused(t, b) == \A i \in Inodes : \A p \in DOMAIN Numbers(t[i]) : Numbers(t[i])[p] # b

(* Without deletions nothing is freed, so a block that is given out is one *)
(* that no inode has, neither in the table nor in the call.                *)
BlockInv ==
  deletes = 0 =>
    /\ call.kind \notin {"delete", "remove"}
    /\ Grown(blockMap, BLOCK_BYTES)
    /\ \A b \in 1 .. RESERVED_BLOCKS : Marked(blockMap, b)
    /\ Sound(table, blockMap, data, 0) /\ Sound(View, blockMap, data, Open(call))
    /\ call.kind = "create" =>
         /\ call.written <= Len(Numbers(call.node))
         /\ call.written > DIRECT =>
              /\ call.written = Len(Numbers(call.node))
              /\ InMap(call.node.indirect) => Unused(table, call.node.indirect)

(* An inode that was not given out is empty, so a file that gets it has as *)
(* many blocks as were written for it.                                     *)
SizeInv ==
  deletes = 0 =>
    /\ \A i \in Inodes : ~Marked(inodeMap, i) => table[i] = NoInode
    /\ call.kind = "create" /\ call.inode <= 8 * INODE_BYTES =>
         Len(Numbers(call.node)) = call.written
    /\ call.kind = "inode" /\ call.inode <= 8 * INODE_BYTES =>
         Len(Numbers(call.node)) = call.size
    /\ call.kind = "entry" /\ call.inode <= 8 * INODE_BYTES =>
         Len(Numbers(table[call.inode])) = call.size
    /\ \A e \in DOMAIN dir :
         dir[e].inode <= MAX_FILES_PER_DIRECTORY =>
           Len(Numbers(table[dir[e].inode])) = dir[e].size

-----------------------------------------------------------------------------
(* Lists of block numbers.                                                 *)

(* The list consists of the direct blocks, the indirect one and the rest.  *)
Layout(list, direct, indirect, more) ==
  /\ list \in Seq(Blocks)
  /\ Len(list) = Len(direct) + (IF indirect = 0 THEN 0 ELSE 1 + Len(more))
  /\ \A p \in 1 .. Len(list) :
       list[p] = IF p <= Len(direct) THEN direct[p]
                 ELSE IF p = Len(direct) + 1 THEN indirect ELSE more[p - Len(direct) - 1]

LEMMA NumbersOf ==
  ASSUME NEW node \in Node, Filled(node),
         NEW direct, NEW indirect, NEW more,
         node.direct = direct, node.indirect = indirect, node.more = more
  PROVE  Layout(Numbers(node), direct, indirect, more)
<1>1. direct \in Seq(Blocks) /\ more \in Seq(Blocks) /\ indirect \in Blocks \union {0}
  BY DEF Node
<1>2. Numbers(node) = direct \o (IF indirect = 0 THEN <<>> ELSE <<indirect>>) \o more
  BY DEF Numbers
<1>3. indirect = 0 => more = <<>>
  BY DEF Filled
<1>4. CASE indirect = 0
  <2>1. Numbers(node) = direct
    BY <1>1, <1>2, <1>3, <1>4, ConcatEmptySeq
  <2> QED
    BY <1>1, <1>4, <2>1 DEF Layout
<1>5. CASE indirect # 0
  <2>1. Numbers(node) = (direct \o <<indirect>>) \o more
    BY <1>2, <1>5
  <2>2. <<indirect>> \in Seq(Blocks) /\ Len(<<indirect>>) = 1 /\ <<indirect>>[1] = indirect
    BY <1>1, <1>5
  <2>3. PICK first \in Seq(Blocks) : first = direct \o <<indirect>>
    BY <1>1, <2>2, ConcatProperties
  <2>4. /\ Len(first) = Len(direct) + 1
        /\ \A p \in 1 .. Len(first) :
             first[p] = IF p <= Len(direct) THEN direct[p] ELSE indirect
    BY <1>1, <2>2, <2>3, ConcatProperties
  <2>5. /\ Numbers(node) \in Seq(Blocks)
        /\ Len(Numbers(node)) = Len(first) + Len(more)
        /\ \A p \in 1 .. Len(Numbers(node)) :
             Numbers(node)[p] = IF p <= Len(first) THEN first[p] ELSE more[p - Len(first)]
    BY <1>1, <2>1, <2>3, ConcatProperties
  <2>6. \A p \in 1 .. Len(Numbers(node)) :
          Numbers(node)[p] =
            IF p <= Len(direct) THEN direct[p]
            ELSE IF p = Len(direct) + 1 THEN indirect ELSE more[p - Len(direct) - 1]
    BY <1>1, <2>4, <2>5
  <2>7. Len(Numbers(node)) = Len(direct) + (1 + Len(more))
    BY <1>1, <2>4, <2>5
  <2> QED
    BY <1>5, <2>5, <2>6, <2>7 DEF Layout
<1> QED
  BY <1>4, <1>5

(* list2 has b at place p, and what list has everywhere else.              *)
Placed(list2, list, p, b) ==
  /\ list2 \in Seq(Blocks)
  /\ p \in 1 .. Len(list2) /\ list2[p] = b
  /\ \A q \in 1 .. Len(list2) : q # p => q \in 1 .. Len(list) /\ list2[q] = list[q]

LEMMA PutList ==
  ASSUME NEW list \in Seq(Blocks), NEW p \in 1 .. Len(list) + 1, NEW b \in Blocks,
         NEW list2, list2 = Put(list, p, b)
  PROVE  /\ Placed(list2, list, p, b)
         /\ Len(list2) = IF p <= Len(list) THEN Len(list) ELSE Len(list) + 1
<1>1. CASE p <= Len(list)
  BY <1>1, ExceptSeq DEF Put, Placed
<1>2. CASE p = Len(list) + 1
  BY <1>2, AppendProperties DEF Put, Placed
<1> QED
  BY <1>1, <1>2

(* The block goes to place j + 1; the other places keep what they had.     *)
LEMMA StoreAtPlace ==
  ASSUME NEW node \in Node, Filled(node), NEW b \in Blocks,
         NEW j \in Nat, j <= Len(Numbers(node)),
         j > DIRECT => j = Len(Numbers(node)),
         NEW node2, node2 = Store(node, j, b),
         NEW place, place = j + 1
  PROVE  /\ node2 \in Node /\ Filled(node2)
         /\ Placed(Numbers(node2), Numbers(node), place, b)
         /\ j >= DIRECT \/ j = Len(Numbers(node)) => Len(Numbers(node2)) = place
<1>1. PICK direct \in Seq(Blocks), indirect \in Blocks \union {0}, more \in Seq(Blocks) :
        node = [direct |-> direct, indirect |-> indirect, more |-> more]
  BY DEF Node
<1>2. DIRECT \in Nat \ {0} /\ place \in Nat
  BY FileSystemAssumption
<1>3. PICK old, new : old = Numbers(node) /\ new = Numbers(node2)
  OBVIOUS
<1>4. Layout(old, direct, indirect, more)
  BY <1>1, <1>3, NumbersOf
<1>5. /\ old \in Seq(Blocks)
      /\ indirect = 0 => Len(old) = Len(direct)
      /\ indirect # 0 => Len(old) = Len(direct) + 1 + Len(more)
  BY <1>4 DEF Layout
<1>6. /\ Len(direct) <= DIRECT
      /\ indirect # 0 => Len(direct) = DIRECT
      /\ indirect = 0 => more = <<>>
  BY <1>1 DEF Filled
<1>7. j \in 0 .. Len(old) /\ (j > DIRECT => j = Len(old))
  BY <1>3, <1>5
<1>8. ASSUME NEW direct2 \in Seq(Blocks), NEW indirect2 \in Blocks \union {0},
             NEW more2 \in Seq(Blocks),
             node2 = [direct |-> direct2, indirect |-> indirect2, more |-> more2],
             Len(direct2) <= DIRECT, indirect2 # 0 => Len(direct2) = DIRECT,
             indirect2 = 0 => more2 = <<>>
      PROVE  node2 \in Node /\ Filled(node2) /\ Layout(new, direct2, indirect2, more2)
  <2>1. node2.direct = direct2 /\ node2.indirect = indirect2 /\ node2.more = more2
    BY <1>8
  <2>2. node2 \in Node
    BY <1>8 DEF Node
  <2>3. Filled(node2)
    BY <1>8, <2>1 DEF Filled
  <2> QED
    BY <1>3, <2>1, <2>2, <2>3, NumbersOf
<1>9. SUFFICES /\ node2 \in Node /\ Filled(node2)
               /\ Placed(new, old, place, b)
               /\ j >= DIRECT \/ j = Len(old) => Len(new) = place
  BY <1>3, Zenon
<1>10. CASE j < DIRECT
  <2>1. place \in 1 .. Len(direct) + 1
    BY <1>2, <1>5, <1>6, <1>7, <1>10
  <2>2. place = Len(direct) + 1 => indirect = 0
    BY <1>2, <1>5, <1>6, <1>7, <1>10
  <2>3. PICK direct2 : direct2 = Put(direct, place, b)
    OBVIOUS
  <2>4. Placed(direct2, direct, place, b)
        /\ Len(direct2) = IF place <= Len(direct) THEN Len(direct) ELSE Len(direct) + 1
    BY <2>1, <2>3, PutList
  <2>5. direct2 \in Seq(Blocks) /\ place \in 1 .. Len(direct2) /\ direct2[place] = b
    BY <2>4 DEF Placed
  <2>6. node2 = [direct |-> direct2, indirect |-> indirect, more |-> more]
    BY <1>1, <1>10, <2>3 DEF Store
  <2>7. Len(direct2) <= DIRECT /\ (indirect # 0 => Len(direct2) = Len(direct))
    BY <1>2, <1>6, <1>10, <2>1, <2>2, <2>4
  <2>8. node2 \in Node /\ Filled(node2) /\ Layout(new, direct2, indirect, more)
    BY <1>6, <1>8, <2>5, <2>6, <2>7
  <2>9. /\ new \in Seq(Blocks)
        /\ indirect = 0 => Len(new) = Len(direct2)
        /\ indirect # 0 => Len(new) = Len(direct2) + 1 + Len(more)
    BY <2>5, <2>8 DEF Layout
  <2>10. place \in 1 .. Len(new)
    BY <2>5, <2>9
  <2>11. \A p \in 1 .. Len(new) :
           new[p] = IF p <= Len(direct2) THEN direct2[p]
                    ELSE IF p = Len(direct2) + 1 THEN indirect ELSE more[p - Len(direct2) - 1]
    BY <2>8 DEF Layout
  <2>12. new[place] = b
    BY <2>5, <2>10, <2>11
  <2>13. ASSUME NEW p \in 1 .. Len(new), p # place
         PROVE  p \in 1 .. Len(old) /\ new[p] = old[p]
    <3>1. p <= Len(direct2) => p \in 1 .. Len(direct) /\ direct2[p] = direct[p]
      BY <2>4, <2>5, <2>13 DEF Placed
    <3>2. p > Len(direct2) => indirect # 0 /\ Len(direct2) = Len(direct)
      BY <2>5, <2>7, <2>9
    <3>3. p \in 1 .. Len(old)
      BY <1>5, <2>5, <2>9, <3>1, <3>2
    <3>4. old[p] = IF p <= Len(direct) THEN direct[p]
                   ELSE IF p = Len(direct) + 1 THEN indirect ELSE more[p - Len(direct) - 1]
      BY <1>4, <3>3 DEF Layout
    <3>5. CASE p <= Len(direct2)
      BY <2>11, <3>1, <3>3, <3>4, <3>5
    <3>6. CASE p > Len(direct2)
      <4>1. ~ (p <= Len(direct2)) /\ ~ (p <= Len(direct)) /\ Len(direct2) = Len(direct)
        BY <2>5, <3>2, <3>6
      <4> QED
        BY <2>11, <3>3, <3>4, <4>1
    <3> QED
      BY <2>5, <3>5, <3>6
  <2>14. j = Len(old) => Len(new) = place
    <3>1. j = Len(old) => indirect = 0 /\ j = Len(direct)
      BY <1>2, <1>5, <1>6, <1>10
    <3> QED
      BY <2>4, <2>9, <3>1
  <2>15. Placed(new, old, place, b)
    BY <2>9, <2>10, <2>12, <2>13 DEF Placed
  <2> QED
    BY <1>2, <1>10, <2>8, <2>14, <2>15
<1>11. CASE j = DIRECT
  <2>1. Len(direct) = DIRECT /\ place = Len(direct) + 1
    BY <1>2, <1>5, <1>6, <1>7, <1>11
  <2>2. PICK none \in Seq(Blocks) : none = <<>> /\ Len(none) = 0
    BY EmptySeq
  <2>3. node2 = [direct |-> direct, indirect |-> b, more |-> none]
    <3>1. ~ (j < DIRECT)
      BY <1>2, <1>11
    <3>2. node2 = [node EXCEPT !.indirect = b, !.more = <<>>]
      BY <1>11, <3>1 DEF Store
    <3> QED
      BY <1>1, <2>2, <3>2
  <2>4. b # 0
    BY DEF Blocks
  <2>5. node2 \in Node /\ Filled(node2) /\ Layout(new, direct, b, none)
    <3>1. Len(direct) <= DIRECT /\ b \in Blocks \union {0}
      BY <1>2, <2>1
    <3> QED
      BY <1>8, <2>1, <2>2, <2>3, <2>4, <3>1, Zenon
  <2>6. new \in Seq(Blocks) /\ Len(new) = place
    BY <1>2, <2>1, <2>2, <2>4, <2>5 DEF Layout
  <2>7. new[place] = b /\ \A p \in 1 .. Len(direct) : p \in 1 .. Len(new) /\ new[p] = direct[p]
    BY <2>1, <2>5, <2>6 DEF Layout
  <2>8. \A p \in 1 .. Len(direct) : p \in 1 .. Len(old) /\ old[p] = direct[p]
    BY <1>4, <1>5 DEF Layout
  <2>9. \A p \in 1 .. Len(new) : p # place => p \in 1 .. Len(direct)
    BY <2>1, <2>6
  <2>10. place \in 1 .. Len(new)
    BY <1>2, <2>1, <2>6
  <2>11. Placed(new, old, place, b)
    BY <2>6, <2>7, <2>8, <2>9, <2>10 DEF Placed
  <2> QED
    BY <2>5, <2>6, <2>11
<1>12. CASE j > DIRECT
  <2>1. /\ j = Len(old) /\ indirect # 0 /\ Len(direct) = DIRECT
        /\ place = DIRECT + 2 + Len(more)
    BY <1>2, <1>5, <1>6, <1>7, <1>12
  <2>2. PICK more2 : more2 = Append(more, b)
    OBVIOUS
  <2>3. /\ more2 \in Seq(Blocks) /\ Len(more2) = Len(more) + 1 /\ more2[Len(more) + 1] = b
        /\ \A q \in 1 .. Len(more) : more2[q] = more[q]
    BY <2>2, AppendProperties
  <2>4. node2 = [direct |-> direct, indirect |-> indirect, more |-> more2]
    <3>1. ~ (j < DIRECT) /\ j # DIRECT
      BY <1>2, <1>12
    <3> QED
      BY <1>1, <2>2, <3>1 DEF Store
  <2>5. node2 \in Node /\ Filled(node2) /\ Layout(new, direct, indirect, more2)
    BY <1>2, <1>6, <1>8, <2>1, <2>3, <2>4
  <2>6. new \in Seq(Blocks) /\ Len(new) = place
    BY <1>2, <2>1, <2>3, <2>5 DEF Layout
  <2>7. new[place] = b
    BY <1>2, <2>1, <2>3, <2>5, <2>6 DEF Layout
  <2>8. ASSUME NEW p \in 1 .. Len(new), p # place
        PROVE  p \in 1 .. Len(old) /\ new[p] = old[p]
    <3>1. p \in 1 .. Len(old)
      BY <1>2, <1>5, <2>1, <2>6, <2>8
    <3>2. new[p] = IF p <= Len(direct) THEN direct[p]
                   ELSE IF p = Len(direct) + 1 THEN indirect ELSE more2[p - Len(direct) - 1]
      BY <2>5 DEF Layout
    <3>3. old[p] = IF p <= Len(direct) THEN direct[p]
                   ELSE IF p = Len(direct) + 1 THEN indirect ELSE more[p - Len(direct) - 1]
      BY <1>4, <3>1 DEF Layout
    <3>4. p > Len(direct) + 1 => p - Len(direct) - 1 \in 1 .. Len(more)
      BY <1>5, <2>1, <3>1
    <3> QED
      BY <2>3, <3>1, <3>2, <3>3, <3>4, SMTT(30)
  <2>9. place \in 1 .. Len(new)
    BY <1>2, <2>6
  <2>10. Placed(new, old, place, b)
    BY <2>6, <2>7, <2>8, <2>9 DEF Placed
  <2> QED
    BY <2>5, <2>6, <2>10
<1> QED
  BY <1>2, <1>10, <1>11, <1>12

-----------------------------------------------------------------------------
(* Types.                                                                  *)

CreateCalls ==
  [kind : {"create", "inode", "entry"}, name : Names, inode : Inodes, size : Sizes,
   written : Nat, node : Node]
DeleteCalls == [kind : {"delete", "remove"}, inode : Inodes, toFree : Seq(Blocks)]

LEMMA CallTypes ==
  ASSUME NEW c \in Calls
  PROVE  /\ c.kind \in {"create", "inode", "entry"} => c \in CreateCalls
         /\ c.kind \in {"delete", "remove"} => c \in DeleteCalls
         /\ c.kind \notin {"create", "inode", "entry", "delete", "remove"} => c = Idle
BY DEF Calls, CreateCalls, DeleteCalls, Idle

LEMMA CallsAre == Calls = {Idle} \union CreateCalls \union DeleteCalls
BY DEF Calls, CreateCalls, DeleteCalls

LEMMA NoInodeType == NoInode \in Node /\ Filled(NoInode) /\ Numbers(NoInode) = <<>>
<1>1. NoInode \in Node
  BY DEF NoInode, Node
<1>2. Filled(NoInode)
  <2>1. Len(<<>>) <= DIRECT
    BY FileSystemAssumption, EmptySeq
  <2> QED
    BY <2>1 DEF NoInode, Filled
<1>3. Numbers(NoInode) = <<>>
  <2>1. Numbers(NoInode) = <<>> \o <<>> \o <<>>
    BY DEF NoInode, Numbers
  <2>2. <<>> \in Seq(Blocks)
    BY EmptySeq
  <2> QED
    BY <2>1, <2>2, ConcatEmptySeq
<1> QED
  BY <1>1, <1>2, <1>3

LEMMA UsedUpToType ==
  ASSUME NEW n \in Nat, NEW k
  PROVE  UsedUpTo(k, n) \in Map(n)
BY DEF UsedUpTo, Map, Byte

LEMMA TypeInit == Init => TypeOK
<1> SUFFICES ASSUME Init PROVE TypeOK
  OBVIOUS
<1>1. blockMap \in Map(BLOCK_BYTES) /\ inodeMap \in Map(INODE_BYTES)
  BY FileSystemAssumption, UsedUpToType DEF Init
<1>2. table \in [Inodes -> Node]
  BY NoInodeType DEF Init
<1>3. data \in [Blocks -> (Inodes \union {0}) \X Nat]
  BY DEF Init
<1>4. dir \in Seq([name : Names, inode : Inodes, size : Sizes])
  BY EmptySeq DEF Init
<1>5. call \in Calls
  BY CallsAre DEF Init
<1>6. /\ creates \in 0 .. MaxCreates /\ deletes \in 0 .. MaxDeletes
      /\ lastEntry \in BOOLEAN /\ intact \in BOOLEAN
  BY FileSystemAssumption DEF Init
<1> QED
  BY <1>1, <1>2, <1>3, <1>4, <1>5, <1>6 DEF TypeOK

(* The numbers the two usage maps give.                                    *)
LEMMA BlockNumber ==
  ASSUME TypeOK
  PROVE  readNextAvailableBlock \in Blocks /\ allocateFreeBlock \in Map(BLOCK_BYTES)
BY FileSystemAssumption, NextNumberType
   DEF TypeOK, readNextAvailableBlock, allocateFreeBlock, Blocks

LEMMA InodeNumber ==
  ASSUME TypeOK
  PROVE  readNextAvailableInode \in Inodes /\ allocateInode \in Map(INODE_BYTES)
BY FileSystemAssumption, NextNumberType
   DEF TypeOK, readNextAvailableInode, allocateInode, Inodes

LEMMA StoreType ==
  ASSUME NEW node \in Node, NEW j \in Nat, NEW b \in Blocks
  PROVE  Store(node, j, b) \in Node
<1>1. PICK direct \in Seq(Blocks), indirect \in Blocks \union {0}, more \in Seq(Blocks) :
        node = [direct |-> direct, indirect |-> indirect, more |-> more]
  BY DEF Node
<1>2. CASE j < DIRECT
  <2>1. PICK direct2 : direct2 = Put(direct, j + 1, b)
    OBVIOUS
  <2>2. direct2 \in Seq(Blocks)
    <3>1. j + 1 <= Len(direct) => direct2 \in Seq(Blocks)
      BY <2>1, ExceptSeq DEF Put
    <3>2. ~ (j + 1 <= Len(direct)) => direct2 \in Seq(Blocks)
      BY <2>1, AppendProperties DEF Put
    <3> QED
      BY <3>1, <3>2
  <2> QED
    BY <1>1, <1>2, <2>1, <2>2 DEF Store, Node
<1>3. CASE j = DIRECT
  <2>1. <<>> \in Seq(Blocks) /\ ~ (j < DIRECT)
    BY <1>3, FileSystemAssumption, EmptySeq
  <2> QED
    BY <1>1, <1>3, <2>1 DEF Store, Node
<1>4. CASE ~ (j < DIRECT) /\ j # DIRECT
  <2>1. Append(more, b) \in Seq(Blocks)
    BY AppendProperties
  <2> QED
    BY <1>1, <1>4, <2>1 DEF Store, Node
<1> QED
  BY <1>2, <1>3, <1>4

(* What a turn of writeBufferToDisk does.                                  *)
LEMMA WriteStores ==
  ASSUME TypeOK, writeBufferToDisk,
         NEW b, b = readNextAvailableBlock
  PROVE  /\ call \in CreateCalls /\ call.kind = "create"
         /\ b \in Blocks
         /\ call' = [call EXCEPT !.written = call.written + 1,
                                 !.node = Store(call.node, call.written, b)]
         /\ data' = IF call.written = DIRECT THEN data
                    ELSE [data EXCEPT ![b] = <<call.inode, call.written>>]
         /\ intact' = intact \/ intact' = (intact /\ ~ HoldsMetadata(b))
<1>1. call \in CreateCalls /\ call.kind = "create" /\ b \in Blocks
  BY BlockNumber, CallTypes DEF TypeOK, writeBufferToDisk
<1>2. call' = [call EXCEPT !.written = call.written + 1,
                           !.node = Store(call.node, call.written, b)]
  BY Zenon DEF writeBufferToDisk
<1>3. IF call.written = DIRECT THEN UNCHANGED <<data, intact>> ELSE writeBlock(b, call.written)
  BY Zenon DEF writeBufferToDisk
<1>4. CASE call.written = DIRECT
  BY <1>1, <1>2, <1>3, <1>4
<1>5. CASE call.written # DIRECT
  BY <1>1, <1>2, <1>3, <1>5 DEF writeBlock
<1> QED
  BY <1>4, <1>5

Entries == [name : Names, inode : Inodes, size : Sizes]

(* The list without the entry at place e.                                  *)
Without(list, e) == SubSeq(list, 1, e - 1) \o SubSeq(list, e + 1, Len(list))

(* Where the element at place f of that list was.                          *)
Origin(f, e) == IF f < e THEN f ELSE f + 1

LEMMA WithoutOne ==
  ASSUME NEW S, NEW list \in Seq(S), NEW e \in 1 .. Len(list),
         NEW list2, list2 = Without(list, e)
  PROVE  /\ list2 \in Seq(S)
         /\ Len(list2) = Len(list) - 1
         /\ \A f \in 1 .. Len(list2) :
              list2[f] = list[Origin(f, e)]
<1>1. PICK n \in Nat : n = Len(list) /\ e \in 1 .. n
  BY LenProperties
<1>2. PICK front, back : front = SubSeq(list, 1, e - 1) /\ back = SubSeq(list, e + 1, n)
  OBVIOUS
<1>3. /\ front \in Seq(S) /\ Len(front) = e - 1
      /\ \A f \in 1 .. e - 1 : front[f] = list[f]
  <2>1. \A f \in 1 .. e - 1 : list[f] \in S
    BY <1>1
  <2> QED
    BY <1>1, <1>2, <2>1, SubSeqProperties
<1>4. /\ back \in Seq(S) /\ Len(back) = n - e
      /\ \A f \in 1 .. n - e : back[f] = list[e + f]
  <2>1. PICK next \in Int : next = e + 1
    BY <1>1
  <2>2. \A f \in next .. n : list[f] \in S
    BY <1>1, <2>1
  <2>3. /\ back \in Seq(S)
        /\ Len(back) = IF next <= n THEN n - next + 1 ELSE 0
        /\ \A f \in 1 .. n - next + 1 : back[f] = list[next + f - 1]
    BY <1>1, <1>2, <2>1, <2>2, SubSeqProperties
  <2>4. Len(back) = n - e
    BY <1>1, <2>1, <2>3
  <2>5. \A f \in 1 .. n - e : f \in 1 .. n - next + 1 /\ next + f - 1 = e + f
    BY <1>1, <2>1
  <2> QED
    BY <2>3, <2>4, <2>5
<1>5. /\ list2 \in Seq(S)
      /\ Len(list2) = Len(front) + Len(back)
      /\ \A f \in 1 .. Len(front) + Len(back) :
           list2[f] = IF f <= Len(front) THEN front[f] ELSE back[f - Len(front)]
  <2>1. list2 = front \o back
    BY <1>1, <1>2 DEF Without
  <2>2. front \in Seq(S) /\ back \in Seq(S)
    BY <1>3, <1>4
  <2> QED
    BY <2>1, <2>2, ConcatProperties
<1>6. Len(list2) = n - 1
  <2>1. Len(front) = e - 1 /\ Len(back) = n - e /\ Len(list2) = Len(front) + Len(back)
    BY <1>3, <1>4, <1>5
  <2> QED
    BY <1>1, <2>1
<1>7. ASSUME NEW f \in 1 .. Len(list2)
      PROVE  list2[f] = list[Origin(f, e)]
  <2>1. CASE f < e
    <3>1. f \in 1 .. e - 1 /\ f <= Len(front)
      BY <1>1, <1>3, <1>6, <2>1
    <3> QED
      BY <1>3, <1>5, <1>6, <2>1, <3>1 DEF Origin
  <2>2. CASE ~ (f < e)
    <3>1. f \in 1 .. n - 1 /\ Len(front) = e - 1
      BY <1>3, <1>6
    <3>2. PICK g \in Int : g = f - (e - 1)
      BY <1>1, <3>1
    <3>3. g \in 1 .. n - e /\ e + g = f + 1 /\ ~ (f <= Len(front)) /\ g = f - Len(front)
      BY <1>1, <2>2, <3>1, <3>2
    <3>4. list2[f] = back[g]
      BY <1>1, <1>3, <1>4, <1>5, <1>6, <3>1, <3>3
    <3> QED
      BY <1>4, <2>2, <3>3, <3>4 DEF Origin
  <2> QED
    BY <2>1, <2>2
<1> QED
  BY <1>1, <1>5, <1>6, <1>7

LEMMA TypeStep == TypeOK /\ [Next]_vars => TypeOK'
<1> SUFFICES ASSUME TypeOK, [Next]_vars PROVE TypeOK'
  OBVIOUS
<1> USE DEF TypeOK
<1>1. ASSUME NEW name \in Names, NEW size \in Sizes, createFile(name, size)
      PROVE  TypeOK'
  <2>1. call' \in CreateCalls
    BY <1>1, InodeNumber DEF createFile, Creating, CreateCalls
  <2>2. creates' \in 0 .. MaxCreates
    BY <1>1, FileSystemAssumption DEF createFile
  <2> QED
    BY <1>1, <2>1, <2>2, CallsAre, InodeNumber DEF createFile
<1>2. ASSUME writeBufferToDisk
      PROVE  TypeOK'
  <2>1. PICK b : b = readNextAvailableBlock
    OBVIOUS
  <2>2. call \in CreateCalls /\ b \in Blocks
    BY <1>2, <2>1, WriteStores
  <2>3. call.written \in Nat /\ call.node \in Node /\ call.inode \in Inodes
    BY <2>2 DEF CreateCalls
  <2>4. PICK node2 \in Node : node2 = Store(call.node, call.written, b)
    BY <2>2, <2>3, StoreType
  <2>5. call' = [call EXCEPT !.written = call.written + 1, !.node = node2]
    BY <1>2, <2>1, <2>4, WriteStores
  <2>6. call' \in CreateCalls
    <3>1. PICK w \in Nat : w = call.written + 1
      BY <2>3
    <3> QED
      BY <2>2, <2>5, <3>1 DEF CreateCalls
  <2>7. data' = IF call.written = DIRECT THEN data
                ELSE [data EXCEPT ![b] = <<call.inode, call.written>>]
    BY <1>2, <2>1, WriteStores
  <2>8. data' \in [Blocks -> (Inodes \union {0}) \X Nat]
    BY <2>2, <2>3, <2>7
  <2>9. intact' \in BOOLEAN
    BY <1>2, <2>1, WriteStores
  <2> QED
    BY <1>2, <2>6, <2>8, <2>9, CallsAre, BlockNumber DEF writeBufferToDisk, counts
<1>3. ASSUME writeInodeEntry
      PROVE  TypeOK'
  <2>1. call \in CreateCalls
    BY <1>3, CallTypes DEF writeInodeEntry, BufferWritten
  <2>2. call' \in CreateCalls
    BY <1>3, <2>1 DEF writeInodeEntry, CreateCalls
  <2>3. table' \in [Inodes -> Node]
    BY <1>3, <2>1 DEF writeInodeEntry, CreateCalls
  <2> QED
    BY <1>3, <2>2, <2>3, CallsAre DEF writeInodeEntry, counts
<1>4. ASSUME writeDirectory
      PROVE  TypeOK'
  <2>1. call \in CreateCalls
    BY <1>4, CallTypes DEF writeDirectory
  <2>2. [name |-> call.name, inode |-> call.inode, size |-> call.size] \in Entries
    BY <2>1 DEF CreateCalls, Entries
  <2>3. dir' \in Seq(Entries)
    BY <1>4, <2>2, AppendProperties DEF writeDirectory, Entries
  <2> QED
    BY <1>4, <2>3, CallsAre DEF writeDirectory, Room, counts, Entries
<1>5. ASSUME NEW name \in Names, NEW e \in DOMAIN dir, deleteFile(name, e)
      PROVE  TypeOK'
  <2>1. dir[e].inode \in Inodes
    <3>1. dir \in Seq(Entries)
      BY DEF Entries
    <3>2. dir[e] \in Entries
      BY <3>1, LenProperties, ElementOfSeq
    <3> QED
      BY <3>2 DEF Entries
  <2>2. DataBlocks(table[dir[e].inode]) \in Seq(Blocks)
    BY <2>1, ConcatProperties DEF DataBlocks, Node
  <2>3. call' \in DeleteCalls
    BY <1>5, <2>1, <2>2 DEF deleteFile, Deleting, DeleteCalls
  <2>4. deletes' \in 0 .. MaxDeletes
    BY <1>5, FileSystemAssumption, SMTT(20) DEF deleteFile
  <2> QED
    BY <1>5, <2>3, <2>4, CallsAre DEF deleteFile, disk
<1>6. ASSUME freeAllBlocks
      PROVE  TypeOK'
  <2>1. call \in DeleteCalls
    BY <1>6, CallTypes DEF freeAllBlocks
  <2>2. Head(call.toFree) \in Blocks /\ Tail(call.toFree) \in Seq(Blocks)
    BY <1>6, <2>1, HeadTailProperties DEF freeAllBlocks, DeleteCalls
  <2>3. blockMap' \in Map(BLOCK_BYTES)
    BY <1>6, <2>2, FreedMap, FileSystemAssumption DEF freeAllBlocks, Blocks, Numbered
  <2>4. call' \in DeleteCalls
    BY <1>6, <2>1, <2>2 DEF freeAllBlocks, DeleteCalls
  <2> QED
    BY <1>6, <2>3, <2>4, CallsAre DEF freeAllBlocks, counts
<1>7. ASSUME zeroInode
      PROVE  TypeOK'
  <2>1. call \in DeleteCalls
    BY <1>7, CallTypes DEF zeroInode
  <2>2. call' \in DeleteCalls
    BY <1>7, <2>1 DEF zeroInode, DeleteCalls
  <2>3. table' \in [Inodes -> Node]
    BY <1>7, NoInodeType DEF zeroInode
  <2> QED
    BY <1>7, <2>2, <2>3, CallsAre DEF zeroInode, counts
<1>8. ASSUME deleteDirectoryEntry
      PROVE  TypeOK'
  <2>1. dir' \in Seq([name : Names, inode : Inodes, size : Sizes])
    <3>1. PICK e \in DOMAIN dir : dir' = Without(dir, e)
      BY <1>8 DEF deleteDirectoryEntry, Without
    <3>2. e \in 1 .. Len(dir)
      BY <3>1, LenProperties
    <3> QED
      BY <3>1, <3>2, WithoutOne
  <2> QED
    BY <1>8, <2>1, CallsAre DEF deleteDirectoryEntry, counts
<1>9. ASSUME PowerOff
      PROVE  TypeOK'
  <2>1. table' \in [Inodes -> Node]
    BY <1>9, NoInodeType DEF PowerOff
  <2> QED
    BY <1>9, <2>1, CallsAre DEF PowerOff, counts
<1>10. ASSUME UNCHANGED vars
       PROVE  TypeOK'
  BY <1>10 DEF vars, disk, counts
<1>11. ASSUME writeIndirectBlock
       PROVE  TypeOK'
  <2>1. call \in CreateCalls
    BY <1>11, CallTypes DEF writeIndirectBlock
  <2>2. call' \in CreateCalls
    BY <1>11, <2>1 DEF writeIndirectBlock, CreateCalls
  <2>3. <<call.inode, DIRECT>> \in (Inodes \union {0}) \X Nat
    BY <2>1, FileSystemAssumption DEF CreateCalls
  <2>4. /\ data' \in [Blocks -> (Inodes \union {0}) \X Nat]
        /\ intact' \in BOOLEAN
    BY <1>11, <2>3 DEF writeIndirectBlock, writeBlock
  <2> QED
    BY <1>11, <2>2, <2>4, CallsAre DEF writeIndirectBlock, counts
<1> QED
  BY <1>1, <1>2, <1>3, <1>4, <1>5, <1>6, <1>7, <1>8, <1>9, <1>10, <1>11 DEF Next

(* The variables keep their types: a number that a usage map gives always  *)
(* has a byte of the map (a full one gives the number past it), and a call *)
(* never hands on anything but such numbers.                               *)
THEOREM TypeCorrect == Spec => []TypeOK
BY TypeInit, TypeStep, PTL DEF Spec

-----------------------------------------------------------------------------
(* Inode numbers.                                                          *)

LEMMA DirType ==
  ASSUME TypeOK
  PROVE  /\ dir \in Seq(Entries) /\ DOMAIN dir = 1 .. Len(dir) /\ Len(dir) \in Nat
         /\ \A e \in DOMAIN dir : dir[e] \in Entries /\ dir[e].inode \in Inodes
<1>1. dir \in Seq(Entries)
  BY DEF TypeOK, Entries
<1>2. \A e \in DOMAIN dir : dir[e] \in Entries
  BY <1>1, LenProperties, ElementOfSeq
<1> QED
  BY <1>1, <1>2, LenProperties DEF Entries

LEMMA InodeInit == Init => InodeInv
<1> SUFFICES ASSUME Init PROVE InodeInv
  OBVIOUS
<1>1. Grown(inodeMap, INODE_BYTES)
  <2>1. RESERVED_INODES \in 0 .. (8 * INODE_BYTES + 1)
    BY FileSystemAssumption
  <2> QED
    BY <2>1 DEF Init, Grown
<1>2. DOMAIN dir = {}
  BY DEF Init
<1> QED
  BY <1>1, <1>2 DEF Init, Idle, InodeInv, InodesDiffer

LEMMA InodeStep == TypeOK /\ InodeInv /\ [Next]_vars => InodeInv'
<1> SUFFICES ASSUME TypeOK, InodeInv, [Next]_vars PROVE InodeInv'
  OBVIOUS
<1>1. ASSUME UNCHANGED <<inodeMap, dir>>,
             call'.kind \in {"create", "inode", "entry"} =>
               call.kind \in {"create", "inode", "entry"} /\ call'.inode = call.inode
      PROVE  InodeInv'
  BY <1>1 DEF InodeInv, InodesDiffer, Marked, Grown
<1>2. ASSUME NEW name \in Names, NEW size \in Sizes, createFile(name, size)
      PROVE  InodeInv'
  <2>1. PICK n \in Nat \ {0} : n = INODE_BYTES
    BY FileSystemAssumption
  <2> DEFINE new == readNextAvailableInode
  <2>2. /\ new \in Inodes
        /\ Grown(inodeMap', n)
        /\ new <= 8 * n => ~ Marked(inodeMap, new)
        /\ \A i \in Inodes : Marked(inodeMap', i) <=> Marked(inodeMap, i) \/ i = new
    BY <1>2, <2>1, Growing
       DEF createFile, InodeInv, allocateInode, readNextAvailableInode, Inodes, Numbered
  <2> HIDE DEF new
  <2>3. dir' = dir /\ call'.inode = new
    BY <1>2 DEF createFile, Creating, new
  <2>4. \A e \in DOMAIN dir : dir[e].inode \in Inodes /\ Marked(inodeMap, dir[e].inode)
    BY DirType DEF InodeInv
  <2>5. new <= 8 * n => \A e \in DOMAIN dir : dir[e].inode # new
    BY <2>2, <2>4
  <2>6. InodesDiffer'
    BY <2>3 DEF InodesDiffer, InodeInv
  <2> QED
    BY <2>1, <2>2, <2>3, <2>4, <2>5, <2>6 DEF InodeInv
<1>3. ASSUME writeDirectory
      PROVE  InodeInv'
  <2>1. PICK entry \in Entries : entry = [name |-> call.name, inode |-> call.inode, size |-> call.size]
    BY <1>3, CallTypes DEF writeDirectory, TypeOK, CreateCalls, Entries
  <2>2. inodeMap' = inodeMap /\ call' = Idle
    BY <1>3 DEF writeDirectory
  <2>3. CASE dir' = dir
    BY <1>1, <2>2, <2>3 DEF Idle
  <2>4. CASE dir' = Append(dir, entry)
    <3>1. /\ DOMAIN dir' = 1 .. Len(dir) + 1 /\ dir'[Len(dir) + 1] = entry
          /\ \A e \in DOMAIN dir : dir'[e] = dir[e]
      BY <2>4, DirType, AppendProperties, LenProperties
    <3>2. /\ Marked(inodeMap, entry.inode)
          /\ entry.inode <= 8 * INODE_BYTES => \A e \in DOMAIN dir : dir[e].inode # entry.inode
      BY <1>3, <2>1 DEF InodeInv, writeDirectory
    <3>3. \A e \in DOMAIN dir' : e \in DOMAIN dir \/ e = Len(dir) + 1
      BY <3>1, DirType
    <3>4. InodesDiffer'
      BY <3>1, <3>2, <3>3 DEF InodesDiffer, InodeInv
    <3>5. \A e \in DOMAIN dir' : Marked(inodeMap, dir'[e].inode)
      BY <3>1, <3>2, <3>3 DEF InodeInv
    <3> QED
      BY <2>2, <3>4, <3>5 DEF InodeInv, Idle
  <2> QED
    BY <1>3, <2>1, <2>3, <2>4 DEF writeDirectory
<1>4. ASSUME deleteDirectoryEntry
      PROVE  InodeInv'
  <2>1. PICK e \in 1 .. Len(dir) : dir' = Without(dir, e)
    BY <1>4, DirType DEF deleteDirectoryEntry, Without
  <2>2. DOMAIN dir' = 1 .. Len(dir) - 1 /\ dir' \in Seq(Entries)
    BY <2>1, DirType, WithoutOne, LenProperties
  <2>3. \A f \in DOMAIN dir' : dir'[f] = dir[Origin(f, e)]
    <3>1. dir \in Seq(Entries)
      BY DirType
    <3>2. Len(dir') = Len(dir) - 1 /\ \A f \in 1 .. Len(dir') : dir'[f] = dir[Origin(f, e)]
      BY <2>1, <3>1, WithoutOne
    <3> QED
      BY <2>2, <3>2, LenProperties
  <2>4. \A f \in DOMAIN dir' : Origin(f, e) \in DOMAIN dir
    BY <2>2, DirType DEF Origin
  <2>5. \A f \in DOMAIN dir' :
          dir'[f] = dir[Origin(f, e)] /\ Origin(f, e) \in DOMAIN dir
    BY <2>3, <2>4
  <2>6. \A f, g \in DOMAIN dir' : Origin(f, e) = Origin(g, e) => f = g
    BY <2>2, DirType DEF Origin
  <2>7. InodesDiffer'
    BY <2>5, <2>6 DEF InodesDiffer, InodeInv
  <2>8. inodeMap' = inodeMap /\ call' = Idle
    BY <1>4 DEF deleteDirectoryEntry
  <2> QED
    BY <2>5, <2>7, <2>8 DEF InodeInv, Idle
<1>5. CASE writeBufferToDisk
  BY <1>1, <1>5, WriteStores DEF writeBufferToDisk, CreateCalls
<1>6. CASE writeInodeEntry
  BY <1>1, <1>6, CallTypes DEF writeInodeEntry, BufferWritten, TypeOK, CreateCalls
<1>7. CASE \E name \in Names, e \in DOMAIN dir : deleteFile(name, e)
  BY <1>1, <1>7 DEF deleteFile, Deleting, disk
<1>8. CASE freeAllBlocks
  BY <1>1, <1>8, CallTypes DEF freeAllBlocks, TypeOK, DeleteCalls
<1>9. CASE zeroInode
  BY <1>1, <1>9, CallTypes DEF zeroInode, TypeOK, DeleteCalls
<1>10. CASE PowerOff
  BY <1>1, <1>10 DEF PowerOff, Idle
<1>11. CASE UNCHANGED vars
  BY <1>1, <1>11 DEF vars, disk
<1>12. CASE writeIndirectBlock
  BY <1>1, <1>12, CallTypes DEF writeIndirectBlock, TypeOK, CreateCalls
<1> QED
  BY <1>2, <1>3, <1>4, <1>5, <1>6, <1>7, <1>8, <1>9, <1>10, <1>11, <1>12 DEF Next

(* Until metadata are overwritten, no two entries of the directory share   *)
(* an inode, up to a full map of inodes: createFile takes a number that    *)
(* was never given out, and deleteFile leaves the map alone.               *)
THEOREM InodesStayExclusive == Spec => []InodesExclusive
<1>1. Spec => [](TypeOK /\ InodeInv)
  BY TypeInit, TypeStep, InodeInit, InodeStep, PTL DEF Spec
<1>2. InodeInv => InodesExclusive
  BY DEF InodeInv, InodesDiffer, InodesExclusive
<1> QED
  BY <1>1, <1>2, PTL

-----------------------------------------------------------------------------
(* Shared blocks and complete files.                                       *)

LEMMA NumbersType ==
  ASSUME NEW t \in [Inodes -> Node], NEW i \in Inodes, Filled(t[i])
  PROVE  /\ Numbers(t[i]) \in Seq(Blocks)
         /\ DOMAIN Numbers(t[i]) = 1 .. Len(Numbers(t[i]))
         /\ \A p \in DOMAIN Numbers(t[i]) : Numbers(t[i])[p] \in Blocks
<1>1. t[i] \in Node
  OBVIOUS
<1>2. Numbers(t[i]) \in Seq(Blocks)
  BY <1>1, NumbersOf DEF Layout
<1> QED
  BY <1>2, LenProperties, ElementOfSeq

(* Every number of t2 is one that t has in the same place, except that the *)
(* new one may be in one place.                                            *)
Changed(t, t2, inode, place, new) ==
  \A i \in Inodes :
    /\ Filled(t2[i])
    /\ \A p \in DOMAIN Numbers(t2[i]) :
         \/ i = inode /\ p = place /\ Numbers(t2[i])[p] = new
         \/ p \in DOMAIN Numbers(t[i]) /\ Numbers(t2[i])[p] = Numbers(t[i])[p]

(* The new number was free, and its block now holds what belongs there.    *)
GivenOut(m, d, m2, d2, inode, place, new) ==
  /\ new > RESERVED_BLOCKS /\ (InMap(new) => ~ Marked(m, new))
  /\ \A b \in Blocks : Marked(m2, b) <=> Marked(m, b) \/ b = new
  /\ \A b \in Blocks : b # new => d2[b] = d[b]
  /\ InMap(new) /\ place # DIRECT + 1 => d2[new] = <<inode, place - 1>>

(* The block at place DIRECT + 1 is written later: until then it is open.  *)
LEMMA SoundAfter ==
  ASSUME NEW t \in [Inodes -> Node], NEW m, NEW d, NEW o, Sound(t, m, d, o),
         NEW t2 \in [Inodes -> Node], NEW m2, NEW d2, NEW o2, o = o2 \/ o = 0,
         NEW new \in Blocks, NEW inode \in Inodes, NEW place \in Nat,
         Changed(t, t2, inode, place, new),
         GivenOut(m, d, m2, d2, inode, place, new),
         place = DIRECT + 1 => o2 = inode \/ t2 = t
  PROVE  Sound(t2, m2, d2, o2)
<1> DEFINE Old(i, p) == p \in DOMAIN Numbers(t[i]) /\ Numbers(t2[i])[p] = Numbers(t[i])[p]
           New(i, p) == i = inode /\ p = place /\ Numbers(t2[i])[p] = new
<1>1. \A i \in Inodes : \A p \in DOMAIN Numbers(t2[i]) : New(i, p) \/ Old(i, p)
  BY DEF Changed
<1>2. ASSUME NEW i \in Inodes, NEW p, Old(i, p)
      PROVE  /\ Numbers(t2[i])[p] \in Blocks
             /\ Marked(m, Numbers(t2[i])[p])
             /\ Numbers(t2[i])[p] > RESERVED_BLOCKS
             /\ InMap(Numbers(t2[i])[p]) /\ ~ (i = o /\ p = DIRECT + 1) =>
                  d[Numbers(t2[i])[p]] = <<i, p - 1>>
  <2>1. Filled(t[i])
    BY DEF Sound
  <2>2. PICK b : b = Numbers(t[i])[p] /\ b = Numbers(t2[i])[p]
    BY <1>2
  <2>3. p \in DOMAIN Numbers(t[i]) /\ b \in Blocks
    BY <1>2, <2>1, <2>2, NumbersType
  <2>4. Marked(m, b)
    BY <2>2, <2>3 DEF Sound, MarkedAll
  <2>5. b > RESERVED_BLOCKS
    BY <2>2, <2>3 DEF Sound, Exclusive
  <2>6. InMap(b) /\ ~ (i = o /\ p = DIRECT + 1) => d[b] = <<i, p - 1>>
    BY <2>2, <2>3 DEF Sound, Holds
  <2> QED
    BY <2>2, <2>3, <2>4, <2>5, <2>6
<1>3. \A i \in Inodes : \A p \in DOMAIN Numbers(t2[i]) :
        Old(i, p) /\ InMap(Numbers(t2[i])[p]) => Numbers(t2[i])[p] # new
  BY <1>2 DEF GivenOut
<1>4. ASSUME NEW i \in Inodes, NEW j \in Inodes, NEW p, NEW q, Old(i, p), Old(j, q),
             Numbers(t2[i])[p] = Numbers(t2[j])[q], InMap(Numbers(t2[i])[p])
      PROVE  i = j /\ p = q
  <2>1. /\ p \in DOMAIN Numbers(t[i]) /\ q \in DOMAIN Numbers(t[j])
        /\ Numbers(t[i])[p] = Numbers(t[j])[q] /\ InMap(Numbers(t[i])[p])
    BY <1>4
  <2> HIDE DEF Old
  <2>2. Exclusive(t)
    BY DEF Sound
  <2> QED
    BY <2>1, <2>2 DEF Exclusive
<1>9. t2 = t => \A i \in Inodes : \A p \in DOMAIN Numbers(t2[i]) : Old(i, p)
  OBVIOUS
<1> HIDE DEF Old
<1>5. Exclusive(t2)
  <2> SUFFICES ASSUME NEW i \in Inodes, NEW j \in Inodes,
                      NEW p \in DOMAIN Numbers(t2[i]), NEW q \in DOMAIN Numbers(t2[j])
               PROVE  /\ Numbers(t2[i])[p] > RESERVED_BLOCKS
                      /\ Numbers(t2[i])[p] = Numbers(t2[j])[q] /\ InMap(Numbers(t2[i])[p])
                           => i = j /\ p = q
    BY DEF Exclusive
  <2>1. Numbers(t2[i])[p] > RESERVED_BLOCKS
    BY <1>1, <1>2 DEF GivenOut
  <2>2. ASSUME Numbers(t2[i])[p] = Numbers(t2[j])[q], InMap(Numbers(t2[i])[p])
        PROVE  i = j /\ p = q
    <3>1. CASE Old(i, p) /\ Old(j, q)
      BY <1>4, <2>2, <3>1
    <3>2. CASE New(i, p) /\ New(j, q)
      BY <3>2
    <3>3. CASE Old(i, p) /\ New(j, q)
      BY <1>3, <2>2, <3>3
    <3>4. CASE New(i, p) /\ Old(j, q)
      BY <1>3, <2>2, <3>4
    <3> QED
      BY <1>1, <3>1, <3>2, <3>3, <3>4
  <2> QED
    BY <2>1, <2>2
<1>6. MarkedAll(t2, m2)
  BY <1>1, <1>2 DEF MarkedAll, GivenOut
<1>7. Holds(t2, d2, o2)
  <2> SUFFICES ASSUME NEW i \in Inodes, NEW p \in DOMAIN Numbers(t2[i]),
                      InMap(Numbers(t2[i])[p]), ~ (i = o2 /\ p = DIRECT + 1)
               PROVE  d2[Numbers(t2[i])[p]] = <<i, p - 1>>
    BY DEF Holds
  <2>1. CASE New(i, p) /\ ~ Old(i, p)
    <3>1. place # DIRECT + 1
      BY <1>9, <2>1
    <3> QED
      BY <2>1, <3>1 DEF GivenOut
  <2>2. CASE Old(i, p)
    <3>1. ~ (i = o /\ p = DIRECT + 1)
      BY DEF Inodes
    <3> QED
      BY <1>2, <1>3, <2>2, <3>1 DEF GivenOut
  <2> QED
    BY <1>1, <2>1, <2>2
<1>8. \A i \in Inodes : Filled(t2[i])
  BY DEF Changed
<1> QED
  BY <1>5, <1>6, <1>7, <1>8 DEF Sound

(* Inodes that are emptied do no harm.                                     *)
LEMMA SoundPart ==
  ASSUME NEW t, NEW m, NEW d, NEW o, Sound(t, m, d, o),
         NEW t2, \A i \in Inodes : t2[i] = t[i] \/ t2[i] = NoInode
  PROVE  Sound(t2, m, d, o)
<1>1. \A i \in Inodes : \A p \in DOMAIN Numbers(t2[i]) : t2[i] = t[i]
  BY NoInodeType
<1>2. \A i \in Inodes : Filled(t2[i])
  BY NoInodeType DEF Sound
<1>3. Exclusive(t2)
  BY <1>1 DEF Sound, Exclusive
<1>4. MarkedAll(t2, m)
  BY <1>1 DEF Sound, MarkedAll
<1>5. Holds(t2, d, o)
  BY <1>1 DEF Sound, Holds
<1> QED
  BY <1>2, <1>3, <1>4, <1>5 DEF Sound

LEMMA WithNothing ==
  ASSUME NEW t \in [Inodes -> Node], NEW c, c.kind \notin {"create", "inode"}
  PROVE  With(t, c) = t
BY DEF With

LEMMA WithType ==
  ASSUME NEW t \in [Inodes -> Node], NEW c,
         c.kind \in {"create", "inode"} => c.node \in Node
  PROVE  With(t, c) \in [Inodes -> Node]
BY DEF With

LEMMA ViewType ==
  ASSUME TypeOK
  PROVE  /\ View \in [Inodes -> Node]
         /\ call.kind \notin {"create", "inode"} => View = table
<1>1. call.kind \in {"create", "inode"} => call.node \in Node
  BY CallTypes DEF TypeOK, CreateCalls
<1> QED
  BY <1>1, WithNothing, WithType DEF TypeOK, View

LEMMA BlockInit == Init => BlockInv
<1> SUFFICES ASSUME Init PROVE BlockInv
  OBVIOUS
<1>1. RESERVED_BLOCKS \in 0 .. (8 * BLOCK_BYTES + 1) /\ BLOCK_BYTES \in Nat \ {0}
  BY FileSystemAssumption
<1>2. Grown(blockMap, BLOCK_BYTES)
  BY <1>1 DEF Init, Grown
<1>3. \A b \in 1 .. RESERVED_BLOCKS : Marked(blockMap, b)
  <2>1. \A b \in 1 .. RESERVED_BLOCKS : b \in Numbered(BLOCK_BYTES) /\ b <= RESERVED_BLOCKS
    BY <1>1 DEF Numbered
  <2> QED
    BY <1>1, <2>1, MarkedUpTo DEF Init
<1>4. \A i \in Inodes : table[i] = NoInode
  BY DEF Init
<1>5. \A i \in Inodes : DOMAIN Numbers(table[i]) = {} /\ Filled(table[i])
  BY <1>4, NoInodeType
<1>6. Sound(table, blockMap, data, 0)
  BY <1>5 DEF Sound, Exclusive, MarkedAll, Holds
<1>7. View = table
  BY TypeInit, ViewType DEF Init, Idle
<1> QED
  BY <1>2, <1>3, <1>6, <1>7 DEF BlockInv, Init, Idle, Open

(* A step of a state in which nothing was deleted is one of these.         *)
LEMMA NoDeletion ==
  ASSUME TypeOK, BlockInv, [Next]_vars, deletes' = 0
  PROVE  /\ deletes = 0
         /\ \/ \E name \in Names, size \in Sizes : createFile(name, size)
            \/ writeBufferToDisk \/ writeIndirectBlock \/ writeInodeEntry
            \/ writeDirectory \/ PowerOff \/ UNCHANGED vars
<1>1. \A name \in Names, e \in DOMAIN dir : ~ deleteFile(name, e)
  BY DEF TypeOK, deleteFile
<1>2. deletes = 0
  BY <1>1 DEF Next, createFile, writeBufferToDisk, writeIndirectBlock, writeInodeEntry,
              writeDirectory, freeAllBlocks, zeroInode, deleteDirectoryEntry, PowerOff, vars, counts
<1>3. ~ freeAllBlocks /\ ~ zeroInode /\ ~ deleteDirectoryEntry
  BY <1>2 DEF BlockInv, freeAllBlocks, zeroInode, deleteDirectoryEntry
<1> QED
  BY <1>1, <1>2, <1>3 DEF Next

(* The turn of writeBufferToDisk, with what is known of its number b.      *)
LEMMA WriteBlock ==
  ASSUME TypeOK, BlockInv, deletes = 0, writeBufferToDisk,
         NEW b, b = readNextAvailableBlock
  PROVE  /\ b \in Blocks /\ b > RESERVED_BLOCKS
         /\ InMap(b) => ~ Marked(blockMap, b)
         /\ Grown(blockMap', BLOCK_BYTES)
         /\ \A c \in Blocks : Marked(blockMap', c) <=> Marked(blockMap, c) \/ c = b
<1>1. BLOCK_BYTES \in Nat \ {0} /\ RESERVED_BLOCKS \in 1 .. 8 * BLOCK_BYTES
  BY FileSystemAssumption
<1>2. /\ b \in Blocks
      /\ Grown(blockMap', BLOCK_BYTES)
      /\ b <= 8 * BLOCK_BYTES => ~ Marked(blockMap, b)
      /\ \A c \in Blocks : Marked(blockMap', c) <=> Marked(blockMap, c) \/ c = b
  BY <1>1, Growing
     DEF writeBufferToDisk, BlockInv, allocateFreeBlock, readNextAvailableBlock, Blocks, Numbered
<1>3. b > RESERVED_BLOCKS
  <2>1. \A c \in 1 .. RESERVED_BLOCKS : Marked(blockMap, c)
    BY DEF BlockInv
  <2>2. b \in 1 .. RESERVED_BLOCKS => b <= 8 * BLOCK_BYTES
    BY <1>1
  <2>3. b \notin 1 .. RESERVED_BLOCKS
    BY <1>2, <2>1, <2>2
  <2>4. b \in Nat \ {0}
    BY <1>2 DEF Blocks
  <2> QED
    BY <1>1, <2>3, <2>4
<1> QED
  BY <1>2, <1>3 DEF InMap

LEMMA WriteStep ==
  ASSUME TypeOK, BlockInv, deletes = 0, writeBufferToDisk
  PROVE  /\ BlockInv'
         /\ call.written >= DIRECT \/ call.written = Len(Numbers(call.node)) =>
              Len(Numbers(call'.node)) = call.written + 1
<1>1. PICK b, node, node2, j, inode :
        /\ b = readNextAvailableBlock /\ node = call.node /\ j = call.written
        /\ inode = call.inode /\ node2 = Store(node, j, b)
  OBVIOUS
<1>2. /\ call \in CreateCalls /\ call.kind = "create"
      /\ call' = [call EXCEPT !.written = j + 1, !.node = node2]
      /\ data' = IF j = DIRECT THEN data ELSE [data EXCEPT ![b] = <<inode, j>>]
  BY <1>1, WriteStores
<1>3. /\ b \in Blocks /\ b > RESERVED_BLOCKS
      /\ InMap(b) => ~ Marked(blockMap, b)
      /\ Grown(blockMap', BLOCK_BYTES)
      /\ \A c \in Blocks : Marked(blockMap', c) <=> Marked(blockMap, c) \/ c = b
  BY <1>1, WriteBlock
<1>4. node \in Node /\ j \in Nat /\ inode \in Inodes /\ DIRECT \in Nat
  BY <1>1, <1>2, FileSystemAssumption DEF CreateCalls
<1>5. View \in [Inodes -> Node] /\ View[inode] = node /\ Filled(node)
  <2>1. View \in [Inodes -> Node]
    BY ViewType
  <2>2. View[inode] = node
    BY <1>1, <1>2, <1>4 DEF View, With
  <2> QED
    BY <1>4, <2>1, <2>2 DEF BlockInv, Sound
<1>6. j <= Len(Numbers(node)) /\ (j > DIRECT => j = Len(Numbers(node)))
  BY <1>1, <1>2 DEF BlockInv
<1>7. PICK place \in Nat : place = j + 1
  BY <1>4
<1>8. /\ node2 \in Node /\ Filled(node2)
      /\ Placed(Numbers(node2), Numbers(node), place, b)
      /\ j >= DIRECT \/ j = Len(Numbers(node)) => Len(Numbers(node2)) = place
  BY <1>1, <1>3, <1>4, <1>5, <1>6, <1>7, StoreAtPlace
<1>9. call'.kind = "create" /\ call'.inode = inode /\ call'.node = node2
      /\ call'.written = place
  BY <1>1, <1>2, <1>7 DEF CreateCalls
<1>10. table' = table /\ deletes' = deletes
  BY DEF writeBufferToDisk, counts
<1>11. /\ View' \in [Inodes -> Node] /\ View'[inode] = node2
       /\ \A i \in Inodes \ {inode} : View'[i] = View[i]
  <2>1. View' = [i \in Inodes |-> IF i = inode THEN node2 ELSE table[i]]
    BY <1>9, <1>10 DEF View, With
  <2>2. View = [i \in Inodes |-> IF i = inode THEN node ELSE table[i]]
    BY <1>1, <1>2 DEF View, With
  <2>3. table \in [Inodes -> Node]
    BY DEF TypeOK
  <2> QED
    BY <1>4, <1>8, <2>1, <2>2, <2>3
<1>12. /\ \A c \in Blocks : c # b => data'[c] = data[c]
       /\ InMap(b) /\ place # DIRECT + 1 => data'[b] = <<inode, place - 1>>
  <2>1. data \in [Blocks -> (Inodes \union {0}) \X Nat]
    BY DEF TypeOK
  <2>2. \A c \in Blocks : c # b => data'[c] = data[c]
    BY <1>2, <2>1
  <2>3. place # DIRECT + 1 => j # DIRECT /\ place - 1 = j
    BY <1>4, <1>7
  <2>4. j # DIRECT => data'[b] = <<inode, j>>
    BY <1>2, <1>3, <2>1
  <2> QED
    BY <2>2, <2>3, <2>4
<1>13. GivenOut(blockMap, data, blockMap', data', inode, place, b)
  BY <1>3, <1>12 DEF GivenOut
<1>18. /\ Open(call) = (IF j > DIRECT THEN inode ELSE 0)
       /\ Open(call)' = (IF j >= DIRECT THEN inode ELSE 0)
  BY <1>1, <1>2, <1>4, <1>7, <1>9 DEF Open
<1>14. Sound(View', blockMap', data', Open(call)')
  <2>1. Sound(View, blockMap, data, Open(call))
    BY DEF BlockInv
  <2>2. \A i \in Inodes : Filled(View'[i])
    BY <1>8, <1>11, <2>1 DEF Sound
  <2>3. ASSUME NEW i \in Inodes, NEW p \in DOMAIN Numbers(View'[i])
        PROVE  \/ i = inode /\ p = place /\ Numbers(View'[i])[p] = b
               \/ p \in DOMAIN Numbers(View[i]) /\ Numbers(View'[i])[p] = Numbers(View[i])[p]
    <3>1. CASE i # inode
      BY <1>11, <3>1, SMTT(30)
    <3>2. CASE i = inode
      <4>1. View'[i] = node2 /\ View[i] = node
        BY <1>5, <1>11, <3>2
      <4>2. /\ DOMAIN Numbers(node2) = 1 .. Len(Numbers(node2))
            /\ DOMAIN Numbers(node) = 1 .. Len(Numbers(node))
        BY <1>5, <1>11, <2>2, <3>2, <4>1, NumbersType
      <4> QED
        BY <1>8, <3>2, <4>1, <4>2 DEF Placed
    <3> QED
      BY <3>1, <3>2
  <2>4. Changed(View, View', inode, place, b)
    BY <2>2, <2>3 DEF Changed
  <2>5. PICK o, o2 : o = Open(call) /\ o2 = Open(call)'
    OBVIOUS
  <2>6. /\ o = o2 \/ o = 0
        /\ place = DIRECT + 1 => o2 = inode
    BY <1>4, <1>7, <1>18, <2>5
  <2>7. Sound(View', blockMap', data', o2)
    BY <1>3, <1>4, <1>5, <1>7, <1>11, <1>13, <2>1, <2>4, <2>5, <2>6, SoundAfter, Zenon
  <2> QED
    BY <2>5, <2>7
<1>15. Sound(table', blockMap', data', 0)
  <2>1. Sound(table, blockMap, data, 0)
    BY DEF BlockInv
  <2>2. \A i \in Inodes : Filled(table[i])
    BY <2>1 DEF Sound
  <2>3. table \in [Inodes -> Node]
    BY DEF TypeOK
  <2>4. Changed(table, table, inode, place, b)
    BY <2>2 DEF Changed
  <2>5. Sound(table, blockMap', data', 0)
    BY <1>3, <1>4, <1>7, <1>13, <2>1, <2>3, <2>4, SoundAfter, Zenon
  <2> QED
    BY <1>10, <2>5
<1>16. \A c \in 1 .. RESERVED_BLOCKS : Marked(blockMap', c)
  <2>1. 1 .. RESERVED_BLOCKS \subseteq Blocks
    BY FileSystemAssumption DEF Blocks
  <2> QED
    BY <1>3, <2>1 DEF BlockInv
<1>17. /\ place <= Len(Numbers(node2))
       /\ place > DIRECT => place = Len(Numbers(node2))
  <2>1. Len(Numbers(node2)) \in Nat /\ place \in 1 .. Len(Numbers(node2))
    BY <1>8 DEF Placed
  <2>2. place > DIRECT => j >= DIRECT
    BY <1>4, <1>7
  <2> QED
    BY <1>8, <2>1, <2>2
<1>19. ASSUME place > DIRECT, InMap(node2.indirect)
       PROVE  Unused(table', node2.indirect)
  <2>1. CASE j = DIRECT
    <3>1. node2.indirect = b
      BY <1>1, <1>4, <2>1 DEF Store, Node
    <3>2. \A i \in Inodes : \A p \in DOMAIN Numbers(table[i]) : Marked(blockMap, Numbers(table[i])[p])
      BY DEF BlockInv, Sound, MarkedAll
    <3> QED
      BY <1>3, <1>10, <1>19, <3>1, <3>2 DEF Unused
  <2>2. CASE j > DIRECT
    <3>1. node2.indirect = node.indirect
      BY <1>1, <1>4, <2>2 DEF Store, Node
    <3> QED
      BY <1>1, <1>2, <1>10, <1>19, <2>2, <3>1 DEF BlockInv
  <2> QED
    BY <1>4, <1>7, <1>19, <2>1, <2>2
<1> QED
  BY <1>1, <1>3, <1>7, <1>8, <1>9, <1>10, <1>14, <1>15, <1>16, <1>17, <1>19 DEF BlockInv


(* The number of the indirect block comes after the direct ones.           *)
LEMMA IndirectPlace ==
  ASSUME NEW node \in Node, Filled(node),
         NEW list, list = Numbers(node)
  PROVE  /\ node.indirect # 0 =>
              DIRECT + 1 \in DOMAIN list /\ list[DIRECT + 1] = node.indirect
         /\ Len(list) > DIRECT => node.indirect # 0
<1>1. PICK direct \in Seq(Blocks), indirect \in Blocks \union {0}, more \in Seq(Blocks) :
        node.direct = direct /\ node.indirect = indirect /\ node.more = more
  BY DEF Node
<1>2. Layout(list, direct, indirect, more)
  BY <1>1, NumbersOf
<1>3. DIRECT \in Nat /\ Len(direct) \in Nat /\ Len(more) \in Nat
  BY FileSystemAssumption, LenProperties
<1>4. Len(direct) <= DIRECT /\ (indirect # 0 => Len(direct) = DIRECT)
  BY <1>1 DEF Filled
<1>5. DOMAIN list = 1 .. Len(list)
  BY <1>2, LenProperties DEF Layout
<1>6. ASSUME indirect # 0
      PROVE  DIRECT + 1 \in 1 .. Len(list) /\ list[DIRECT + 1] = indirect
  BY <1>2, <1>3, <1>4, <1>6 DEF Layout
<1>7. Len(list) > DIRECT => indirect # 0
  BY <1>2, <1>3, <1>4 DEF Layout
<1> QED
  BY <1>1, <1>5, <1>6, <1>7

(* The indirect block that is written, c, belongs to the call alone.       *)
LEMMA IndirectBlock ==
  ASSUME TypeOK, BlockInv, deletes = 0, writeIndirectBlock,
         NEW c, c = call.node.indirect
  PROVE  /\ call \in CreateCalls /\ call.kind = "create" /\ Open(call) = call.inode
         /\ c \in Blocks /\ c > RESERVED_BLOCKS /\ Marked(blockMap, c)
         /\ InMap(c) => Unused(table, c)
         /\ DIRECT + 1 \in DOMAIN Numbers(View[call.inode])
         /\ Numbers(View[call.inode])[DIRECT + 1] = c
<1>1. call \in CreateCalls /\ call.kind = "create" /\ call.written > DIRECT
  BY CallTypes DEF TypeOK, writeIndirectBlock, HasIndirect
<1>2. call.inode \in Inodes /\ call.node \in Node /\ View[call.inode] = call.node
  BY <1>1 DEF CreateCalls, View, With
<1>3. Sound(View, blockMap, data, Open(call))
  BY DEF BlockInv
<1>4. Filled(call.node)
  BY <1>2, <1>3 DEF Sound
<1>5. Len(Numbers(call.node)) > DIRECT /\ (InMap(c) => Unused(table, c))
  BY <1>1 DEF BlockInv
<1>6. c # 0 /\ DIRECT + 1 \in DOMAIN Numbers(call.node) /\ Numbers(call.node)[DIRECT + 1] = c
  BY <1>2, <1>4, <1>5, IndirectPlace
<1>7. c \in Blocks
  BY <1>2, <1>6 DEF Node
<1>8. Marked(blockMap, c)
  BY <1>2, <1>3, <1>6 DEF Sound, MarkedAll
<1>9. c > RESERVED_BLOCKS
  BY <1>2, <1>3, <1>6 DEF Sound, Exclusive
<1> QED
  BY <1>1, <1>2, <1>5, <1>6, <1>7, <1>8, <1>9 DEF Open

LEMMA IndirectStep ==
  ASSUME TypeOK, BlockInv, deletes = 0, writeIndirectBlock
  PROVE  BlockInv'
<1>1. PICK c, inode : c = call.node.indirect /\ inode = call.inode
  OBVIOUS
<1>2. /\ call \in CreateCalls /\ call.kind = "create" /\ Open(call) = inode
      /\ c \in Blocks /\ (InMap(c) => Unused(table, c))
      /\ DIRECT + 1 \in DOMAIN Numbers(View[inode])
      /\ Numbers(View[inode])[DIRECT + 1] = c
  BY <1>1, IndirectBlock
<1>3. /\ call'.kind = "inode" /\ call'.inode = inode /\ call'.node = call.node
      /\ data' = [data EXCEPT ![c] = <<inode, DIRECT>>]
      /\ UNCHANGED <<blockMap, table, deletes>>
  BY <1>1, <1>2 DEF writeIndirectBlock, writeBlock, counts, CreateCalls
<1>4. View' = View
  BY <1>1, <1>2, <1>3 DEF View, With
<1>5. /\ data'[c] = <<inode, DIRECT>>
      /\ \A b : b # c => data'[b] = data[b]
  BY <1>2, <1>3 DEF TypeOK
<1>6. inode \in Inodes /\ DIRECT \in Nat
  BY <1>1, <1>2, FileSystemAssumption DEF CreateCalls
<1>7. Sound(View, blockMap, data, inode) /\ Sound(table, blockMap, data, 0)
  BY <1>2 DEF BlockInv
<1>8. Holds(View, data', 0)
  <2> SUFFICES ASSUME NEW i \in Inodes, NEW p \in DOMAIN Numbers(View[i]),
                      InMap(Numbers(View[i])[p])
               PROVE  data'[Numbers(View[i])[p]] = <<i, p - 1>>
    BY DEF Holds
  <2>1. CASE Numbers(View[i])[p] = c
    <3>1. i = inode /\ p = DIRECT + 1
      BY <1>2, <1>6, <1>7, <2>1 DEF Sound, Exclusive
    <3> QED
      BY <1>5, <1>6, <2>1, <3>1
  <2>2. CASE Numbers(View[i])[p] # c
    <3>1. ~ (i = inode /\ p = DIRECT + 1)
      BY <1>2, <2>2
    <3>2. data[Numbers(View[i])[p]] = <<i, p - 1>>
      BY <1>7, <3>1 DEF Sound, Holds
    <3> QED
      BY <1>5, <2>2, <3>2
  <2> QED
    BY <2>1, <2>2
<1>9. Holds(table, data', 0)
  <2> SUFFICES ASSUME NEW i \in Inodes, NEW p \in DOMAIN Numbers(table[i]),
                      InMap(Numbers(table[i])[p])
               PROVE  data'[Numbers(table[i])[p]] = <<i, p - 1>>
    BY DEF Holds
  <2>1. Numbers(table[i])[p] # c
    BY <1>2 DEF Unused
  <2>2. i # 0
    BY DEF Inodes
  <2>3. data[Numbers(table[i])[p]] = <<i, p - 1>>
    BY <1>7, <2>2 DEF Sound, Holds
  <2> QED
    BY <1>5, <2>1, <2>3
<1>10. Sound(View', blockMap', data', 0) /\ Sound(table', blockMap', data', 0)
  BY <1>3, <1>4, <1>7, <1>8, <1>9 DEF Sound
<1>11. Open(call)' = 0
  BY <1>3 DEF Open
<1>12. /\ Grown(blockMap', BLOCK_BYTES)
       /\ \A b \in 1 .. RESERVED_BLOCKS : Marked(blockMap', b)
  BY <1>3 DEF BlockInv
<1> QED
  BY <1>3, <1>10, <1>11, <1>12 DEF BlockInv

LEMMA BlockStep == TypeOK /\ BlockInv /\ [Next]_vars => BlockInv'
<1> SUFFICES ASSUME TypeOK, BlockInv, [Next]_vars, deletes' = 0 PROVE BlockInv'
  BY DEF BlockInv
<1>1. deletes = 0 /\ table' \in [Inodes -> Node] /\ table \in [Inodes -> Node]
  BY NoDeletion, TypeStep DEF TypeOK
<1>2. /\ Grown(blockMap, BLOCK_BYTES)
      /\ \A b \in 1 .. RESERVED_BLOCKS : Marked(blockMap, b)
      /\ Sound(table, blockMap, data, 0) /\ Sound(View, blockMap, data, Open(call))
  BY <1>1 DEF BlockInv
(* A step that leaves the blocks alone and after which View is the table.  *)
<1>3. ASSUME UNCHANGED <<blockMap, data>>, View' = table', Sound(table', blockMap, data, 0),
             call'.kind \notin {"delete", "remove", "create"}
      PROVE  BlockInv'
  <2>1. Open(call)' = 0
    BY <1>3 DEF Open
  <2> QED
    BY <1>2, <1>3, <2>1 DEF BlockInv
<1>4. ASSUME NEW name \in Names, NEW size \in Sizes, createFile(name, size)
      PROVE  BlockInv'
  <2>1. PICK inode \in Inodes : inode = readNextAvailableInode
    BY InodeNumber
  <2>2. /\ call'.kind = "create" /\ call'.inode = inode /\ call'.node = table[inode]
        /\ call'.written = 0
    BY <1>4, <2>1 DEF createFile, Creating
  <2>3. UNCHANGED <<blockMap, table, data>>
    BY <1>4 DEF createFile
  <2>4. View' = table
    BY <1>1, <2>2, <2>3 DEF View, With
  <2>5. 0 <= Len(Numbers(table[inode])) /\ ~ (0 > DIRECT)
    <3>1. Filled(table[inode])
      BY <1>2, <2>1 DEF Sound
    <3>2. Len(Numbers(table[inode])) \in Nat
      BY <1>1, <3>1, NumbersType, LenProperties
    <3> QED
      BY <3>2, FileSystemAssumption
  <2>6. Open(call)' = 0
    BY <2>2, FileSystemAssumption DEF Open
  <2> QED
    BY <1>2, <2>2, <2>3, <2>4, <2>5, <2>6 DEF BlockInv
<1>5. CASE writeBufferToDisk
  BY <1>1, <1>5, WriteStep
<1>6. CASE writeInodeEntry
  <2>1. /\ call.kind \in {"create", "inode"} /\ call \in CreateCalls /\ call'.kind = "entry"
        /\ table' = [table EXCEPT ![call.inode] = call.node]
        /\ UNCHANGED <<blockMap, data>>
    BY <1>6, CallTypes DEF writeInodeEntry, BufferWritten, TypeOK, CreateCalls
  <2>4. Open(call) = 0    (* the indirect block, if any, has been written     *)
    <3>1. call.size \in Nat /\ DIRECT \in Nat
      BY <2>1, FileSystemAssumption DEF CreateCalls
    <3> QED
      BY <1>6, <3>1 DEF writeInodeEntry, BufferWritten, HasIndirect, Open
  <2>2. table' = View
    BY <1>1, <2>1 DEF View, With, CreateCalls
  <2>3. View' = table'
    BY <1>1, <2>1, WithNothing DEF View
  <2> QED
    BY <1>2, <1>3, <2>1, <2>2, <2>3, <2>4
<1>10. CASE writeIndirectBlock
  BY <1>1, <1>10, IndirectStep
<1>7. CASE writeDirectory
  <2>1. call'.kind = "none" /\ UNCHANGED <<blockMap, data, table>>
    BY <1>7 DEF writeDirectory, Idle
  <2>2. View' = table'
    BY <1>1, <2>1, WithNothing DEF View
  <2> QED
    BY <1>2, <1>3, <2>1, <2>2
<1>8. CASE PowerOff
  <2>1. call'.kind = "none" /\ UNCHANGED <<blockMap, data>>
    BY <1>8 DEF PowerOff, Idle
  <2>2. View' = table'
    BY <1>1, <2>1, WithNothing DEF View
  <2>3. \A i \in Inodes : table'[i] = table[i] \/ table'[i] = NoInode
    BY <1>8 DEF PowerOff
  <2>4. Sound(table', blockMap, data, 0)
    BY <1>2, <2>3, SoundPart
  <2> QED
    BY <1>3, <2>1, <2>2, <2>4
<1>9. CASE UNCHANGED vars
  BY <1>2, <1>9 DEF BlockInv, vars, disk, counts, View, Open
<1> QED
  BY <1>4, <1>5, <1>6, <1>7, <1>8, <1>9, <1>10, NoDeletion

(* Without deletions no block serves two purposes, wherever the machine is *)
(* switched off: a block that createFile gets is free, and the map on the  *)
(* disk says so before the block is used.                                  *)
THEOREM BlocksStayExclusive == Spec => []BlocksExclusive
<1>1. Spec => [](TypeOK /\ BlockInv)
  BY TypeInit, TypeStep, BlockInit, BlockStep, PTL DEF Spec
<1>2. BlockInv => BlocksExclusive
  BY DEF BlockInv, Sound, Exclusive, BlocksExclusive
<1> QED
  BY <1>1, <1>2, PTL

LEMMA MetadataStep == TypeOK /\ BlockInv /\ MetadataIntact /\ [Next]_vars => MetadataIntact'
<1> SUFFICES ASSUME TypeOK, BlockInv, MetadataIntact, [Next]_vars, deletes' = 0, ~ MapIsFull'
             PROVE  intact'
  BY DEF MetadataIntact
<1>1. deletes = 0 /\ table \in [Inodes -> Node]
  BY NoDeletion DEF TypeOK
<1>2. BLOCK_BYTES \in Nat \ {0} /\ 8 * BLOCK_BYTES + 1 \in Blocks
  BY FileSystemAssumption DEF Blocks
<1>3. ASSUME NEW b \in Blocks, b > RESERVED_BLOCKS, Unused(table, b)
      PROVE  ~ HoldsMetadata(b)
  <2>1. ASSUME NEW i \in Inodes, table[i].indirect = b
        PROVE  FALSE
    <3>1. table[i] \in Node /\ Filled(table[i]) /\ b # 0
      BY <1>1 DEF BlockInv, Sound, Blocks
    <3>2. DIRECT + 1 \in DOMAIN Numbers(table[i]) /\ Numbers(table[i])[DIRECT + 1] = b
      BY <2>1, <3>1, IndirectPlace
    <3> QED
      BY <1>3, <3>2 DEF Unused
  <2>2. ~ (b <= RESERVED_BLOCKS)
    BY <1>3, FileSystemAssumption DEF Blocks
  <2> QED
    BY <2>1, <2>2 DEF HoldsMetadata
<1>4. ASSUME UNCHANGED <<blockMap, intact>>
      PROVE  intact'
  BY <1>1, <1>4 DEF MetadataIntact, MapIsFull
<1>5. CASE writeBufferToDisk
  <2>1. PICK b : b = readNextAvailableBlock
    OBVIOUS
  <2>2. /\ b \in Blocks /\ b > RESERVED_BLOCKS
        /\ InMap(b) => ~ Marked(blockMap, b)
        /\ \A c \in Blocks : Marked(blockMap', c) <=> Marked(blockMap, c) \/ c = b
    BY <1>1, <1>5, <2>1, WriteBlock
  <2>3. ~ MapIsFull /\ b # 8 * BLOCK_BYTES + 1
    BY <1>2, <2>2 DEF MapIsFull
  <2>4. ~ Marked(blockMap, b)
    BY <1>2, <2>2, <2>3 DEF InMap, Blocks
  <2>5. Unused(table, b)
    BY <1>1, <2>4 DEF Unused, BlockInv, Sound, MarkedAll
  <2> QED
    BY <1>1, <1>3, <1>5, <2>1, <2>2, <2>3, <2>5, WriteStores DEF MetadataIntact
<1>6. CASE writeIndirectBlock
  <2>1. PICK c : c = call.node.indirect
    OBVIOUS
  <2>2. /\ c \in Blocks /\ c > RESERVED_BLOCKS /\ Marked(blockMap, c)
        /\ InMap(c) => Unused(table, c)
    BY <1>1, <1>6, <2>1, IndirectBlock
  <2>3. /\ blockMap' = blockMap
        /\ intact' = (intact /\ ~ HoldsMetadata(c))
    BY <1>6, <2>1 DEF writeIndirectBlock, writeBlock
  <2>4. ~ MapIsFull
    BY <2>3 DEF MapIsFull
  <2>5. InMap(c)
    BY <1>2, <2>2, <2>4 DEF MapIsFull, InMap, Blocks
  <2> QED
    BY <1>1, <1>3, <2>2, <2>3, <2>4, <2>5 DEF MetadataIntact
<1>7. CASE \E name \in Names, size \in Sizes : createFile(name, size)
  BY <1>4, <1>7 DEF createFile
<1>8. CASE writeInodeEntry \/ writeDirectory \/ PowerOff
  BY <1>4, <1>8 DEF writeInodeEntry, writeDirectory, PowerOff
<1>9. CASE UNCHANGED vars
  BY <1>4, <1>9 DEF vars, disk
<1> QED
  BY <1>5, <1>6, <1>7, <1>8, <1>9, NoDeletion

(* Without deletions createFile never writes over the maps, the inode      *)
(* table, the directory or the block numbers of another file, wherever the *)
(* machine is switched off, until the block map is full: the block it      *)
(* writes to is one that was free, or the call's own indirect block.       *)
THEOREM MetadataStaysIntact == Spec => []MetadataIntact
<1>1. Init => MetadataIntact
  BY DEF Init, MetadataIntact
<1> QED
  BY <1>1, TypeInit, TypeStep, BlockInit, BlockStep, MetadataStep, PTL DEF Spec

LEMMA SizeInit == Init => SizeInv
<1> SUFFICES ASSUME Init PROVE SizeInv
  OBVIOUS
<1>1. DOMAIN dir = {} /\ call.kind = "none" /\ \A i \in Inodes : table[i] = NoInode
  BY DEF Init, Idle
<1> QED
  BY <1>1 DEF SizeInv

LEMMA SizeStep == TypeOK /\ InodeInv /\ BlockInv /\ SizeInv /\ [Next]_vars => SizeInv'
<1> SUFFICES ASSUME TypeOK, InodeInv, BlockInv, SizeInv, [Next]_vars, deletes' = 0
             PROVE  SizeInv'
  BY DEF SizeInv
<1>1. deletes = 0 /\ table \in [Inodes -> Node]
  BY NoDeletion DEF TypeOK
<1>2. MAX_FILES_PER_DIRECTORY <= 8 * INODE_BYTES
  /\ MAX_FILES_PER_DIRECTORY \in Nat /\ INODE_BYTES \in Nat \ {0}
  BY FileSystemAssumption
<1>3. \A e \in DOMAIN dir : dir[e].inode \in Inodes /\ dir[e].inode \in Nat
  BY DirType DEF Inodes
<1>4. /\ \A i \in Inodes : ~ Marked(inodeMap, i) => table[i] = NoInode
      /\ call.kind = "create" /\ call.inode <= 8 * INODE_BYTES =>
           Len(Numbers(call.node)) = call.written
      /\ call.kind = "inode" /\ call.inode <= 8 * INODE_BYTES =>
           Len(Numbers(call.node)) = call.size
      /\ call.kind = "entry" /\ call.inode <= 8 * INODE_BYTES =>
           Len(Numbers(table[call.inode])) = call.size
      /\ \A e \in DOMAIN dir :
           dir[e].inode <= MAX_FILES_PER_DIRECTORY =>
             Len(Numbers(table[dir[e].inode])) = dir[e].size
  BY <1>1 DEF SizeInv
<1>5. ASSUME NEW name \in Names, NEW size \in Sizes, createFile(name, size)
      PROVE  SizeInv'
  <2>1. PICK inode \in Inodes : inode = readNextAvailableInode
    BY InodeNumber
  <2>2. /\ call'.kind = "create" /\ call'.inode = inode /\ call'.node = table[inode]
        /\ call'.written = 0 /\ UNCHANGED <<table, dir>>
    BY <1>5, <2>1 DEF createFile, Creating
  <2>3. /\ inode <= 8 * INODE_BYTES => ~ Marked(inodeMap, inode)
        /\ \A i \in Inodes : Marked(inodeMap, i) => Marked(inodeMap', i)
    <3> DEFINE next == readNextAvailableInode
    <3>1. /\ next <= 8 * INODE_BYTES => ~ Marked(inodeMap, next)
          /\ \A i \in Inodes : Marked(inodeMap', i) <=> Marked(inodeMap, i) \/ i = next
      BY <1>2, <1>5, Growing
         DEF createFile, InodeInv, allocateInode, readNextAvailableInode, Inodes, Numbered
    <3> QED
      BY <2>1, <3>1
  <2>4. Len(Numbers(NoInode)) = 0
    BY NoInodeType, EmptySeq
  <2> QED
    BY <1>4, <2>1, <2>2, <2>3, <2>4 DEF SizeInv
<1>6. CASE writeBufferToDisk
  <2>1. /\ call \in CreateCalls /\ call.kind = "create" /\ call'.kind = "create"
        /\ call'.inode = call.inode /\ call'.written = call.written + 1
    BY <1>6, WriteStores DEF CreateCalls
  <2>2. call.written = Len(Numbers(call.node)) => Len(Numbers(call'.node)) = call.written + 1
    BY <1>1, <1>6, WriteStep
  <2>3. UNCHANGED <<inodeMap, table, dir>>
    BY <1>6 DEF writeBufferToDisk
  <2> QED
    BY <1>4, <2>1, <2>2, <2>3 DEF SizeInv
<1>7. CASE writeInodeEntry
  <2>1. /\ call \in CreateCalls /\ call'.kind = "entry"
        /\ \/ call.kind = "create" /\ call.written = call.size
           \/ call.kind = "inode"
        /\ call'.inode = call.inode /\ call'.size = call.size
        /\ table' = [table EXCEPT ![call.inode] = call.node]
        /\ UNCHANGED <<inodeMap, dir>>
    BY <1>7, CallTypes DEF writeInodeEntry, BufferWritten, TypeOK, CreateCalls
  <2>2. PICK inode \in Inodes : inode = call.inode
    BY <2>1 DEF CreateCalls
  <2>3. table'[inode] = call.node /\ \A i \in Inodes \ {inode} : table'[i] = table[i]
    BY <1>1, <2>1, <2>2
  <2>4. /\ Marked(inodeMap, inode)
        /\ inode <= 8 * INODE_BYTES => \A e \in DOMAIN dir : dir[e].inode # inode
    BY <2>1, <2>2 DEF InodeInv
  <2>5. ASSUME NEW e \in DOMAIN dir, dir[e].inode <= MAX_FILES_PER_DIRECTORY
        PROVE  Len(Numbers(table'[dir[e].inode])) = dir[e].size
    <3>1. dir[e].inode <= 8 * INODE_BYTES
      BY <1>2, <1>3, <2>5
    <3>2. dir[e].inode # inode
      BY <2>4, <3>1
    <3> QED
      BY <1>3, <1>4, <2>3, <2>5, <3>2
  <2>6. \A i \in Inodes : ~ Marked(inodeMap, i) => table'[i] = NoInode
    BY <1>4, <2>3, <2>4
  <2>7. inode <= 8 * INODE_BYTES => Len(Numbers(table'[inode])) = call.size
    BY <1>4, <2>1, <2>2, <2>3
  <2> QED
    BY <2>1, <2>2, <2>5, <2>6, <2>7 DEF SizeInv
<1>8. CASE writeDirectory
  <2>1. PICK entry \in Entries : entry = [name |-> call.name, inode |-> call.inode, size |-> call.size]
    BY <1>8, CallTypes DEF writeDirectory, TypeOK, CreateCalls, Entries
  <2>2. UNCHANGED <<inodeMap, table>> /\ call'.kind = "none" /\ call.kind = "entry"
    BY <1>8 DEF writeDirectory, Idle
  <2>3. entry.inode <= MAX_FILES_PER_DIRECTORY =>
          Len(Numbers(table[entry.inode])) = entry.size
    <3>1. entry.inode \in Nat /\ entry.inode = call.inode /\ entry.size = call.size
      BY <2>1 DEF Entries, Inodes
    <3> QED
      BY <1>2, <1>4, <2>2, <3>1
  <2>4. CASE dir' = dir
    BY <1>4, <2>2, <2>4 DEF SizeInv
  <2>5. CASE dir' = Append(dir, entry)
    <3>1. /\ DOMAIN dir' = 1 .. Len(dir) + 1 /\ dir'[Len(dir) + 1] = entry
          /\ \A e \in DOMAIN dir : dir'[e] = dir[e]
      BY <2>5, DirType, AppendProperties, LenProperties
    <3>2. \A e \in DOMAIN dir' : e \in DOMAIN dir \/ e = Len(dir) + 1
      BY <3>1, DirType
    <3>3. \A e \in DOMAIN dir' : dir'[e].inode <= MAX_FILES_PER_DIRECTORY =>
             Len(Numbers(table[dir'[e].inode])) = dir'[e].size
      BY <1>4, <2>3, <3>1, <3>2
    <3> QED
      BY <1>4, <2>2, <3>3 DEF SizeInv
  <2> QED
    BY <1>8, <2>1, <2>4, <2>5 DEF writeDirectory
<1>11. CASE writeIndirectBlock
  <2>1. /\ call \in CreateCalls /\ call.kind = "create" /\ call'.kind = "inode"
        /\ call'.inode = call.inode /\ call'.size = call.size /\ call'.node = call.node
        /\ call.written = call.size
        /\ UNCHANGED <<inodeMap, table, dir>>
    BY <1>11, CallTypes DEF writeIndirectBlock, TypeOK, CreateCalls
  <2> QED
    BY <1>4, <2>1 DEF SizeInv
<1>9. CASE PowerOff
  <2>1. /\ call'.kind = "none" /\ UNCHANGED <<inodeMap, dir>>
        /\ \A i \in Inodes : table'[i] = IF i <= MAX_FILES_PER_DIRECTORY THEN table[i] ELSE NoInode
    BY <1>9 DEF PowerOff, Idle
  <2> QED
    BY <1>3, <1>4, <2>1 DEF SizeInv
<1>10. CASE UNCHANGED vars
  BY <1>4, <1>10 DEF SizeInv, vars, disk, counts
<1> QED
  BY <1>5, <1>6, <1>7, <1>8, <1>9, <1>10, <1>11, NoDeletion

(* Without deletions a file that the directory names is complete, wherever *)
(* the machine was switched off: createFile writes the maps, the data, the *)
(* indirect block, the inode and the entry in this order, and an inode it  *)
(* gets is empty.                                                          *)
THEOREM NamedFilesComplete == Spec => []EntriesComplete
<1>1. Spec => [](TypeOK /\ InodeInv /\ BlockInv /\ SizeInv)
  BY TypeInit, TypeStep, InodeInit, InodeStep, BlockInit, BlockStep, SizeInit, SizeStep,
     PTL DEF Spec
<1>2. TypeOK /\ InodeInv /\ BlockInv /\ SizeInv => EntriesComplete
  <2> SUFFICES ASSUME TypeOK, InodeInv, BlockInv, SizeInv, deletes = 0,
                      NEW e \in DOMAIN dir, dir[e].inode <= MAX_FILES_PER_DIRECTORY
               PROVE  /\ Marked(inodeMap, dir[e].inode)
                      /\ Len(Numbers(table[dir[e].inode])) = dir[e].size
                      /\ \A p \in DOMAIN Numbers(table[dir[e].inode]) :
                           InMap(Numbers(table[dir[e].inode])[p]) =>
                             /\ Marked(blockMap, Numbers(table[dir[e].inode])[p])
                             /\ data[Numbers(table[dir[e].inode])[p]] = <<dir[e].inode, p - 1>>
    BY DEF EntriesComplete
  <2>1. Sound(table, blockMap, data, 0) /\ dir[e].inode \in Inodes /\ dir[e].inode # 0
    BY DirType DEF BlockInv, Inodes
  <2>2. Marked(inodeMap, dir[e].inode)
    BY DEF InodeInv
  <2>3. Len(Numbers(table[dir[e].inode])) = dir[e].size
    BY DEF SizeInv
  <2> QED
    BY <2>1, <2>2, <2>3 DEF Sound, MarkedAll, Holds
<1> QED
  BY <1>1, <1>2, PTL
=============================================================================
