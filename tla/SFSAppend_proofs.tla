--------------------------- MODULE SFSAppend_proofs ---------------------------
(***************************************************************************)
(* Theorems about files with indirect blocks: while clients only add whole *)
(* blocks at the end of files, every call of sfs_api.c does what FileStore *)
(* promises, no block serves two files, and none is lost, for every size   *)
(* of the disk, of its blocks and of the tables.                           *)
(***************************************************************************)
EXTENDS SFSAppend, FileStore_proofs, FiniteSetTheorems

-----------------------------------------------------------------------------
(* A file of n whole blocks: its block q is direct pointer q or entry      *)
(* q - NDIRECT of its indirect block, which it has when n > NDIRECT.       *)

BlockAt(ino, d, q) ==
    IF q < NDIRECT THEN ino.data_ptrs[q] ELSE d[ino.indirectPointer][q - NDIRECT]

Whole(ino, d, n) ==
    /\ ino \in inode_t
    /\ n \in 0 .. NDIRECT + BLOCK_SIZE
    /\ ino.size = n * BLOCK_SIZE
    /\ \A k \in 0 .. NDIRECT - 1 : k >= n => ino.data_ptrs[k] = 0
    /\ IF n > NDIRECT THEN ino.indirectPointer \in DataBlocks
                      ELSE ino.indirectPointer = 0
    /\ \A q \in 0 .. n - 1 : BlockAt(ino, d, q) \in DataBlocks

(* The blocks of the files, N[i] of file i, are apart: none can be         *)
(* allocated, none is an indirect block, and none comes twice.             *)
Apart(table, d, free, N, i, q, j) ==
    LET b == BlockAt(table[i], d, q) IN
    /\ b \notin free
    /\ b # table[j].indirectPointer
    /\ \A r \in 0 .. N[j] - 1 : b = BlockAt(table[j], d, r) => i = j /\ q = r

Laid(table, d, free, N) ==
    /\ N \in [Inodes -> Nat]
    /\ \A i \in Inodes : Whole(table[i], d, N[i])
    /\ \A i, j \in Inodes : \A q \in 0 .. N[i] - 1 : Apart(table, d, free, N, i, q, j)

AppendInv ==
    /\ TypeOK /\ OneOwner /\ DirInv /\ Named
    /\ up /\ known /\ intact /\ MAX_BLOCK = NUM_BLOCKS
    /\ \E N : Laid(inode_table, disk, free_bit_map, N)

-----------------------------------------------------------------------------
(* Whole blocks.                                                           *)

LEMMA WholeTimes ==
    ASSUME NEW a \in Int, NEW b \in Int
    PROVE  /\ a * BLOCK_SIZE \in Int /\ b * BLOCK_SIZE \in Int
           /\ (a + b) * BLOCK_SIZE = a * BLOCK_SIZE + b * BLOCK_SIZE
           /\ (a - b) * BLOCK_SIZE = a * BLOCK_SIZE - b * BLOCK_SIZE
           /\ a < b => a * BLOCK_SIZE + BLOCK_SIZE <= b * BLOCK_SIZE
           /\ a <= b => a * BLOCK_SIZE <= b * BLOCK_SIZE
           /\ a \in Nat => a * BLOCK_SIZE \in Nat
<1>1. BLOCK_SIZE \in Nat \ {0}
    BY SizeAssumption
<1>2. /\ a * BLOCK_SIZE \in Int /\ b * BLOCK_SIZE \in Int
      /\ (a + b) * BLOCK_SIZE = a * BLOCK_SIZE + b * BLOCK_SIZE
      /\ (a - b) * BLOCK_SIZE = a * BLOCK_SIZE - b * BLOCK_SIZE
      /\ a \in Nat => a * BLOCK_SIZE \in Nat
    BY <1>1
<1>3. ASSUME a < b PROVE a * BLOCK_SIZE + BLOCK_SIZE <= b * BLOCK_SIZE
    <2>1. PICK c \in Nat : b = a + 1 + c
        <3>1. b - (a + 1) \in Nat /\ b = a + 1 + (b - (a + 1))
            BY <1>3
        <3> QED BY <3>1
    <2>2. b * BLOCK_SIZE = a * BLOCK_SIZE + BLOCK_SIZE + c * BLOCK_SIZE
        BY <1>1, <2>1
    <2>3. c * BLOCK_SIZE \in Nat
        BY <1>1
    <2> QED BY <1>1, <1>2, <2>2, <2>3
<1>4. ASSUME a <= b PROVE a * BLOCK_SIZE <= b * BLOCK_SIZE
    <2>1. a = b \/ a < b
        BY <1>4
    <2> QED BY <1>1, <1>2, <1>3, <2>1
<1> QED BY <1>2, <1>3, <1>4

(* The block and the offset of a position.                                 *)
LEMMA PlaceOf ==
    ASSUME NEW a \in Nat, NEW o \in Offsets
    PROVE  /\ a * BLOCK_SIZE + o \in Nat
           /\ (a * BLOCK_SIZE + o) \div BLOCK_SIZE = a
           /\ (a * BLOCK_SIZE + o) % BLOCK_SIZE = o
<1> DEFINE r == a * BLOCK_SIZE + o
           q == r \div BLOCK_SIZE
           w == r % BLOCK_SIZE
<1>1. BLOCK_SIZE \in Nat \ {0} /\ o \in 0 .. BLOCK_SIZE - 1 /\ r \in Nat
    BY SizeAssumption DEF Offsets
<1>2. q \in Nat /\ w \in 0 .. BLOCK_SIZE - 1 /\ r = BLOCK_SIZE * q + w
    BY <1>1, DivMod DEF Offsets
<1> HIDE DEF q, w
<1>3. ~ (q < a)
    <2>1. q * BLOCK_SIZE = BLOCK_SIZE * q
        BY <1>1, <1>2
    <2> QED BY <1>1, <1>2, <2>1, WholeTimes
<1>4. ~ (a < q)
    <2>1. q * BLOCK_SIZE = BLOCK_SIZE * q
        BY <1>1, <1>2
    <2> QED BY <1>1, <1>2, <2>1, WholeTimes
<1>5. q = a
    BY <1>2, <1>3, <1>4
<1>6. w = o
    <2>1. BLOCK_SIZE * q = a * BLOCK_SIZE /\ a * BLOCK_SIZE \in Int
        BY <1>1, <1>5
    <2> HIDE DEF r
    <2> QED BY <1>1, <1>2, <2>1 DEF r
<1> QED BY <1>1, <1>5, <1>6 DEF q, w

LEMMA CeilDivWhole ==
    ASSUME NEW a \in Nat
    PROVE  CeilDiv(a * BLOCK_SIZE, BLOCK_SIZE) = a
<1>1. BLOCK_SIZE - 1 \in Offsets /\ BLOCK_SIZE \in Nat \ {0} /\ a * BLOCK_SIZE \in Nat
    BY SizeAssumption DEF Offsets
<1>2. a * BLOCK_SIZE + BLOCK_SIZE - 1 = a * BLOCK_SIZE + (BLOCK_SIZE - 1)
    BY <1>1
<1> QED BY <1>1, <1>2, PlaceOf DEF CeilDiv

(* The blocks that hold m whole blocks behind the first n.                 *)
LEMMA TouchedWhole ==
    ASSUME NEW n \in Nat, NEW m \in Nat \ {0}
    PROVE  Touched(n * BLOCK_SIZE, n * BLOCK_SIZE + m * BLOCK_SIZE) = n .. n + m - 1
<1> DEFINE p == n * BLOCK_SIZE
           e == n * BLOCK_SIZE + m * BLOCK_SIZE
<1>1. /\ BLOCK_SIZE \in Nat \ {0} /\ BLOCK_SIZE - 1 \in Offsets /\ 0 \in Offsets
      /\ n + m - 1 \in Nat
    BY SizeAssumption DEF Offsets
<1>2. p \in Nat /\ e \in Nat /\ p < e
          /\ e - 1 = (n + m - 1) * BLOCK_SIZE + (BLOCK_SIZE - 1)
    <2>1. /\ p \in Nat /\ m * BLOCK_SIZE \in Nat
          /\ (n + m) * BLOCK_SIZE = p + m * BLOCK_SIZE
          /\ 0 < m => 0 * BLOCK_SIZE + BLOCK_SIZE <= m * BLOCK_SIZE
        BY WholeTimes
    <2>2. ((n + m) - 1) * BLOCK_SIZE = (n + m) * BLOCK_SIZE - 1 * BLOCK_SIZE
        BY WholeTimes
    <2>3. n + m - 1 = (n + m) - 1 /\ 1 * BLOCK_SIZE = BLOCK_SIZE /\ 0 * BLOCK_SIZE = 0
        BY <1>1
    <2> QED BY <1>1, <2>1, <2>2, <2>3
<1>3. p \div BLOCK_SIZE = n
    <2>1. n * BLOCK_SIZE + 0 = n * BLOCK_SIZE
        BY <1>2
    <2> QED BY <1>1, <2>1, PlaceOf
<1>4. (e - 1) \div BLOCK_SIZE = n + m - 1
    BY <1>1, <1>2, PlaceOf
<1> HIDE DEF p, e
<1>5. Touched(p, e) = p \div BLOCK_SIZE .. (e - 1) \div BLOCK_SIZE
    BY <1>2 DEF Touched
<1> QED BY <1>3, <1>4, <1>5 DEF p, e

-----------------------------------------------------------------------------
(* What the code finds of such a file.                                     *)

LEMMA WholeTidy ==
    ASSUME NEW ino, NEW d, NEW n, Whole(ino, d, n), ~ (n > NDIRECT)
    PROVE  Tidy(ino, n)
<1>1. n \in 0 .. NDIRECT /\ NDIRECT \in Nat \ {0} /\ n * BLOCK_SIZE \in Int
    BY SizeAssumption DEF Whole
<1>2. ASSUME NEW k \in 0 .. NDIRECT - 1, k < n PROVE ino.data_ptrs[k] \in DataBlocks
    <2>1. k \in 0 .. n - 1 /\ k < NDIRECT
        BY <1>1, <1>2
    <2> QED BY <2>1 DEF Whole, BlockAt
<1>3. ASSUME NEW k \in 0 .. NDIRECT - 1, ~ (k < n) PROVE ino.data_ptrs[k] = 0
    <2>1. k >= n
        BY <1>1, <1>3
    <2> QED BY <2>1 DEF Whole
<1>4. ino.size <= n * BLOCK_SIZE
    BY <1>1 DEF Whole
<1> QED BY <1>1, <1>2, <1>3, <1>4 DEF Tidy, Whole

LEMMA WholeInUse ==
    ASSUME NEW i \in Inodes, NEW n, Whole(inode_table[i], disk, n), MAX_BLOCK = NUM_BLOCKS
    PROVE  /\ HasIndirect(i) <=> n > NDIRECT
           /\ numBlocks(i) = n
           /\ ~WrapsAround(i)
           /\ \A q \in 0 .. n - 1 : FileBlock(i, q) = BlockAt(inode_table[i], disk, q)
<1> DEFINE ino == inode_table[i]
<1>0. n \in Nat /\ NDIRECT \in Nat \ {0} /\ BLOCK_SIZE \in Nat \ {0} /\ 0 \notin DataBlocks
    BY SizeAssumption DEF Whole, DataBlocks
<1>1. HasIndirect(i) <=> n > NDIRECT
    BY <1>0 DEF Whole, HasIndirect
<1>2. CASE n > NDIRECT
    <2>1. numIndPtrs(i) = n - NDIRECT
        <3>1. n - NDIRECT \in Nat
            BY <1>0, <1>2
        <3>2. ino.size - DIRECT_SIZE = (n - NDIRECT) * BLOCK_SIZE
            BY <1>0, WholeTimes DEF Whole, DIRECT_SIZE
        <3> QED BY <3>1, <3>2, CeilDivWhole DEF numIndPtrs
    <2>2. numBlocks(i) = n
        BY <1>0, <1>1, <1>2, <2>1 DEF numBlocks
    <2>3. ~WrapsAround(i)
        <3>1. NDIRECT * BLOCK_SIZE <= n * BLOCK_SIZE /\ n * BLOCK_SIZE \in Int
                 /\ NDIRECT * BLOCK_SIZE \in Int
            BY <1>0, <1>2, WholeTimes
        <3> QED BY <3>1 DEF WrapsAround, Whole, DIRECT_SIZE
    <2>4. ino.indirectPointer \in Reachable
        BY <1>2, AllReachable DEF Whole
    <2>5. ASSUME NEW q \in 0 .. n - 1 PROVE FileBlock(i, q) = BlockAt(ino, disk, q)
        <3>1. CASE q < NDIRECT
            <4>1. FileBlock(i, q) = ino.data_ptrs[q]
                BY <1>0, <1>1, <1>2, <3>1 DEF FileBlock, Loaded
            <4> QED BY <3>1, <4>1 DEF BlockAt
        <3>2. CASE ~ (q < NDIRECT)
            <4>1. q >= NDIRECT /\ q - NDIRECT < numIndPtrs(i)
                BY <1>0, <2>1, <3>2
            <4>2. FileBlock(i, q) = disk[ino.indirectPointer][q - NDIRECT]
                BY <1>1, <1>2, <2>4, <3>2, <4>1 DEF FileBlock, Loaded
            <4> QED BY <3>2, <4>2 DEF BlockAt
        <3> QED BY <3>1, <3>2
    <2> QED BY <1>1, <2>2, <2>3, <2>5
<1>3. CASE ~ (n > NDIRECT)
    <2>1. Tidy(ino, n)
        BY <1>3, WholeTidy
    <2>2. numBlocks(i) = n /\ ~HasIndirect(i)
        BY <2>1, TidyInUse
    <2>3. ASSUME NEW q \in 0 .. n - 1 PROVE FileBlock(i, q) = BlockAt(ino, disk, q)
        <3>1. q \in 0 .. NDIRECT - 1 /\ q < n /\ q < NDIRECT
            BY <1>0, <1>3
        <3> QED BY <2>1, <3>1, TidyLoaded DEF FileBlock, BlockAt
    <2> QED BY <1>1, <2>2, <2>3 DEF WrapsAround
<1> QED BY <1>2, <1>3

(* The words of such a file.                                               *)
WordsIn(ino, d) ==
    [k \in 1 .. ino.size |->
        d[BlockAt(ino, d, (k - 1) \div BLOCK_SIZE)][(k - 1) % BLOCK_SIZE]]

LEMMA PositionIn ==
    ASSUME NEW ino, NEW d, NEW n, Whole(ino, d, n), NEW k \in 1 .. ino.size
    PROVE  /\ k - 1 \in Nat
           /\ (k - 1) \div BLOCK_SIZE \in 0 .. n - 1
           /\ (k - 1) % BLOCK_SIZE \in Offsets
           /\ BlockAt(ino, d, (k - 1) \div BLOCK_SIZE) \in DataBlocks
<1>1. n \in Nat /\ ino.size = n * BLOCK_SIZE /\ n * BLOCK_SIZE \in Nat
    BY SizeAssumption DEF Whole
<1>2. k - 1 \in Nat /\ k - 1 < n * BLOCK_SIZE
    BY <1>1
<1>3. (k - 1) \div BLOCK_SIZE < n /\ (k - 1) \div BLOCK_SIZE \in Nat
          /\ (k - 1) % BLOCK_SIZE \in Offsets
    BY <1>1, <1>2, BlockBelow, DivMod
<1>4. (k - 1) \div BLOCK_SIZE \in 0 .. n - 1
    BY <1>1, <1>3
<1> QED BY <1>2, <1>3, <1>4 DEF Whole

LEMMA ContentIn ==
    ASSUME NEW i \in Inodes, NEW n, Whole(inode_table[i], disk, n), MAX_BLOCK = NUM_BLOCKS
    PROVE  Content(i) = WordsIn(inode_table[i], disk)
<1> DEFINE ino == inode_table[i]
<1>1. ASSUME NEW k \in 1 .. ino.size
      PROVE  ReadWord([q \in {(k - 1) \div BLOCK_SIZE} |-> FileBlock(i, q)], k - 1)
                = disk[BlockAt(ino, disk, (k - 1) \div BLOCK_SIZE)][(k - 1) % BLOCK_SIZE]
    <2> DEFINE q0 == (k - 1) \div BLOCK_SIZE
               blk == [q \in {q0} |-> FileBlock(i, q)]
    <2>1. q0 \in 0 .. n - 1 /\ BlockAt(ino, disk, q0) \in DataBlocks
        BY PositionIn
    <2>2. blk[q0] = BlockAt(ino, disk, q0)
        BY <2>1, WholeInUse
    <2>3. blk[q0] \in Reachable
        BY <2>1, <2>2, AllReachable
    <2> HIDE DEF blk
    <2> QED BY <2>2, <2>3 DEF ReadWord, blk
<1> QED BY <1>1 DEF Content, WordsIn

-----------------------------------------------------------------------------
(* An append.                                                              *)

(* There is an indirect block for each file that needs one.                *)
LEMMA BlockIsLeft ==
    ASSUME NEW free, NEW m \in Nat, NEW s \in [0 .. m - 1 -> free], Cardinality(free) > m
    PROVE  free \ Taken(s) # {}
<1> SUFFICES ASSUME free \ Taken(s) = {} PROVE FALSE
    OBVIOUS
<1>1. s \in Surjection(0 .. m - 1, free)
    BY DEF Surjection, Taken
<1>2. IsFiniteSet(0 .. m - 1) /\ Cardinality(0 .. m - 1) = m
    <2>1. m - 1 \in Int
        OBVIOUS
    <2>2. /\ IsFiniteSet(0 .. m - 1)
          /\ Cardinality(0 .. m - 1) = IF 0 > m - 1 THEN 0 ELSE m - 1 - 0 + 1
        BY <2>1, FS_Interval
    <2> QED BY <2>2
<1>3. IsFiniteSet(free) /\ Cardinality(free) <= m
    BY <1>1, <1>2, FS_Surjection
<1>4. Cardinality(free) \in Nat
    BY <1>3, FS_CardinalityType
<1> QED BY <1>3, <1>4

(* What sfs_fwrite_done has chosen to add m whole blocks to the n of file  *)
(* i: the new blocks s, and the indirect block ind.                        *)
Growing(i, buf, n, m, s, ind) ==
    /\ i \in Inodes /\ Whole(inode_table[i], disk, n)
    /\ m \in Nat \ {0} /\ n + m <= NDIRECT + BLOCK_SIZE
    /\ buf \in Seq(Int) /\ Len(buf) = m * BLOCK_SIZE
    /\ s \in [0 .. m - 1 -> free_bit_map]
    /\ \A j, k \in 0 .. m - 1 : s[j] = s[k] => j = k
    /\ IF n <= NDIRECT /\ n + m > NDIRECT THEN ind \in free_bit_map \ Taken(s)
       ELSE ind = inode_table[i].indirectPointer

(* The inode and the bit map behind it.                                    *)
GrownInode(i, n, m, s, ind) ==
    /\ \A j \in Inodes \ {i} : inode_table'[j] = inode_table[j]
    /\ inode_table'[i].mode = inode_table[i].mode
    /\ inode_table'[i].size = (n + m) * BLOCK_SIZE
    /\ inode_table'[i].indirectPointer = ind
    /\ \A k \in 0 .. NDIRECT - 1 :
          inode_table'[i].data_ptrs[k] =
              IF n <= k /\ k < n + m THEN s[k - n] ELSE inode_table[i].data_ptrs[k]
    /\ free_bit_map' = (free_bit_map \ Taken(s)) \ {ind}

(* The disk behind it: the new blocks hold buf, the indirect block leads   *)
(* to them behind the old ones, and nothing else has changed.              *)
GrownDisk(buf, n, m, s, ind) ==
    /\ \A b \in DataBlocks \ Taken(s) : b # ind => disk'[b] = disk[b]
    /\ \A q \in NDIRECT .. n + m - 1 :
          disk'[ind][q - NDIRECT] = IF q >= n THEN s[q - n] ELSE disk[ind][q - NDIRECT]
    /\ \A j \in 0 .. m - 1, o \in Offsets : disk'[s[j]][o] = buf[(j * BLOCK_SIZE + o) + 1]

Grown(i, buf, n, m, s, ind) ==
    /\ GrownInode(i, n, m, s, ind) /\ GrownDisk(buf, n, m, s, ind)
    /\ fd_table' = [fd_table EXCEPT ![i] = (n + m) * BLOCK_SIZE]
    /\ Reply(Len(buf), <<>>)
    /\ UNCHANGED <<rootDir, MAX_BLOCK, intact>>

(* What the code counts of an append of m whole blocks to n.               *)
Counted(i, buf, n, m) ==
    /\ m \in Nat \ {0}
    /\ Len(buf) = m * BLOCK_SIZE /\ n + m <= NDIRECT + BLOCK_SIZE
    /\ fd_table[i] = n * BLOCK_SIZE
    /\ fd_table[i] + Len(buf) = (n + m) * BLOCK_SIZE
    /\ numNewBlocks(i, fd_table[i] + Len(buf)) = m
    /\ NeedsIndirect(i, m) <=> n <= NDIRECT /\ n + m > NDIRECT
    /\ Cardinality(free_bit_map) > m

LEMMA AppendCounts ==
    ASSUME TypeOK, MAX_BLOCK = NUM_BLOCKS, NEW i \in Inodes, NEW n,
           Whole(inode_table[i], disk, n), NEW buf \in Buf, Appends(i, buf),
           ~ (fd_table[i] + Len(buf) > MAX_FILE)
    PROVE  \E m : Counted(i, buf, n, m)
<1> DEFINE m == Len(buf) \div BLOCK_SIZE
           e == fd_table[i] + Len(buf)
<1>1. n \in Nat /\ NDIRECT \in Nat \ {0} /\ BLOCK_SIZE \in Nat \ {0}
          /\ fd_table[i] = n * BLOCK_SIZE /\ n * BLOCK_SIZE \in Nat
    BY SizeAssumption, WholeTimes DEF Whole, Appends
<1>2. Len(buf) \in Nat \ {0} /\ Len(buf) % BLOCK_SIZE = 0
    <2>1. buf \in Seq(Int) /\ buf # <<>>
        BY ClientAssumption
    <2> QED BY <2>1, EmptySeq DEF Appends
<1>3. m \in Nat \ {0} /\ Len(buf) = m * BLOCK_SIZE
    <2>1. m \in Nat /\ Len(buf) = BLOCK_SIZE * m + (Len(buf) % BLOCK_SIZE)
        BY <1>2, DivMod
    <2> HIDE DEF m
    <2>2. Len(buf) = BLOCK_SIZE * m
        BY <1>1, <1>2, <2>1
    <2>3. m # 0
        BY <1>1, <1>2, <2>2
    <2> QED BY <1>1, <2>1, <2>2, <2>3
<1> HIDE DEF m
<1>4. e = (n + m) * BLOCK_SIZE
    BY <1>1, <1>3, WholeTimes
<1>5. n + m <= NDIRECT + BLOCK_SIZE
    <2>1. MAX_FILE = (NDIRECT + BLOCK_SIZE) * BLOCK_SIZE
        BY DEF MAX_FILE
    <2>2. ~ ((n + m) * BLOCK_SIZE > (NDIRECT + BLOCK_SIZE) * BLOCK_SIZE)
        BY <1>4, <2>1
    <2>3. n + m \in Int /\ NDIRECT + BLOCK_SIZE \in Int
        BY <1>1, <1>3
    <2>4. NDIRECT + BLOCK_SIZE < n + m =>
              (NDIRECT + BLOCK_SIZE) * BLOCK_SIZE + BLOCK_SIZE <= (n + m) * BLOCK_SIZE
        BY <2>3, WholeTimes
    <2>5. (NDIRECT + BLOCK_SIZE) * BLOCK_SIZE \in Int /\ (n + m) * BLOCK_SIZE \in Int
        BY <2>3, WholeTimes
    <2> QED BY <1>1, <2>2, <2>3, <2>4, <2>5
<1>6. numNewBlocks(i, e) = m
    <2>1. numBlocks(i) = n
        BY WholeInUse
    <2>2. e - n * BLOCK_SIZE = m * BLOCK_SIZE /\ n * BLOCK_SIZE < e
        BY <1>1, <1>2, <1>3
    <2>3. CeilDiv(m * BLOCK_SIZE, BLOCK_SIZE) = m
        BY <1>3, CeilDivWhole
    <2> HIDE DEF e
    <2> QED BY <2>1, <2>2, <2>3 DEF numNewBlocks
<1>7. NeedsIndirect(i, m) <=> n <= NDIRECT /\ n + m > NDIRECT
    <2>1. numBlocks(i) = n /\ (HasIndirect(i) <=> n > NDIRECT)
        BY WholeInUse
    <2>2. /\ n > NDIRECT <=> ~ (n <= NDIRECT)
          /\ m > NDIRECT - n <=> n + m > NDIRECT
        BY <1>1, <1>3
    <2> QED BY <2>1, <2>2 DEF NeedsIndirect
<1>8. Cardinality(free_bit_map) > m
    BY <1>6 DEF Appends
<1> QED BY <1>1, <1>3, <1>4, <1>5, <1>6, <1>7, <1>8 DEF Counted

(* write_helper keeps a word no position leads to, and stores one at the   *)
(* place that one position leads to.                                       *)
Lands(blk, p, buf, b, o, S) == Landing(blk, p, p + Len(buf), b, o) = S

LEMMA HelperKeeps ==
    ASSUME Reachable = DataBlocks, NEW d, NEW buf, NEW blk, NEW p \in Nat,
           NEW b \in DataBlocks, NEW o \in Offsets, Lands(blk, p, buf, b, o, {})
    PROVE  write_helper(d, buf, blk, p)[b][o] = d[b][o]
BY HelperWord DEF Lands

LEMMA HelperStores ==
    ASSUME Reachable = DataBlocks, NEW d, NEW buf, NEW blk, NEW p \in Nat,
           NEW b \in DataBlocks, NEW o \in Offsets, NEW r \in Nat,
           Lands(blk, p, buf, b, o, {r})
    PROVE  write_helper(d, buf, blk, p)[b][o] = buf[r - p + 1]
BY HelperWord DEF Lands

(* The words of the disk behind write_helper, for a blockNums that holds   *)
(* the new blocks.                                                         *)
NewBlocks(buf, n, m, s, blk) ==
    /\ Len(buf) = m * BLOCK_SIZE
    /\ \A j, k \in 0 .. m - 1 : s[j] = s[k] => j = k
    /\ \A j \in 0 .. m - 1 : s[j] \in DataBlocks
    /\ DOMAIN s = 0 .. m - 1
    /\ \A q \in n .. n + m - 1 : blk[q] = s[q - n]

(* The disk w holds buf in the m new blocks s, and d elsewhere.            *)
Stored(w, d, buf, m, s) ==
    /\ \A b \in DataBlocks \ Taken(s), o \in Offsets : w[b][o] = d[b][o]
    /\ \A j \in 0 .. m - 1, o \in Offsets : w[s[j]][o] = buf[(j * BLOCK_SIZE + o) + 1]

LEMMA NewBlocksWords ==
    ASSUME Reachable = DataBlocks, NEW d, NEW n \in Nat, NEW m \in Nat \ {0}, NEW buf,
           NEW s, NEW blk, NewBlocks(buf, n, m, s, blk)
    PROVE  Stored(write_helper(d, buf, blk, n * BLOCK_SIZE), d, buf, m, s)
<1> DEFINE p == n * BLOCK_SIZE
           e == p + Len(buf)
           w == write_helper(d, buf, blk, p)
<1> USE DEF NewBlocks
<1>1. /\ p \in Nat /\ m * BLOCK_SIZE \in Nat /\ BLOCK_SIZE \in Nat \ {0}
      /\ e = (n + m) * BLOCK_SIZE /\ e \in Nat /\ e = p + m * BLOCK_SIZE
    <2>0. n \in Nat /\ m \in Nat
        OBVIOUS
    <2>1. /\ n * BLOCK_SIZE \in Nat /\ m * BLOCK_SIZE \in Nat
          /\ (n + m) * BLOCK_SIZE = n * BLOCK_SIZE + m * BLOCK_SIZE
        BY ONLY <2>0, WholeTimes
    <2>2. Len(buf) = m * BLOCK_SIZE
        OBVIOUS
    <2>3. BLOCK_SIZE \in Nat \ {0}
        BY SizeAssumption
    <2> DEFINE a == n * BLOCK_SIZE
               b == m * BLOCK_SIZE
               c == (n + m) * BLOCK_SIZE
    <2>4. a \in Nat /\ b \in Nat /\ c = a + b /\ p = a /\ e = a + b
        BY <2>1, <2>2
    <2> HIDE DEF a, b, c, p, e
    <2>5. c \in Nat /\ p \in Nat /\ e = p + b /\ e = c /\ e \in Nat
        BY ONLY <2>4
    <2> QED BY ONLY <2>3, <2>4, <2>5 DEF b, c
<1> HIDE DEF e
<1>2. ASSUME NEW r \in p .. e - 1
      PROVE  /\ r \in Nat /\ r \div BLOCK_SIZE \in Nat
             /\ (r \div BLOCK_SIZE) - n \in 0 .. m - 1
             /\ blk[r \div BLOCK_SIZE] = s[(r \div BLOCK_SIZE) - n]
    <2>1. r \in Nat /\ p <= r /\ r < (n + m) * BLOCK_SIZE
        BY <1>1
    <2>2. r \div BLOCK_SIZE < n + m /\ r \div BLOCK_SIZE \in Nat
        BY <2>1, BlockBelow, DivMod
    <2>3. n <= r \div BLOCK_SIZE
        <3>1. n * BLOCK_SIZE + 0 = n * BLOCK_SIZE /\ 0 \in Offsets
            BY <1>1 DEF Offsets
        <3>2. p \div BLOCK_SIZE = n
            BY <3>1, PlaceOf
        <3> QED BY <1>1, <2>1, <3>2, BlockOrder
    <2>4. r \div BLOCK_SIZE \in n .. n + m - 1
        BY <2>2, <2>3
    <2> HIDE DEF p
    <2> QED BY <2>1, <2>2, <2>3, <2>4
<1> HIDE DEF p
<1>3. ASSUME NEW b \in DataBlocks \ Taken(s), NEW o \in Offsets PROVE w[b][o] = d[b][o]
    <2> DEFINE L == Landing(blk, p, e, b, o)
    <2>1. ASSUME NEW r \in L PROVE FALSE
        <3>1. r \in p .. e - 1 /\ blk[r \div BLOCK_SIZE] = b
            BY DEF Landing
        <3>2. (r \div BLOCK_SIZE) - n \in DOMAIN s /\ s[(r \div BLOCK_SIZE) - n] = b
            BY <1>2, <3>1
        <3> QED BY <3>2 DEF Taken
    <2>2. L = {}
        BY <2>1
    <2>3. b \in DataBlocks /\ p \in Nat /\ Lands(blk, p, buf, b, o, {})
        BY <1>1, <2>2 DEF e, Lands
    <2> QED BY <2>3, HelperKeeps
<1>4. ASSUME NEW j \in 0 .. m - 1, NEW o \in Offsets
      PROVE  w[s[j]][o] = buf[(j * BLOCK_SIZE + o) + 1]
    <2> DEFINE r0 == (n + j) * BLOCK_SIZE + o
               L == Landing(blk, p, e, s[j], o)
    <2>0. n + j \in Nat /\ (n + j) - n = j /\ j \in Int /\ n \in Int /\ m \in Int /\ j < m
              /\ j \in Nat
        OBVIOUS
    <2>1. r0 \in Nat /\ r0 \div BLOCK_SIZE = n + j /\ r0 % BLOCK_SIZE = o
        BY <2>0, PlaceOf
    <2>2. r0 \in p .. e - 1 /\ r0 - p + 1 = (j * BLOCK_SIZE + o) + 1
        <3>1. (n + j) * BLOCK_SIZE = n * BLOCK_SIZE + j * BLOCK_SIZE
            BY <2>0, WholeTimes
        <3>a. j * BLOCK_SIZE \in Nat /\ j * BLOCK_SIZE + BLOCK_SIZE <= m * BLOCK_SIZE
            BY <2>0, WholeTimes
        <3>2. o \in 0 .. BLOCK_SIZE - 1
            BY DEF Offsets
        <3>3. p = n * BLOCK_SIZE
            BY DEF p
        <3> QED BY <1>1, <3>1, <3>a, <3>2, <3>3
    <2> HIDE DEF r0
    <2>3. r0 \in L
        <3>1. blk[r0 \div BLOCK_SIZE] = s[j]
            BY <1>2, <2>0, <2>1, <2>2
        <3> QED BY <2>1, <2>2, <3>1 DEF Landing
    <2>4. ASSUME NEW r \in L PROVE r = r0
        <3>1. r \in p .. e - 1 /\ blk[r \div BLOCK_SIZE] = s[j] /\ r % BLOCK_SIZE = o
            BY DEF Landing
        <3>2. r \in Nat /\ r \div BLOCK_SIZE \in Nat /\ (r \div BLOCK_SIZE) - n = j
            BY <1>2, <3>1
        <3>3. r \div BLOCK_SIZE = n + j
            BY <2>0, <3>2
        <3> QED BY <2>1, <3>1, <3>2, <3>3, SamePlace
    <2>5. L = {r0}
        BY <2>3, <2>4
    <2>6. /\ s[j] \in DataBlocks /\ p \in Nat /\ r0 \in Nat
          /\ Lands(blk, p, buf, s[j], o, {r0})
        BY <1>1, <2>1, <2>5 DEF e, Lands
    <2>7. w[s[j]][o] = buf[r0 - p + 1]
        BY <2>6, HelperStores
    <2> QED BY <2>2, <2>7
<1> HIDE DEF w
<1>5. Stored(w, d, buf, m, s)
    BY <1>3, <1>4 DEF Stored
<1> QED BY <1>5 DEF w, p

LEMMA AppendChoice ==
    ASSUME Overrun = {}, TypeOK, NEW i \in Inodes, NEW buf \in Buf, NEW n,
           Whole(inode_table[i], disk, n), NEW m, Counted(i, buf, n, m),
           NEW s \in Allocations(m)
    PROVE  Growing(i, buf, n, m, s, IndirectAfter(i, m, s))
<1>1. /\ buf \in Seq(Int) /\ m \in Nat \ {0} /\ Len(buf) = m * BLOCK_SIZE
      /\ n + m <= NDIRECT + BLOCK_SIZE /\ Cardinality(free_bit_map) > m
      /\ NeedsIndirect(i, m) <=> n <= NDIRECT /\ n + m > NDIRECT
    BY ClientAssumption DEF Counted
<1>2. s \in [0 .. m - 1 -> free_bit_map]
    BY DEF Allocations
<1>3. \A j, k \in 0 .. m - 1 : s[j] = s[k] => j = k
    BY <1>2, AllocationsInjective
<1>4. ASSUME NeedsIndirect(i, m)
      PROVE  IndirectAfter(i, m, s) \in free_bit_map \ Taken(s)
    <2>1. free_bit_map \ Taken(s) # {}
        BY <1>1, <1>2, BlockIsLeft
    <2>2. free_bit_map \ Taken(s) \in SUBSET Nat
        BY AllocationsType
    <2>3. First(free_bit_map \ Taken(s)) \in free_bit_map \ Taken(s)
        BY <2>1, <2>2, FirstLemma
    <2> QED BY <1>4, <2>1, <2>3 DEF IndirectAfter, get_index
<1>5. ~NeedsIndirect(i, m) => IndirectAfter(i, m, s) = inode_table[i].indirectPointer
    BY DEF IndirectAfter
<1> QED BY <1>1, <1>2, <1>3, <1>4, <1>5 DEF Growing

(* What is known of the blocks of an append.                               *)
LEMMA GrowingBlocks ==
    ASSUME Overrun = {}, TypeOK, OneOwner, NEW i, NEW buf, NEW n, NEW m, NEW s, NEW ind,
           Growing(i, buf, n, m, s, ind)
    PROVE  /\ i \in Inodes /\ n \in Nat /\ m \in Nat \ {0} /\ NDIRECT \in Nat \ {0}
           /\ BLOCK_SIZE \in Nat \ {0}
           /\ n + m <= NDIRECT + BLOCK_SIZE
           /\ free_bit_map \subseteq DataBlocks /\ 0 \notin DataBlocks
           /\ DOMAIN s = 0 .. m - 1 /\ Taken(s) \subseteq free_bit_map
           /\ \A j \in 0 .. m - 1 : s[j] \in Taken(s) /\ s[j] \in DataBlocks
           /\ \A b \in Taken(s) : \E j \in 0 .. m - 1 : b = s[j]
           /\ \A j, k \in 0 .. m - 1 : s[j] = s[k] => j = k
           /\ ind \notin Taken(s)
           /\ n > NDIRECT => ind = inode_table[i].indirectPointer /\ ind \notin free_bit_map
           /\ n + m > NDIRECT => ind \in DataBlocks
           /\ ~ (n + m > NDIRECT) => ind = 0
<1>1. /\ i \in Inodes /\ n \in Nat /\ m \in Nat \ {0} /\ NDIRECT \in Nat \ {0}
      /\ BLOCK_SIZE \in Nat \ {0}
      /\ n + m <= NDIRECT + BLOCK_SIZE /\ s \in [0 .. m - 1 -> free_bit_map]
      /\ \A j, k \in 0 .. m - 1 : s[j] = s[k] => j = k
    BY SizeAssumption DEF Growing, Whole
<1>2. free_bit_map \subseteq DataBlocks /\ 0 \notin DataBlocks
    BY SizeAssumption DEF TypeOK, DataBlocks
<1>3. /\ DOMAIN s = 0 .. m - 1 /\ Taken(s) \subseteq free_bit_map
      /\ \A j \in 0 .. m - 1 : s[j] \in Taken(s)
      /\ \A b \in Taken(s) : \E j \in 0 .. m - 1 : b = s[j]
    BY <1>1 DEF Taken
<1>4. inode_table[i].indirectPointer \notin free_bit_map
    <2>1. <<i, NDIRECT>> \in PointerAt
        BY <1>1 DEF PointerAt
    <2>2. Pointer(<<i, NDIRECT>>) = inode_table[i].indirectPointer
        BY DEF Pointer
    <2> QED BY <1>2, <2>1, <2>2 DEF OneOwner
<1>5. CASE n > NDIRECT
    <2>1. ind = inode_table[i].indirectPointer /\ ind \in DataBlocks /\ n + m > NDIRECT
        BY <1>1, <1>5 DEF Growing, Whole
    <2> QED BY <1>1, <1>2, <1>3, <1>4, <1>5, <2>1
<1>6. CASE ~ (n > NDIRECT) /\ n + m > NDIRECT
    <2>1. ind \in free_bit_map \ Taken(s)
        BY <1>1, <1>6 DEF Growing
    <2> QED BY <1>1, <1>2, <1>3, <1>6, <2>1
<1>7. CASE ~ (n > NDIRECT) /\ ~ (n + m > NDIRECT)
    <2>1. ind = 0
        BY <1>1, <1>7 DEF Growing, Whole
    <2> QED BY <1>1, <1>2, <1>3, <1>7, <2>1
<1> QED BY <1>5, <1>6, <1>7

LEMMA AppendTable ==
    ASSUME Overrun = {}, TypeOK, OneOwner, MAX_BLOCK = NUM_BLOCKS,
           NEW i \in Inodes, NEW buf \in Buf, NEW n, Whole(inode_table[i], disk, n), NEW m,
           Counted(i, buf, n, m), NEW s \in Allocations(m), NEW blk,
           sfs_fwrite_using(i, buf, s, blk), NEW ind, ind = IndirectAfter(i, m, s)
    PROVE  /\ GrownInode(i, n, m, s, ind)
           /\ fd_table' = [fd_table EXCEPT ![i] = (n + m) * BLOCK_SIZE]
           /\ Reply(Len(buf), <<>>)
           /\ UNCHANGED <<rootDir, MAX_BLOCK>>
           /\ disk' = write_helper(WithPointers(i, m, ind, s), buf, blk, n * BLOCK_SIZE)
<1> DEFINE e == fd_table[i] + Len(buf)
           ino == inode_table[i]
<1>1. Growing(i, buf, n, m, s, ind)
    BY AppendChoice
<1>2. /\ n \in Nat /\ m \in Nat \ {0} /\ NDIRECT \in Nat \ {0}
      /\ BLOCK_SIZE \in Nat \ {0} /\ DOMAIN s = 0 .. m - 1
      /\ n > NDIRECT => ind = inode_table[i].indirectPointer /\ ind \notin free_bit_map
      /\ ~ (n + m > NDIRECT) => ind = 0
      /\ free_bit_map \subseteq DataBlocks /\ 0 \notin DataBlocks
    BY <1>1, GrowingBlocks
<1>3. /\ fd_table[i] = n * BLOCK_SIZE /\ e = (n + m) * BLOCK_SIZE /\ numNewBlocks(i, e) = m
      /\ NeedsIndirect(i, m) <=> n <= NDIRECT /\ n + m > NDIRECT
    BY DEF Counted
<1>4. numBlocks(i) = n /\ (HasIndirect(i) <=> n > NDIRECT)
    BY WholeInUse
<1> HIDE DEF e
<1>5. /\ free_bit_map' = (free_bit_map \ Taken(s))
                              \ (IF NeedsIndirect(i, m) THEN {ind} ELSE {})
      /\ disk' = write_helper(WithPointers(i, m, ind, s), buf, blk, n * BLOCK_SIZE)
      /\ inode_table' = [inode_table EXCEPT
            ![i] = [ino EXCEPT !.size = IF e > ino.size THEN e ELSE ino.size,
                               !.data_ptrs = DirectPtrs(i, s), !.indirectPointer = ind]]
      /\ fd_table' = [fd_table EXCEPT ![i] = e]
      /\ Reply(Len(buf), <<>>) /\ UNCHANGED <<rootDir, MAX_BLOCK>>
    BY <1>3 DEF sfs_fwrite_using, e, TypeOK, inode_t
<1>6. ino \in inode_t /\ ino.size = n * BLOCK_SIZE
    BY DEF Whole
<1>7. (IF e > ino.size THEN e ELSE ino.size) = (n + m) * BLOCK_SIZE
    <2>1. n * BLOCK_SIZE + BLOCK_SIZE <= (n + m) * BLOCK_SIZE
        <3>1. n \in Int /\ n + m \in Int /\ n < n + m
            BY <1>2
        <3> QED BY <3>1, WholeTimes
    <2>2. n * BLOCK_SIZE \in Int /\ (n + m) * BLOCK_SIZE \in Int
        BY <1>2
    <2> QED BY <1>2, <1>3, <1>6, <2>1, <2>2
<1>8. /\ \A j \in Inodes \ {i} : inode_table'[j] = inode_table[j]
      /\ inode_table'[i].mode = ino.mode
      /\ inode_table'[i].size = (n + m) * BLOCK_SIZE
      /\ inode_table'[i].indirectPointer = ind
      /\ inode_table'[i].data_ptrs = DirectPtrs(i, s)
    <2>1. inode_table \in [Inodes -> inode_t]
        BY DEF TypeOK
    <2> QED BY <1>5, <1>6, <1>7, <2>1 DEF inode_t
<1>9. ASSUME NEW k \in 0 .. NDIRECT - 1
      PROVE  DirectPtrs(i, s)[k] = IF n <= k /\ k < n + m THEN s[k - n] ELSE ino.data_ptrs[k]
    <2>1. k - n \in DOMAIN s <=> n <= k /\ k < n + m
        BY <1>2
    <2>2. n <= k => ~ (n > NDIRECT)
        BY <1>2
    <2>3. DirectPtrs(i, s)[k] =
              IF ~HasIndirect(i) /\ k - n \in DOMAIN s THEN s[k - n] ELSE ino.data_ptrs[k]
        BY <1>4 DEF DirectPtrs
    <2> QED BY <1>4, <2>1, <2>2, <2>3
<1>10. free_bit_map' = (free_bit_map \ Taken(s)) \ {ind}
    <2>1. CASE NeedsIndirect(i, m)
        BY <1>5, <2>1
    <2>2. CASE ~NeedsIndirect(i, m)
        <3>1. ind \notin free_bit_map
            BY <1>2, <1>3, <2>2
        <3> QED BY <1>5, <2>2, <3>1
    <2> QED BY <2>1, <2>2
<1>11. GrownInode(i, n, m, s, ind)
    BY <1>8, <1>9, <1>10 DEF GrownInode
<1> QED BY <1>3, <1>5, <1>11

LEMMA AppendDisk ==
    ASSUME Overrun = {}, TypeOK, TypeOK', OneOwner, MAX_BLOCK = NUM_BLOCKS,
           NEW i \in Inodes, NEW buf \in Buf, NEW n, Whole(inode_table[i], disk, n), NEW m,
           Counted(i, buf, n, m), NEW s \in Allocations(m), NEW blk,
           \A q \in n .. n + m - 1 : blk[q] = s[q - n],
           NEW ind, ind = IndirectAfter(i, m, s),
           disk' = write_helper(WithPointers(i, m, ind, s), buf, blk, n * BLOCK_SIZE)
    PROVE  GrownDisk(buf, n, m, s, ind)
<1> DEFINE d == WithPointers(i, m, ind, s)
<1>1. Growing(i, buf, n, m, s, ind)
    BY AppendChoice
<1>2. /\ n \in Nat /\ m \in Nat \ {0} /\ NDIRECT \in Nat \ {0}
      /\ BLOCK_SIZE \in Nat \ {0} /\ n + m <= NDIRECT + BLOCK_SIZE
      /\ DOMAIN s = 0 .. m - 1
      /\ \A j \in 0 .. m - 1 : s[j] \in DataBlocks
      /\ \A j, k \in 0 .. m - 1 : s[j] = s[k] => j = k
      /\ ind \notin Taken(s) /\ (n + m > NDIRECT => ind \in DataBlocks)
    BY <1>1, GrowingBlocks
<1>3. Reachable = DataBlocks
    BY AllReachable
<1>4. /\ \A b \in DataBlocks \ Taken(s), o \in Offsets : disk'[b][o] = d[b][o]
      /\ \A j \in 0 .. m - 1, o \in Offsets : disk'[s[j]][o] = buf[(j * BLOCK_SIZE + o) + 1]
    <2>1. NewBlocks(buf, n, m, s, blk)
        BY <1>2 DEF NewBlocks, Counted
    <2>2. disk' = write_helper(d, buf, blk, n * BLOCK_SIZE)
        OBVIOUS
    <2> HIDE DEF d
    <2>3. Stored(write_helper(d, buf, blk, n * BLOCK_SIZE), d, buf, m, s)
        BY <1>2, <1>3, <2>1, NewBlocksWords
    <2> QED BY <2>2, <2>3 DEF Stored
<1>5. /\ disk \in [DataBlocks -> [Offsets -> Word]] /\ disk' \in [DataBlocks -> [Offsets -> Word]]
      /\ d \in [DataBlocks -> [Offsets -> Word]]
    <2>1. d \in [DataBlocks -> [Offsets -> Word]]
        BY WithPointersType
    <2> QED BY <2>1 DEF TypeOK, DataBlocks, Offsets, Word
<1>6. \A b \in DataBlocks : b # ind => d[b] = disk[b]
    BY <1>5 DEF WithPointers
<1>7. ASSUME NEW b \in DataBlocks \ Taken(s) PROVE disk'[b] = d[b]
    <2> HIDE DEF d
    <2> QED BY <1>4, <1>5
<1>8. ASSUME NEW q \in NDIRECT .. n + m - 1
      PROVE  disk'[ind][q - NDIRECT] = IF q >= n THEN s[q - n] ELSE disk[ind][q - NDIRECT]
    <2>0. n + m > NDIRECT /\ q \in Nat /\ q >= NDIRECT /\ q < n + m
        BY <1>2
    <2>1. ind \in DataBlocks \ Taken(s) /\ q - NDIRECT \in Offsets
        BY <1>2, <2>0 DEF Offsets
    <2>2. numBlocks(i) = n /\ (HasIndirect(i) <=> n > NDIRECT)
        BY WholeInUse
    <2>3. HasIndirect(i) \/ NeedsIndirect(i, m)
        BY <1>2, <2>0, <2>2 DEF Counted
    <2>4. d[ind] = IndirectWords(i, ind, s)
        BY <1>3, <1>5, <2>1, <2>3 DEF WithPointers, TypeOK
    <2>5. NDIRECT + (q - NDIRECT) - n = q - n
        BY <1>2, <2>0
    <2>6. IndirectWords(i, ind, s)[q - NDIRECT] =
              IF q - n \in DOMAIN s THEN s[q - n]
              ELSE IF HasIndirect(i) THEN disk[ind][q - NDIRECT] ELSE Unspec
        BY <2>1, <2>2, <2>5 DEF IndirectWords
    <2>7. q - n \in DOMAIN s <=> q >= n
        BY <1>2, <2>0
    <2>8. ~ (q >= n) => HasIndirect(i)
        BY <1>2, <2>0, <2>2
    <2>9. disk'[ind] = IndirectWords(i, ind, s)
        BY <1>7, <2>1, <2>4
    <2> QED BY <2>6, <2>7, <2>8, <2>9
<1>9. ASSUME NEW b \in DataBlocks \ Taken(s), b # ind PROVE disk'[b] = disk[b]
    <2> HIDE DEF d
    <2> QED BY <1>6, <1>7, <1>9
<1> QED BY <1>4, <1>8, <1>9 DEF GrownDisk

(* So a write that is done adds its blocks.                                *)
Extended(i, buf, n) ==
    \E m, s, ind : Growing(i, buf, n, m, s, ind) /\ Grown(i, buf, n, m, s, ind)

(* The blocks it takes, and what it finds in blockNums.                    *)
Done(i, buf, s, blk) ==
    LET e == fd_table[i] + Len(buf) IN
    /\ s \in Allocations(numNewBlocks(i, e))
    /\ blk \in blockNums(LoadedForWrite(i, s, fd_table[i], e))
    /\ sfs_fwrite_using(i, buf, s, blk)

LEMMA DoneTakes ==
    ASSUME NEW i, NEW buf, sfs_fwrite_done(i, buf)
    PROVE  \E s, blk : Done(i, buf, s, blk)
<1>1. PICK s \in Allocations(numNewBlocks(i, fd_table[i] + Len(buf))) :
          \E blk \in blockNums(LoadedForWrite(i, s, fd_table[i], fd_table[i] + Len(buf))) :
              sfs_fwrite_using(i, buf, s, blk)
    BY DEF sfs_fwrite_done, LoadedForWrite
<1> QED BY <1>1 DEF Done

LEMMA AppendGrows ==
    ASSUME Overrun = {}, TypeOK, TypeOK', OneOwner, MAX_BLOCK = NUM_BLOCKS,
           NEW i \in Inodes, NEW buf \in Buf, NEW n, Whole(inode_table[i], disk, n),
           Appends(i, buf), ~ (fd_table[i] + Len(buf) > MAX_FILE), sfs_fwrite_done(i, buf)
    PROVE  Extended(i, buf, n)
<1> DEFINE p == fd_table[i]
           e == p + Len(buf)
<1>1. PICK m : Counted(i, buf, n, m)
    BY AppendCounts
<1>2. /\ n \in Nat /\ m \in Nat \ {0} /\ p = n * BLOCK_SIZE
      /\ e = n * BLOCK_SIZE + m * BLOCK_SIZE /\ numNewBlocks(i, e) = m
      /\ numBlocks(i) = n
    <2>1. n \in Nat /\ numBlocks(i) = n
        <3>1. n \in Nat
            BY SizeAssumption DEF Whole
        <3>2. numBlocks(i) = n
            BY WholeInUse
        <3> QED BY <3>1, <3>2
    <2> QED BY <1>1, <2>1 DEF Counted
<1>3. PICK s, blk : Done(i, buf, s, blk)
    BY DoneTakes
<1>4. /\ s \in Allocations(numNewBlocks(i, e)) /\ blk \in blockNums(LoadedForWrite(i, s, p, e))
      /\ sfs_fwrite_using(i, buf, s, blk)
    BY <1>3 DEF Done
<1> DEFINE ind == IndirectAfter(i, m, s)
           load == LoadedForWrite(i, s, p, e)
<1>5. s \in Allocations(m)
    BY <1>2, <1>4
<1>6. Touched(p, e) = n .. n + m - 1
    BY <1>2, TouchedWhole
<1>7. ASSUME NEW q \in n .. n + m - 1
      PROVE  q \in DOMAIN load /\ load[q] = s[q - n] /\ load[q] # Unspec
    <2>1. q \in Touched(p, e) /\ q >= numBlocks(i) /\ q - n \in 0 .. m - 1
        BY <1>2, <1>6
    <2>2. load[q] = s[q - n]
        BY <1>2, <2>1 DEF LoadedForWrite
    <2>3. s[q - n] \in free_bit_map /\ free_bit_map \in SUBSET Nat
        BY <1>5, <2>1, AllocationsType DEF Allocations
    <2>4. s[q - n] # Unspec
        <3> DEFINE b == s[q - n]
        <3>1. b \in Int
            <4>1. b \in Nat
                BY <2>3
            <4> HIDE DEF b
            <4> QED BY <4>1
        <3> HIDE DEF b
        <3>2. b # Unspec
            BY <3>1, NameAssumption
        <3> QED BY <3>2 DEF b
    <2> QED BY <2>1, <2>2, <2>4 DEF LoadedForWrite
<1>8. DOMAIN load = n .. n + m - 1
    BY <1>6 DEF LoadedForWrite
<1>9. \A q \in n .. n + m - 1 : blk[q] = s[q - n]
    <2> HIDE DEF load
    <2>1. \A q \in DOMAIN load : load[q] # Unspec
        BY <1>7, <1>8
    <2>2. blk \in blockNums(load)
        BY <1>4 DEF load
    <2>3. \A q \in DOMAIN load : blk[q] = load[q]
        BY <2>1, <2>2, NoJunk
    <2> QED BY <1>7, <1>8, <2>3
<1>10. intact' = intact
    <2>1. /\ intact' = (intact /\ \A q \in DOMAIN blk :
                          blk[q] \in Metadata \ {0} => MAX_BLOCK <= blk[q])
          /\ intact \in BOOLEAN
        BY <1>4 DEF sfs_fwrite_using, TypeOK
    <2>2. DOMAIN blk = DOMAIN load
        <3> HIDE DEF load
        <3>1. blk \in blockNums(load)
            BY <1>4 DEF load
        <3> QED BY <3>1 DEF blockNums, Filled
    <2>3. ASSUME NEW q \in DOMAIN blk PROVE blk[q] \notin Metadata
        <3>1. q \in n .. n + m - 1
            BY <1>8, <2>2
        <3>2. q - n \in 0 .. m - 1
            BY <1>2, <3>1
        <3>3. s[q - n] \in free_bit_map
            BY <1>5, <3>2 DEF Allocations
        <3>4. blk[q] \in DataBlocks
            BY <1>9, <3>1, <3>3 DEF TypeOK
        <3> QED BY <3>4, SizeAssumption DEF DataBlocks, Metadata
    <2> QED BY <2>1, <2>3
<1> HIDE DEF ind
<1>11. /\ GrownInode(i, n, m, s, ind)
       /\ fd_table' = [fd_table EXCEPT ![i] = (n + m) * BLOCK_SIZE]
       /\ Reply(Len(buf), <<>>)
       /\ UNCHANGED <<rootDir, MAX_BLOCK>>
       /\ disk' = write_helper(WithPointers(i, m, ind, s), buf, blk, n * BLOCK_SIZE)
    BY <1>1, <1>4, <1>5, AppendTable DEF ind
<1>12. GrownDisk(buf, n, m, s, ind)
    BY <1>1, <1>5, <1>9, <1>11, AppendDisk DEF ind
<1>13. Growing(i, buf, n, m, s, ind)
    BY <1>1, <1>5, AppendChoice DEF ind
<1> QED BY <1>10, <1>11, <1>12, <1>13 DEF Extended, Grown

-----------------------------------------------------------------------------
(* The blocks behind an append: the old ones where they were, then the     *)
(* new ones.                                                               *)

LEMMA GrownBlocks ==
    ASSUME Overrun = {}, TypeOK, OneOwner, NEW i, NEW buf, NEW n, NEW m, NEW s, NEW ind,
           Growing(i, buf, n, m, s, ind), Grown(i, buf, n, m, s, ind),
           NEW q \in 0 .. n + m - 1
    PROVE  BlockAt(inode_table'[i], disk', q)
              = IF q < n THEN BlockAt(inode_table[i], disk, q) ELSE s[q - n]
<1>1. /\ i \in Inodes /\ n \in Nat /\ m \in Nat \ {0} /\ NDIRECT \in Nat \ {0}
      /\ n > NDIRECT => ind = inode_table[i].indirectPointer
    BY GrowingBlocks
<1>2. CASE q < NDIRECT
    <2>1. q \in 0 .. NDIRECT - 1
        BY <1>1, <1>2
    <2>2. inode_table'[i].data_ptrs[q] =
              IF n <= q /\ q < n + m THEN s[q - n] ELSE inode_table[i].data_ptrs[q]
        BY <2>1 DEF Grown, GrownInode
    <2>3. q < n + m /\ (n <= q <=> ~ (q < n))
        BY <1>1
    <2> QED BY <1>2, <2>2, <2>3 DEF BlockAt
<1>3. CASE ~ (q < NDIRECT)
    <2>1. q \in NDIRECT .. n + m - 1 /\ (q >= n <=> ~ (q < n)) /\ (q < n => n > NDIRECT)
        BY <1>1, <1>3
    <2>2. disk'[ind][q - NDIRECT] = IF q >= n THEN s[q - n] ELSE disk[ind][q - NDIRECT]
        BY <2>1 DEF Grown, GrownDisk
    <2>3. inode_table'[i].indirectPointer = ind
        BY DEF Grown, GrownInode
    <2> QED BY <1>1, <1>3, <2>1, <2>2, <2>3 DEF BlockAt
<1> QED BY <1>2, <1>3

(* An indirect block of another file is not touched.                       *)
LEMMA OthersKeepTheirs ==
    ASSUME Overrun = {}, TypeOK, OneOwner, NEW i, NEW buf, NEW n, NEW m, NEW s, NEW ind,
           Growing(i, buf, n, m, s, ind), Grown(i, buf, n, m, s, ind),
           NEW j \in Inodes \ {i}, NEW l, Whole(inode_table[j], disk, l)
    PROVE  /\ inode_table'[j] = inode_table[j]
           /\ \A q \in 0 .. l - 1 :
                 BlockAt(inode_table'[j], disk', q) = BlockAt(inode_table[j], disk, q)
           /\ inode_table[j].indirectPointer # ind \/ inode_table[j].indirectPointer = 0
           /\ inode_table[j].indirectPointer \notin Taken(s)
<1> DEFINE p == inode_table[j].indirectPointer
<1>1. /\ i \in Inodes /\ n \in Nat /\ m \in Nat \ {0} /\ NDIRECT \in Nat \ {0}
      /\ free_bit_map \subseteq DataBlocks /\ 0 \notin DataBlocks
      /\ Taken(s) \subseteq free_bit_map
      /\ n > NDIRECT => ind = inode_table[i].indirectPointer
      /\ ~ (n + m > NDIRECT) => ind = 0
    BY GrowingBlocks
<1>2. inode_table'[j] = inode_table[j]
    BY DEF Grown, GrownInode
<1>3. p = 0 \/ (p \notin free_bit_map /\ p # inode_table[i].indirectPointer)
    <2>1. /\ <<j, NDIRECT>> \in PointerAt /\ <<i, NDIRECT>> \in PointerAt
          /\ <<i, NDIRECT>> # <<j, NDIRECT>>
        BY <1>1 DEF PointerAt
    <2>2. Pointer(<<j, NDIRECT>>) = p
             /\ Pointer(<<i, NDIRECT>>) = inode_table[i].indirectPointer
        BY DEF Pointer
    <2> QED BY <2>1, <2>2 DEF OneOwner
<1>4. p \notin Taken(s)
    BY <1>1, <1>3
<1>5. p # ind \/ p = 0
    <2>1. CASE n <= NDIRECT /\ n + m > NDIRECT
        <3>1. ind \in free_bit_map
            BY <2>1 DEF Growing
        <3> QED BY <1>3, <3>1
    <2>2. CASE ~ (n <= NDIRECT /\ n + m > NDIRECT)
        <3>1. ind = inode_table[i].indirectPointer
            BY <2>2 DEF Growing
        <3> QED BY <1>3, <3>1
    <2> QED BY <2>1, <2>2
<1>6. ASSUME NEW q \in 0 .. l - 1
      PROVE  BlockAt(inode_table'[j], disk', q) = BlockAt(inode_table[j], disk, q)
    <2>1. CASE q < NDIRECT
        BY <1>2, <2>1 DEF BlockAt
    <2>2. CASE ~ (q < NDIRECT)
        <3>1. l > NDIRECT
            BY <1>1, <2>2 DEF Whole
        <3>2. p \in DataBlocks
            BY <3>1 DEF Whole
        <3>3. disk'[p] = disk[p]
            BY <1>1, <1>4, <1>5, <3>2 DEF Grown, GrownDisk
        <3> QED BY <1>2, <2>2, <3>3 DEF BlockAt
    <2> QED BY <2>1, <2>2
<1> QED BY <1>2, <1>4, <1>5, <1>6

(* A block of a file behind an append is one of before, or new.            *)
OldBlock(N, x, q) ==
    /\ q \in 0 .. N[x] - 1
    /\ BlockAt(inode_table'[x], disk', q) = BlockAt(inode_table[x], disk, q)

NewBlock(N, i, m, s, x, q) ==
    /\ x = i /\ q - N[i] \in 0 .. m - 1
    /\ BlockAt(inode_table'[x], disk', q) = s[q - N[i]]

After(N, i, m) == [N EXCEPT ![i] = N[i] + m]

LEMMA OldOrNew ==
    ASSUME Overrun = {}, TypeOK, OneOwner, NEW N,
           Laid(inode_table, disk, free_bit_map, N), NEW i, NEW buf, NEW m, NEW s, NEW ind,
           Growing(i, buf, N[i], m, s, ind), Grown(i, buf, N[i], m, s, ind),
           NEW x \in Inodes, NEW q \in 0 .. After(N, i, m)[x] - 1
    PROVE  OldBlock(N, x, q) \/ NewBlock(N, i, m, s, x, q)
<1>1. i \in Inodes /\ m \in Nat \ {0} /\ N \in [Inodes -> Nat]
    BY GrowingBlocks DEF Laid
<1>2. CASE x = i
    <2>1. q \in 0 .. N[i] + m - 1
        BY <1>1, <1>2 DEF After
    <2>2. BlockAt(inode_table'[i], disk', q)
              = IF q < N[i] THEN BlockAt(inode_table[i], disk, q) ELSE s[q - N[i]]
        BY <2>1, GrownBlocks
    <2>3. q < N[i] => q \in 0 .. N[i] - 1
        BY <1>1, <2>1
    <2>4. ~ (q < N[i]) => q - N[i] \in 0 .. m - 1
        BY <1>1, <2>1
    <2> QED BY <1>2, <2>2, <2>3, <2>4 DEF OldBlock, NewBlock
<1>3. CASE x # i
    <2>1. q \in 0 .. N[x] - 1
        BY <1>1, <1>3 DEF After
    <2>2. Whole(inode_table[x], disk, N[x]) /\ x \in Inodes \ {i}
        BY <1>3 DEF Laid
    <2>3. BlockAt(inode_table'[x], disk', q) = BlockAt(inode_table[x], disk, q)
        BY <2>1, <2>2, OthersKeepTheirs
    <2> QED BY <2>1, <2>3 DEF OldBlock
<1> QED BY <1>2, <1>3

LEMMA GrownWhole ==
    ASSUME Overrun = {}, TypeOK, TypeOK', OneOwner, NEW N,
           Laid(inode_table, disk, free_bit_map, N), NEW i, NEW buf, NEW m, NEW s, NEW ind,
           Growing(i, buf, N[i], m, s, ind), Grown(i, buf, N[i], m, s, ind), NEW x \in Inodes
    PROVE  Whole(inode_table'[x], disk', After(N, i, m)[x])
<1> DEFINE n == N[i]
           M == After(N, i, m)
<1>1. /\ i \in Inodes /\ n \in Nat /\ m \in Nat \ {0} /\ N \in [Inodes -> Nat]
      /\ NDIRECT \in Nat \ {0} /\ BLOCK_SIZE \in Nat \ {0} /\ n + m <= NDIRECT + BLOCK_SIZE
      /\ n + m > NDIRECT => ind \in DataBlocks
      /\ ~ (n + m > NDIRECT) => ind = 0
    BY GrowingBlocks DEF Laid
<1>2. inode_table'[x] \in inode_t
    BY DEF TypeOK
<1>3. \A y \in Inodes : Whole(inode_table[y], disk, N[y])
    BY DEF Laid
<1>4. ASSUME NEW q \in 0 .. M[x] - 1 PROVE BlockAt(inode_table'[x], disk', q) \in DataBlocks
    <2>1. CASE OldBlock(N, x, q)
        BY <1>3, <2>1 DEF OldBlock, Whole
    <2>2. CASE NewBlock(N, i, m, s, x, q)
        <3>1. \A j \in 0 .. m - 1 : s[j] \in DataBlocks
            BY GrowingBlocks
        <3> QED BY <2>2, <3>1 DEF NewBlock
    <2> QED BY <2>1, <2>2, OldOrNew
<1>5. CASE x = i
    <2>1. M[x] = n + m
        BY <1>1, <1>5 DEF After
    <2>2. /\ inode_table'[x].size = (n + m) * BLOCK_SIZE
          /\ inode_table'[x].indirectPointer = ind
          /\ \A k \in 0 .. NDIRECT - 1 :
                inode_table'[x].data_ptrs[k] =
                    IF n <= k /\ k < n + m THEN s[k - n] ELSE inode_table[x].data_ptrs[k]
        BY <1>5 DEF Grown, GrownInode
    <2>3. ASSUME NEW k \in 0 .. NDIRECT - 1, k >= n + m PROVE inode_table'[x].data_ptrs[k] = 0
        <3>1. k >= n /\ ~ (k < n + m)
            BY <1>1, <2>3
        <3>2. inode_table[x].data_ptrs[k] = 0
            BY <1>3, <1>5, <3>1 DEF Whole
        <3> QED BY <2>2, <3>1, <3>2
    <2>4. n + m \in 0 .. NDIRECT + BLOCK_SIZE
        BY <1>1
    <2> HIDE DEF M, n
    <2>5. Whole(inode_table'[x], disk', n + m)
        BY <1>1, <1>2, <1>4, <2>1, <2>2, <2>3, <2>4 DEF Whole
    <2> QED BY <2>1, <2>5 DEF M
<1>6. CASE x # i
    <2>1. M[x] = N[x] /\ x \in Inodes \ {i}
        BY <1>1, <1>6 DEF After
    <2>2. inode_table'[x] = inode_table[x]
        BY <2>1 DEF Grown, GrownInode
    <2> HIDE DEF M
    <2>3. Whole(inode_table'[x], disk', N[x])
        BY <1>3, <1>4, <2>1, <2>2 DEF Whole
    <2> QED BY <2>1, <2>3 DEF M
<1> QED BY <1>5, <1>6

(* Behind an append the blocks are apart as before.                        *)
LEMMA GrownApart ==
    ASSUME Overrun = {}, TypeOK, OneOwner, NEW N,
           Laid(inode_table, disk, free_bit_map, N), NEW i, NEW buf, NEW m, NEW s, NEW ind,
           Growing(i, buf, N[i], m, s, ind), Grown(i, buf, N[i], m, s, ind),
           NEW x \in Inodes, NEW q \in 0 .. After(N, i, m)[x] - 1, NEW y \in Inodes
    PROVE  Apart(inode_table', disk', free_bit_map', After(N, i, m), x, q, y)
<1> DEFINE n == N[i]
           b == BlockAt(inode_table'[x], disk', q)
<1>1. /\ i \in Inodes /\ n \in Nat /\ m \in Nat \ {0} /\ NDIRECT \in Nat \ {0}
      /\ free_bit_map \subseteq DataBlocks /\ 0 \notin DataBlocks
      /\ DOMAIN s = 0 .. m - 1 /\ Taken(s) \subseteq free_bit_map
      /\ \A j \in 0 .. m - 1 : s[j] \in Taken(s) /\ s[j] \in DataBlocks
      /\ \A j, k \in 0 .. m - 1 : s[j] = s[k] => j = k
      /\ ind \notin Taken(s)
    BY GrowingBlocks
<1>2. free_bit_map' = (free_bit_map \ Taken(s)) \ {ind}
    BY DEF Grown, GrownInode
<1>3. \A z \in Inodes : Whole(inode_table[z], disk, N[z])
    BY DEF Laid
<1>4. ind \in free_bit_map \/ ind = inode_table[i].indirectPointer
    BY DEF Growing
<1>5. inode_table'[y].indirectPointer = IF y = i THEN ind ELSE inode_table[y].indirectPointer
    BY DEF Grown, GrownInode
<1>6. y # i => inode_table[y].indirectPointer \notin Taken(s)
    <2>1. y # i => y \in Inodes \ {i} /\ Whole(inode_table[y], disk, N[y])
        BY <1>3
    <2> QED BY <2>1, OthersKeepTheirs
<1>7. CASE OldBlock(N, x, q)
    <2>1. /\ q \in 0 .. N[x] - 1 /\ b = BlockAt(inode_table[x], disk, q)
          /\ b \in DataBlocks /\ b \notin free_bit_map
          /\ \A z \in Inodes : b # inode_table[z].indirectPointer
        BY <1>3, <1>7 DEF OldBlock, Laid, Whole, Apart
    <2> HIDE DEF b
    <2>2. b \notin free_bit_map' /\ b # inode_table'[y].indirectPointer
        BY <1>1, <1>2, <1>4, <1>5, <2>1
    <2>3. ASSUME NEW r \in 0 .. After(N, i, m)[y] - 1, b = BlockAt(inode_table'[y], disk', r)
          PROVE  x = y /\ q = r
        <3>1. CASE OldBlock(N, y, r)
            BY <2>1, <2>3, <3>1 DEF OldBlock, Laid, Apart
        <3>2. CASE NewBlock(N, i, m, s, y, r)
            <4>1. b \in Taken(s)
                BY <1>1, <2>3, <3>2 DEF NewBlock
            <4> QED BY <1>1, <2>1, <4>1
        <3> QED BY <3>1, <3>2, OldOrNew
    <2> QED BY <2>2, <2>3 DEF b, Apart
<1>8. CASE NewBlock(N, i, m, s, x, q)
    <2>1. /\ x = i /\ q - n \in 0 .. m - 1 /\ b = s[q - n]
          /\ b \in Taken(s) /\ b \in DataBlocks
        BY <1>1, <1>8 DEF NewBlock
    <2> HIDE DEF b
    <2>2. b \notin free_bit_map'
        BY <1>2, <2>1
    <2>3. b # inode_table'[y].indirectPointer
        BY <1>1, <1>5, <1>6, <2>1
    <2>4. ASSUME NEW r \in 0 .. After(N, i, m)[y] - 1, b = BlockAt(inode_table'[y], disk', r)
          PROVE  x = y /\ q = r
        <3>1. CASE OldBlock(N, y, r)
            <4>1. b \notin free_bit_map
                BY <2>4, <3>1 DEF OldBlock, Laid, Apart
            <4> QED BY <1>1, <2>1, <4>1
        <3>2. CASE NewBlock(N, i, m, s, y, r)
            <4>1. y = i /\ r - n \in 0 .. m - 1 /\ s[r - n] = s[q - n]
                BY <2>1, <2>4, <3>2 DEF NewBlock
            <4>2. r - n = q - n
                BY <1>1, <2>1, <4>1
            <4>3. r \in Int /\ q \in Int
                BY <2>4
            <4> QED BY <1>1, <2>1, <4>1, <4>2, <4>3
        <3> QED BY <3>1, <3>2, OldOrNew
    <2> QED BY <2>2, <2>3, <2>4 DEF b, Apart
<1> QED BY <1>7, <1>8, OldOrNew

LEMMA GrownLaid ==
    ASSUME Overrun = {}, TypeOK, TypeOK', OneOwner, NEW N,
           Laid(inode_table, disk, free_bit_map, N), NEW i, NEW buf, NEW m, NEW s, NEW ind,
           Growing(i, buf, N[i], m, s, ind), Grown(i, buf, N[i], m, s, ind)
    PROVE  Laid(inode_table', disk', free_bit_map', After(N, i, m))
<1>1. i \in Inodes /\ m \in Nat \ {0} /\ N \in [Inodes -> Nat]
    BY GrowingBlocks DEF Laid
<1>2. After(N, i, m) \in [Inodes -> Nat]
    BY <1>1 DEF After
<1>3. \A x \in Inodes : Whole(inode_table'[x], disk', After(N, i, m)[x])
    BY GrownWhole
<1> QED BY <1>2, <1>3, GrownApart DEF Laid

-----------------------------------------------------------------------------
(* Calls that leave the blocks of every file alone.                        *)

Settled == (\A j \in Inodes : SameBlocks(j)) /\ UNCHANGED <<free_bit_map, up, intact>>

LEMMA SameLaid ==
    ASSUME TypeOK', NEW N, Laid(inode_table, disk, free_bit_map, N),
           \A j \in Inodes : SameBlocks(j), free_bit_map' \subseteq free_bit_map
    PROVE  Laid(inode_table', disk', free_bit_map', N)
<1>1. ASSUME NEW j \in Inodes, NEW q
      PROVE  BlockAt(inode_table'[j], disk', q) = BlockAt(inode_table[j], disk, q)
    BY DEF SameBlocks, BlockAt
<1>2. ASSUME NEW j \in Inodes PROVE Whole(inode_table'[j], disk', N[j])
    <2>1. inode_table'[j] \in inode_t
        BY DEF TypeOK
    <2>2. Whole(inode_table[j], disk, N[j]) /\ SameBlocks(j)
        BY DEF Laid
    <2> QED BY <1>1, <2>1, <2>2 DEF Whole, SameBlocks
<1>3. ASSUME NEW i \in Inodes, NEW j \in Inodes, NEW q \in 0 .. N[i] - 1
      PROVE  Apart(inode_table', disk', free_bit_map', N, i, q, j)
    <2>1. Apart(inode_table, disk, free_bit_map, N, i, q, j) /\ SameBlocks(j)
        BY DEF Laid
    <2> QED BY <1>1, <2>1 DEF Apart, SameBlocks
<1> QED BY <1>2, <1>3 DEF Laid

(* An inode without a name has no blocks, so no words.                     *)
LEMMA UnnamedIsEmpty ==
    ASSUME AppendInv, NEW s \in Inodes, rootDir[s].name = NoName
    PROVE  inode_table[s].size = 0
<1>1. PICK N : Laid(inode_table, disk, free_bit_map, N)
    BY DEF AppendInv
<1>2. Whole(inode_table[s], disk, N[s]) /\ N[s] \in Nat
    BY <1>1 DEF Laid
<1>3. 0 \in 0 .. NDIRECT - 1 /\ 0 \in 0 .. NDIRECT /\ 0 < NDIRECT /\ 0 # NDIRECT
          /\ 0 \notin DataBlocks /\ BLOCK_SIZE \in Nat
    BY SizeAssumption DEF DataBlocks
<1>4. N[s] = 0
    <2>1. SUFFICES ASSUME N[s] # 0 PROVE FALSE
        OBVIOUS
    <2>2. 0 \in 0 .. N[s] - 1
        BY <1>2, <2>1
    <2>3. inode_table[s].data_ptrs[0] \in DataBlocks
        BY <1>2, <1>3, <2>2 DEF Whole, BlockAt
    <2>4. Pointer(<<s, 0>>) # 0
        BY <1>3, <2>3 DEF Pointer
    <2>5. PICK t \in Inodes : rootDir[t].num = s /\ rootDir[t].name # NoName
        BY <1>3, <2>4 DEF AppendInv, Named
    <2> QED BY <2>5 DEF AppendInv, DirInv
<1> QED BY <1>2, <1>3, <1>4 DEF Whole

LEMMA OpenSettles ==
    ASSUME AppendInv, NEW n \in AnyName, sfs_fopen(n)
    PROVE  Settled
<1>1. UNCHANGED <<blocks, up>>
    <2>1. \A s \in Inodes : rootDir[s].num \in Inodes
        BY DEF AppendInv, DirInv
    <2>2. UNCHANGED up
        BY <2>1, OpenKeeps
    <2> QED BY <2>2 DEF sfs_fopen, Refuse, OpenOld, OpenNew
<1>2. inode_table \in [Inodes -> inode_t]
    BY DEF AppendInv, TypeOK
<1>3. \/ UNCHANGED <<inode_table, rootDir>>
      \/ \E s, i \in Inodes : OldFile(n, s, i) \/ NewFile(n, s, i)
    BY OpenKeeps
<1>4. CASE UNCHANGED <<inode_table, rootDir>>
    BY <1>1, <1>4 DEF Settled, SameBlocks, blocks
<1>5. ASSUME NEW s \in Inodes, NEW i \in Inodes, OldFile(n, s, i)
      PROVE  Settled
    BY <1>1, <1>2, <1>5 DEF Settled, SameBlocks, blocks, OldFile, inode_t
<1>6. ASSUME NEW s \in Inodes, NEW i \in Inodes, NewFile(n, s, i)
      PROVE  Settled
    <2>1. i = s
        BY <1>6 DEF NewFile, AppendInv, DirInv
    <2>2. inode_table[i].size = 0
        BY <1>6, <2>1, UnnamedIsEmpty DEF NewFile
    <2> QED BY <1>1, <1>2, <1>6, <2>2 DEF Settled, SameBlocks, blocks, NewFile, inode_t
<1> QED BY <1>3, <1>4, <1>5, <1>6

LEMMA CloseSettles ==
    ASSUME AppendInv, NEW i \in Inodes, sfs_fclose(i)
    PROVE  Settled
<1>1. inode_table \in [Inodes -> inode_t]
    BY DEF AppendInv, TypeOK
<1>2. CASE Refuse /\ UNCHANGED up
    BY <1>2 DEF Refuse, tables, blocks, Settled, SameBlocks
<1>3. CASE /\ inode_table' = [inode_table EXCEPT ![i].mode = Closed]
           /\ UNCHANGED <<blocks, up>>
    BY <1>1, <1>3 DEF blocks, Settled, SameBlocks, inode_t
<1> QED BY <1>2, <1>3 DEF sfs_fclose

LEMMA ReadSettles ==
    ASSUME AppendInv, NEW i \in Inodes, NEW length \in ReadLen, sfs_fread(i, length)
    PROVE  Settled /\ ~WrapsAround(i)
<1>1. PICK N : Laid(inode_table, disk, free_bit_map, N)
    BY DEF AppendInv
<1>2. Whole(inode_table[i], disk, N[i]) /\ MAX_BLOCK = NUM_BLOCKS
    BY <1>1 DEF Laid, AppendInv
<1>3. ~WrapsAround(i)
    BY <1>2, WholeInUse
<1>4. UNCHANGED <<inode_table, blocks, up>>
    BY <1>3 DEF sfs_fread, Refuse, tables
<1> QED BY <1>3, <1>4 DEF blocks, Settled, SameBlocks

(* A write of whole blocks at the end of a file.                           *)
Appended(i, buf) ==
    /\ inode_table[i].mode # Closed /\ ~ (fd_table[i] + Len(buf) > MAX_FILE)
    /\ sfs_fwrite_done(i, buf) /\ UNCHANGED up

FullFor(i, buf) == sfs_fwrite_full(i, fd_table[i] + Len(buf)) /\ UNCHANGED up

LEMMA AppendCases ==
    ASSUME AppendInv, NEW i \in Inodes, NEW buf \in Buf, sfs_fwrite(i, buf)
    PROVE  \/ Refuse /\ UNCHANGED up
           \/ FullFor(i, buf)
           \/ Appended(i, buf)
<1>1. PICK N : Laid(inode_table, disk, free_bit_map, N)
    BY DEF AppendInv
<1>2. Whole(inode_table[i], disk, N[i]) /\ MAX_BLOCK = NUM_BLOCKS
    BY <1>1 DEF Laid, AppendInv
<1>3. ~WrapsAround(i)
    BY <1>2, WholeInUse
<1> QED BY <1>3 DEF sfs_fwrite, FullFor, Appended

(* What a step does to the blocks of the files.                            *)
LEMMA AppendSteps ==
    ASSUME AppendInv, [AppendNext]_vars
    PROVE  \/ mksfs_fresh \/ mksfs_old \/ Settled
           \/ \E i \in Inodes, buf \in Buf :
                 FullFor(i, buf) \/ (Appends(i, buf) /\ Appended(i, buf))
<1>1. CASE UNCHANGED vars
    BY <1>1 DEF vars, tables, blocks, Settled, SameBlocks
<1>2. ASSUME NEW n \in AnyName, sfs_fopen(n) PROVE Settled
    BY <1>2, OpenSettles
<1>3. ASSUME NEW n \in Name, sfs_getfilesize(n) \/ sfs_remove(n) PROVE Settled
    <2>1. SlotsNamed(n) # {} => rootDir[First(SlotsNamed(n))].num \in Inodes
        BY FoundSlot DEF AppendInv, DirInv, SlotsNamed
    <2>2. UNCHANGED <<tables, blocks, up>>
        BY <1>3, <2>1 DEF sfs_getfilesize, sfs_remove
    <2> QED BY <2>2 DEF tables, blocks, Settled, SameBlocks
<1>4. ASSUME NEW i \in Inodes, sfs_fclose(i) PROVE Settled
    BY <1>4, CloseSettles
<1>5. ASSUME NEW i \in Inodes, NEW length \in ReadLen, sfs_fread(i, length) PROVE Settled
    BY <1>5, ReadSettles
<1>6. ASSUME NEW i \in Inodes, NEW loc \in SeekTo, sfs_fseek(i, loc) PROVE Settled
    BY <1>6 DEF sfs_fseek, blocks, Settled, SameBlocks
<1>7. CASE sfs_getnextfilename
    BY <1>7 DEF sfs_getnextfilename, blocks, Settled, SameBlocks
<1>8. ASSUME NEW i \in Inodes, NEW buf \in Buf, Appends(i, buf), sfs_fwrite(i, buf)
      PROVE  Settled \/ FullFor(i, buf) \/ (Appends(i, buf) /\ Appended(i, buf))
    <2>1. CASE Refuse /\ UNCHANGED up
        BY <2>1 DEF Refuse, tables, blocks, Settled, SameBlocks
    <2> QED BY <1>8, <2>1, AppendCases
<1> QED BY <1>1, <1>2, <1>3, <1>4, <1>5, <1>6, <1>7, <1>8 DEF AppendNext

-----------------------------------------------------------------------------
(* The invariant.                                                          *)

LEMMA EmptyLaid ==
    ASSUME NEW table, table = [i \in Inodes |-> EmptyInode], NEW d, NEW free
    PROVE  \E N : Laid(table, d, free, N)
<1> DEFINE N == [i \in Inodes |-> 0]
<1>1. /\ NDIRECT \in Nat \ {0} /\ BLOCK_SIZE \in Nat \ {0}
      /\ Opened \in Nat /\ Closed \in {Opened, Closed}
    BY SizeAssumption DEF Opened, Closed
<1>2. EmptyInode \in inode_t
    BY <1>1 DEF EmptyInode, inode_t
<1>3. Whole(EmptyInode, d, 0)
    BY <1>1, <1>2 DEF Whole, EmptyInode
<1>4. \A i \in Inodes : table[i] = EmptyInode /\ N[i] = 0
    OBVIOUS
<1>5. N \in [Inodes -> Nat]
    OBVIOUS
<1> HIDE DEF N
<1>6. \A i \in Inodes : Whole(table[i], d, N[i])
    BY <1>3, <1>4
<1>7. \A i \in Inodes : 0 .. N[i] - 1 = {}
    BY <1>4
<1>8. Laid(table, d, free, N)
    BY <1>5, <1>6, <1>7 DEF Laid
<1> QED BY <1>8

LEMMA AppendIsNext == [AppendNext]_vars => [Next]_vars
BY DEF AppendNext, Next

LEMMA LaidNext ==
    ASSUME Overrun = {}, AppendInv, TypeOK', [AppendNext]_vars
    PROVE  /\ \E N : Laid(inode_table', disk', free_bit_map', N)
           /\ up' /\ intact' /\ MAX_BLOCK' = NUM_BLOCKS
<1>1. PICK N : Laid(inode_table, disk, free_bit_map, N)
    BY DEF AppendInv
<1>2. CASE mksfs_fresh \/ mksfs_old
    <2>1. /\ inode_table' = [i \in Inodes |-> EmptyInode]
          /\ up' /\ intact' /\ MAX_BLOCK' = NUM_BLOCKS
        BY <1>2 DEF mksfs_fresh, mksfs_old, OverwrittenReadBack, AppendInv
    <2> QED BY <2>1, EmptyLaid
<1>3. CASE Settled
    <2>1. Laid(inode_table', disk', free_bit_map', N)
        BY <1>1, <1>3, SameLaid DEF Settled
    <2>2. 0 \in Inodes
        BY SizeAssumption DEF Inodes
    <2>3. up' /\ intact' /\ MAX_BLOCK' = NUM_BLOCKS
        BY <1>3, <2>2 DEF Settled, SameBlocks, AppendInv
    <2> QED BY <2>1, <2>3
<1>4. ASSUME NEW i \in Inodes, NEW buf \in Buf, FullFor(i, buf)
      PROVE  /\ \E M : Laid(inode_table', disk', free_bit_map', M)
             /\ up' /\ intact' /\ MAX_BLOCK' = NUM_BLOCKS
    <2>1. /\ \A j \in Inodes : SameBlocks(j)
          /\ free_bit_map' \subseteq free_bit_map
          /\ up' /\ intact' /\ MAX_BLOCK' = NUM_BLOCKS
        BY <1>4 DEF FullFor, sfs_fwrite_full, tables, SameBlocks, AppendInv
    <2> QED BY <1>1, <2>1, SameLaid
<1>5. ASSUME NEW i \in Inodes, NEW buf \in Buf, Appends(i, buf), Appended(i, buf)
      PROVE  /\ \E M : Laid(inode_table', disk', free_bit_map', M)
             /\ up' /\ intact' /\ MAX_BLOCK' = NUM_BLOCKS
    <2>1. Whole(inode_table[i], disk, N[i])
        BY <1>1 DEF Laid
    <2>2. Extended(i, buf, N[i])
        BY <1>5, <2>1, AppendGrows DEF AppendInv, Appended
    <2>3. PICK m, s, ind : Growing(i, buf, N[i], m, s, ind) /\ Grown(i, buf, N[i], m, s, ind)
        BY <2>2 DEF Extended
    <2>4. Laid(inode_table', disk', free_bit_map', After(N, i, m))
        BY <1>1, <2>3, GrownLaid DEF AppendInv
    <2>5. up' /\ intact' /\ MAX_BLOCK' = NUM_BLOCKS
        BY <1>5, <2>3 DEF AppendInv, Appended, Grown
    <2> QED BY <2>4, <2>5
<1> QED BY <1>2, <1>3, <1>4, <1>5, AppendSteps

LEMMA AppendStep ==
    ASSUME Overrun = {}
    PROVE  AppendInv /\ [AppendNext]_vars /\ [ComesBack]_vars => AppendInv'
<1> SUFFICES ASSUME AppendInv, [AppendNext]_vars, [ComesBack]_vars PROVE AppendInv'
    OBVIOUS
<1>1. [Next]_vars /\ TypeOK /\ OneOwner /\ DirInv /\ Named /\ known /\ intact
    BY AppendIsNext DEF AppendInv
<1>2. TypeOK'
    BY <1>1, NextType
<1>3. OneOwner'
    BY <1>1, NextOwned
<1>4. DirInv'
    BY <1>1, DirStep
<1>5. Named' /\ known'
    BY <1>1, NamesStep, NextKnown
<1>6. /\ \E N : Laid(inode_table', disk', free_bit_map', N)
      /\ up' /\ intact' /\ MAX_BLOCK' = NUM_BLOCKS
    BY <1>2, LaidNext
<1> QED BY <1>2, <1>3, <1>4, <1>5, <1>6 DEF AppendInv

LEMMA AppendInit == Init => AppendInv
<1> SUFFICES ASSUME Init PROVE AppendInv
    OBVIOUS
<1>1. TypeOK
    BY InitType
<1>2. OneOwner
    BY EmptyOwned DEF Init
<1>3. DirInv /\ Named
    BY DirInit, NamesInit
<1>4. \E N : Laid(inode_table, disk, free_bit_map, N)
    BY EmptyLaid DEF Init
<1> QED BY <1>1, <1>2, <1>3, <1>4 DEF AppendInv, Init

(* Files that grow by whole blocks: each has its blocks in order, those    *)
(* behind the direct pointers in an indirect block of its own, and no      *)
(* block is shared, or free.                                               *)
THEOREM FilesGrowApart ==
    ASSUME Overrun = {} PROVE AppendSpec /\ DirectoryComesBack => []AppendInv
<1>1. AppendInv /\ [AppendNext]_vars /\ [ComesBack]_vars => AppendInv'
    BY AppendStep
<1>2. Init => AppendInv
    BY AppendInit
<1> QED BY <1>1, <1>2, PTL DEF AppendSpec, DirectoryComesBack

LEMMA LaidFilesApart == AppendInv => FilesApart
<1> SUFFICES ASSUME AppendInv PROVE FilesApart
    OBVIOUS
<1>1. PICK N : Laid(inode_table, disk, free_bit_map, N)
    BY DEF AppendInv
<1>2. ASSUME NEW i \in Inodes
      PROVE  /\ numBlocks(i) = N[i] /\ Whole(inode_table[i], disk, N[i])
             /\ \A q \in 0 .. N[i] - 1 : FileBlock(i, q) = BlockAt(inode_table[i], disk, q)
    <2>1. Whole(inode_table[i], disk, N[i]) /\ MAX_BLOCK = NUM_BLOCKS
        BY <1>1 DEF Laid, AppendInv
    <2> QED BY <2>1, WholeInUse
<1>3. ASSUME NEW i \in Inodes, NEW q \in 0 .. numBlocks(i) - 1
      PROVE  /\ FileBlock(i, q) \in DataBlocks \ free_bit_map
             /\ \A j \in Inodes :
                   /\ FileBlock(i, q) # inode_table[j].indirectPointer
                   /\ \A r \in 0 .. numBlocks(j) - 1 :
                          FileBlock(i, q) = FileBlock(j, r) => <<i, q>> = <<j, r>>
    <2>1. q \in 0 .. N[i] - 1 /\ FileBlock(i, q) = BlockAt(inode_table[i], disk, q)
        BY <1>2, <1>3
    <2>2. FileBlock(i, q) \in DataBlocks
        BY <1>2, <2>1 DEF Whole
    <2>3. \A j \in Inodes : Apart(inode_table, disk, free_bit_map, N, i, q, j)
        BY <1>1, <2>1 DEF Laid
    <2>4. FileBlock(i, q) \notin free_bit_map
        BY <2>1, <2>3 DEF Apart
    <2>5. ASSUME NEW j \in Inodes
          PROVE  /\ FileBlock(i, q) # inode_table[j].indirectPointer
                 /\ \A r \in 0 .. numBlocks(j) - 1 :
                        FileBlock(i, q) = FileBlock(j, r) => <<i, q>> = <<j, r>>
        BY <1>2, <2>1, <2>3 DEF Apart
    <2> QED BY <2>2, <2>4, <2>5
<1> QED BY <1>3 DEF FilesApart

LEMMA LaidIndirect == AppendInv => IndirectPointsToData
<1> SUFFICES ASSUME AppendInv, NEW i \in Inodes, inode_table[i].size > DIRECT_SIZE
             PROVE  inode_table[i].indirectPointer \in DataBlocks
    BY DEF IndirectPointsToData
<1>1. PICK N : Laid(inode_table, disk, free_bit_map, N)
    BY DEF AppendInv
<1>2. Whole(inode_table[i], disk, N[i]) /\ N[i] \in Nat /\ NDIRECT \in Nat
    BY <1>1, SizeAssumption DEF Laid
<1>3. N[i] * BLOCK_SIZE > NDIRECT * BLOCK_SIZE
    BY <1>2 DEF Whole, DIRECT_SIZE
<1>4. N[i] > NDIRECT
    <2> DEFINE n == N[i]
    <2>1. n \in Int /\ NDIRECT \in Int /\ n * BLOCK_SIZE > NDIRECT * BLOCK_SIZE
        BY <1>2, <1>3
    <2> HIDE DEF n
    <2>2. /\ n <= NDIRECT => n * BLOCK_SIZE <= NDIRECT * BLOCK_SIZE
          /\ n * BLOCK_SIZE \in Int /\ NDIRECT * BLOCK_SIZE \in Int
        BY <2>1, WholeTimes
    <2>3. n > NDIRECT
        BY <2>1, <2>2
    <2> QED BY <2>3 DEF n
<1> QED BY <1>2, <1>4 DEF Whole

(* While files only grow by whole blocks, no block serves two files or two *)
(* places of one, entries of indirect blocks included, and none of a file  *)
(* can be allocated, across remounts and a second format too.              *)
THEOREM GrowingFilesApart ==
    ASSUME Overrun = {} PROVE AppendSpec /\ DirectoryComesBack => []FilesApart
<1>1. AppendSpec /\ DirectoryComesBack => []AppendInv
    BY FilesGrowApart
<1> QED BY <1>1, LaidFilesApart, PTL

(* And a file longer than its direct part has an indirect block, which is  *)
(* a data block.                                                           *)
THEOREM LongFilesHaveIndirect ==
    ASSUME Overrun = {} PROVE AppendSpec /\ DirectoryComesBack => []IndirectPointsToData
<1>1. AppendSpec /\ DirectoryComesBack => []AppendInv
    BY FilesGrowApart
<1> QED BY <1>1, LaidIndirect, PTL

-----------------------------------------------------------------------------
(* The words behind every call.                                            *)

LEMMA AppendViewable ==
    ASSUME AppendInv, AppendInv' PROVE Viewable /\ Viewable'
BY DEF AppendInv, Viewable

(* What sfs_fread finds in blockNums: the blocks of the file.              *)
LEMMA AppendReadBlocks ==
    ASSUME MAX_BLOCK = NUM_BLOCKS, NEW i \in Inodes, NEW n, Whole(inode_table[i], disk, n),
           NEW p \in Nat, NEW e \in Nat, e <= inode_table[i].size,
           NEW blk \in blockNums(LoadedForRead(i, p, e)), NEW r \in p .. e - 1
    PROVE  /\ r \div BLOCK_SIZE \in 0 .. n - 1
           /\ blk[r \div BLOCK_SIZE] = BlockAt(inode_table[i], disk, r \div BLOCK_SIZE)
<1> DEFINE load == LoadedForRead(i, p, e)
<1>1. n \in Nat /\ e <= n * BLOCK_SIZE
    BY SizeAssumption DEF Whole
<1>2. ASSUME NEW q \in Touched(p, e)
      PROVE  /\ q \in 0 .. n - 1
             /\ load[q] = BlockAt(inode_table[i], disk, q) /\ load[q] # Unspec
    <2>1. q \in 0 .. n - 1
        BY <1>1, TouchedBelow
    <2>2. load[q] = FileBlock(i, q)
        BY DEF LoadedForRead, FileBlock
    <2>3. FileBlock(i, q) = BlockAt(inode_table[i], disk, q)
        BY <2>1, WholeInUse
    <2>4. BlockAt(inode_table[i], disk, q) \in DataBlocks
        BY <2>1 DEF Whole
    <2> QED BY <2>1, <2>2, <2>3, <2>4, NameAssumption, SizeAssumption DEF DataBlocks
<1>3. \A q \in Touched(p, e) : blk[q] = load[q]
    <2>1. DOMAIN load = Touched(p, e)
        BY DEF LoadedForRead
    <2> HIDE DEF load
    <2>2. blk \in blockNums(load)
        BY DEF load
    <2>3. \A q \in DOMAIN load : blk[q] = load[q]
        BY <1>2, <2>1, <2>2, NoJunk
    <2> QED BY <2>1, <2>3
<1>4. r \div BLOCK_SIZE \in Touched(p, e)
    BY TouchedBy
<1> QED BY <1>2, <1>3, <1>4

LEMMA AppendRead ==
    ASSUME AppendInv, NEW i \in Inodes, NEW length \in ReadLen, sfs_fread(i, length)
    PROVE  \/ ReadBrings(i, length)
           \/ /\ Refuse
              /\ inode_table[i].mode = Closed \/ inode_table[i].size < fd_table[i] + length
<1> DEFINE p == fd_table[i]
           e == p + length
           ino == inode_table[i]
           C == Contents[i]
<1>1. PICK N : Laid(inode_table, disk, free_bit_map, N)
    BY DEF AppendInv
<1>2. Whole(ino, disk, N[i]) /\ MAX_BLOCK = NUM_BLOCKS
    BY <1>1 DEF Laid, AppendInv
<1>3. CASE ~ (Refuse /\ (ino.mode = Closed \/ ino.size < e))
    <2>1. /\ ino.mode # Closed /\ ~ (ino.size < e)
          /\ fd_table' = [fd_table EXCEPT ![i] = e]
          /\ UNCHANGED <<inode_table, rootDir, disk, MAX_BLOCK>>
        BY <1>3, ReadSettles DEF sfs_fread, blocks
    <2>2. PICK blk \in blockNums(LoadedForRead(i, p, e)) :
              Reply(length, [k \in 1 .. length |-> ReadWord(blk, p + k - 1)])
        BY <1>3, ReadSettles DEF sfs_fread, LoadedForRead
    <2>3. /\ p \in Nat /\ length \in Nat /\ e \in Nat /\ e - p = length
          /\ ino.size \in Nat /\ e <= ino.size
          /\ C = WordsIn(ino, disk)
        <3>1. p \in Nat /\ length \in Nat
            BY ClientAssumption DEF AppendInv, TypeOK
        <3>2. ino.size \in Nat
            BY <1>2 DEF Whole, inode_t
        <3>3. C = WordsIn(ino, disk)
            <4>1. Content(i) = WordsIn(ino, disk)
                BY <1>2, ContentIn
            <4> QED BY <4>1 DEF Contents
        <3> HIDE DEF p, C, ino
        <3> QED BY <2>1, <3>1, <3>2, <3>3
    <2>4. ASSUME NEW k \in 1 .. length
          PROVE  ReadWord(blk, p + k - 1) = C[p + k]
        <3> DEFINE t == p + k - 1
        <3> HIDE DEF p, e, C, ino
        <3>1. t \in p .. e - 1 /\ p + k \in 1 .. ino.size /\ (p + k) - 1 = t
            <4>1. /\ p \in Nat /\ length \in Nat /\ e \in Nat /\ e - p = length
                  /\ ino.size \in Nat /\ e <= ino.size
                BY <2>3
            <4>2. k \in Nat /\ 1 <= k /\ k <= length
                BY <4>1
            <4> QED BY <4>1, <4>2
        <3> HIDE DEF t
        <3>2. /\ t \div BLOCK_SIZE \in 0 .. N[i] - 1
              /\ blk[t \div BLOCK_SIZE] = BlockAt(ino, disk, t \div BLOCK_SIZE)
            <4> DEFINE n == N[i]
            <4>1. /\ p \in Nat /\ e \in Nat /\ e <= inode_table[i].size
                  /\ MAX_BLOCK = NUM_BLOCKS /\ Whole(inode_table[i], disk, n)
                BY <1>2, <2>3 DEF ino
            <4>2. t \in p .. e - 1 /\ blk \in blockNums(LoadedForRead(i, p, e))
                BY <2>2, <3>1
            <4> HIDE DEF n
            <4>3. /\ t \div BLOCK_SIZE \in 0 .. n - 1
                  /\ blk[t \div BLOCK_SIZE] = BlockAt(inode_table[i], disk, t \div BLOCK_SIZE)
                BY <4>1, <4>2, AppendReadBlocks
            <4> QED BY <4>3 DEF n, ino
        <3>3. blk[t \div BLOCK_SIZE] \in Reachable
            BY <1>2, <3>2, AllReachable DEF Whole
        <3>4. ReadWord(blk, t) = disk[BlockAt(ino, disk, t \div BLOCK_SIZE)][t % BLOCK_SIZE]
            BY <3>2, <3>3 DEF ReadWord
        <3>5. C[p + k] = disk[BlockAt(ino, disk, t \div BLOCK_SIZE)][t % BLOCK_SIZE]
            BY <2>3, <3>1 DEF WordsIn
        <3> QED BY <3>4, <3>5 DEF t
    <2>5. Reply(length, [k \in 1 .. length |-> C[p + k]])
        <3>1. [k \in 1 .. length |-> ReadWord(blk, p + k - 1)] = [k \in 1 .. length |-> C[p + k]]
            <4> HIDE DEF p, e, C
            <4> QED BY <2>4
        <3> HIDE DEF p, e, C
        <3> QED BY <2>2, <3>1
    <2> QED BY <2>1, <2>3, <2>5 DEF ReadBrings
<1> QED BY <1>3

(* An append keeps the old blocks and what they hold.                      *)
LEMMA GrownKeeps ==
    ASSUME Overrun = {}, TypeOK, OneOwner, NEW N,
           Laid(inode_table, disk, free_bit_map, N), NEW i, NEW buf, NEW m, NEW s, NEW ind,
           Growing(i, buf, N[i], m, s, ind), Grown(i, buf, N[i], m, s, ind),
           NEW x \in Inodes, NEW q \in 0 .. N[x] - 1
    PROVE  /\ BlockAt(inode_table'[x], disk', q) = BlockAt(inode_table[x], disk, q)
           /\ disk'[BlockAt(inode_table[x], disk, q)] = disk[BlockAt(inode_table[x], disk, q)]
<1> DEFINE b == BlockAt(inode_table[x], disk, q)
<1>1. /\ i \in Inodes /\ m \in Nat \ {0} /\ Taken(s) \subseteq free_bit_map
      /\ N \in [Inodes -> Nat] /\ N[i] \in Nat
    BY GrowingBlocks DEF Laid
<1>2. q \in 0 .. After(N, i, m)[x] - 1
    BY <1>1 DEF After
<1>3. ~NewBlock(N, i, m, s, x, q)
    <2>1. x = i => ~ (q - N[i] \in 0 .. m - 1)
        BY <1>1
    <2> QED BY <2>1 DEF NewBlock
<1>4. BlockAt(inode_table'[x], disk', q) = b
    BY <1>2, <1>3, OldOrNew DEF OldBlock
<1>5. /\ b \in DataBlocks /\ b \notin free_bit_map
      /\ b # inode_table[i].indirectPointer
    BY <1>1 DEF Laid, Whole, Apart
<1>6. ind \in free_bit_map \/ ind = inode_table[i].indirectPointer
    BY DEF Growing
<1>7. b \in DataBlocks \ Taken(s) /\ b # ind
    BY <1>1, <1>5, <1>6
<1> HIDE DEF b
<1>8. disk'[b] = disk[b]
    BY <1>7 DEF Grown, GrownDisk
<1> QED BY <1>4, <1>8 DEF b

(* And puts the buffer behind them.                                        *)
LongerWords(i, buf, n, m) ==
    /\ \A k \in 1 .. n * BLOCK_SIZE :
          WordsIn(inode_table'[i], disk')[k] = WordsIn(inode_table[i], disk)[k]
    /\ \A k \in n * BLOCK_SIZE + 1 .. (n + m) * BLOCK_SIZE :
          WordsIn(inode_table'[i], disk')[k] = buf[k - n * BLOCK_SIZE]
    /\ \A x \in Inodes \ {i} :
          WordsIn(inode_table'[x], disk') = WordsIn(inode_table[x], disk)

LEMMA GrownWords ==
    ASSUME Overrun = {}, TypeOK, TypeOK', OneOwner, NEW N,
           Laid(inode_table, disk, free_bit_map, N), NEW i, NEW buf, NEW m, NEW s, NEW ind,
           Growing(i, buf, N[i], m, s, ind), Grown(i, buf, N[i], m, s, ind),
           NEW n, n = N[i]
    PROVE  LongerWords(i, buf, n, m)
<1> DEFINE ino == inode_table[i]
           new == inode_table'[i]
<1>1. /\ i \in Inodes /\ n \in Nat /\ m \in Nat \ {0} /\ N \in [Inodes -> Nat]
      /\ BLOCK_SIZE \in Nat \ {0} /\ n + m \in Nat
    BY GrowingBlocks DEF Laid
<1>2. /\ n * BLOCK_SIZE \in Nat /\ (n + m) * BLOCK_SIZE \in Nat
      /\ n * BLOCK_SIZE <= (n + m) * BLOCK_SIZE
    <2>1. n \in Int /\ n + m \in Int /\ n <= n + m
        BY <1>1
    <2> QED BY <1>1, <2>1, WholeTimes
<1>3. Whole(ino, disk, n) /\ ino.size = n * BLOCK_SIZE
    BY <1>1 DEF Laid, Whole
<1>4. Whole(new, disk', n + m) /\ new.size = (n + m) * BLOCK_SIZE
    <2>1. After(N, i, m)[i] = n + m
        BY <1>1 DEF After
    <2>2. Whole(new, disk', n + m)
        BY <1>1, <2>1, GrownWhole
    <2> QED BY <2>2 DEF Whole
<1>5. ASSUME NEW k \in 1 .. n * BLOCK_SIZE
      PROVE  WordsIn(new, disk')[k] = WordsIn(ino, disk)[k]
    <2>1. k \in 1 .. ino.size /\ k \in 1 .. new.size
        BY <1>2, <1>3, <1>4
    <2>2. (k - 1) \div BLOCK_SIZE \in 0 .. n - 1
        BY <1>3, <2>1, PositionIn
    <2>3. /\ BlockAt(new, disk', (k - 1) \div BLOCK_SIZE) = BlockAt(ino, disk, (k - 1) \div BLOCK_SIZE)
          /\ disk'[BlockAt(ino, disk, (k - 1) \div BLOCK_SIZE)]
                = disk[BlockAt(ino, disk, (k - 1) \div BLOCK_SIZE)]
        BY <1>1, <2>2, GrownKeeps
    <2> QED BY <2>1, <2>3 DEF WordsIn
<1>6. ASSUME NEW k \in n * BLOCK_SIZE + 1 .. (n + m) * BLOCK_SIZE
      PROVE  WordsIn(new, disk')[k] = buf[k - n * BLOCK_SIZE]
    <2> DEFINE r == k - 1
               q == r \div BLOCK_SIZE
               o == r % BLOCK_SIZE
               j == q - n
    <2>1. k \in 1 .. new.size /\ n * BLOCK_SIZE <= r
        BY <1>2, <1>4
    <2>2. r \in Nat /\ q \in 0 .. (n + m) - 1 /\ o \in Offsets
        BY <1>4, <2>1, PositionIn
    <2>3. r = BLOCK_SIZE * q + o
        BY <2>2, DivMod
    <2>4. n <= q
        <3>1. n * BLOCK_SIZE + 0 = n * BLOCK_SIZE /\ 0 \in Offsets
            BY <1>1, <1>2 DEF Offsets
        <3>2. (n * BLOCK_SIZE) \div BLOCK_SIZE = n
            BY <1>1, <3>1, PlaceOf
        <3> HIDE DEF r
        <3> QED BY <1>2, <2>1, <2>2, <3>2, BlockOrder
    <2> HIDE DEF q, o
    <2>5. j \in 0 .. m - 1 /\ q \in Int /\ q \in 0 .. n + m - 1 /\ ~ (q < n)
        BY <1>1, <2>2, <2>4
    <2>6. BlockAt(new, disk', q) = s[j]
        BY <1>1, <2>5, GrownBlocks
    <2>7. disk'[s[j]][o] = buf[(j * BLOCK_SIZE + o) + 1]
        BY <2>2, <2>5 DEF Grown, GrownDisk
    <2>8. (j * BLOCK_SIZE + o) + 1 = k - n * BLOCK_SIZE
        <3>1. j * BLOCK_SIZE = q * BLOCK_SIZE - n * BLOCK_SIZE
            BY <1>1, <2>5, WholeTimes
        <3>2. q * BLOCK_SIZE = BLOCK_SIZE * q /\ BLOCK_SIZE * q \in Int /\ o \in Int
            BY <1>1, <2>2, <2>5 DEF Offsets
        <3> QED BY <1>1, <1>2, <2>2, <2>3, <3>1, <3>2
    <2>9. WordsIn(new, disk')[k] = disk'[BlockAt(new, disk', q)][o]
        BY <2>1 DEF WordsIn, q, o
    <2> QED BY <2>6, <2>7, <2>8, <2>9
<1>7. ASSUME NEW x \in Inodes \ {i}
      PROVE  WordsIn(inode_table'[x], disk') = WordsIn(inode_table[x], disk)
    <2>1. Whole(inode_table[x], disk, N[x]) /\ inode_table'[x] = inode_table[x]
        BY DEF Laid, Grown, GrownInode
    <2>2. ASSUME NEW k \in 1 .. inode_table[x].size
          PROVE  disk'[BlockAt(inode_table'[x], disk', (k - 1) \div BLOCK_SIZE)]
                    = disk[BlockAt(inode_table[x], disk, (k - 1) \div BLOCK_SIZE)]
        <3>1. (k - 1) \div BLOCK_SIZE \in 0 .. N[x] - 1
            BY <2>1, PositionIn
        <3> QED BY <3>1, GrownKeeps
    <2> QED BY <2>1, <2>2 DEF WordsIn
<1> QED BY <1>5, <1>6, <1>7 DEF LongerWords

-----------------------------------------------------------------------------
(* Every call is a step of the store.                                      *)

LEMMA ContentInNext ==
    \A i \in Inodes : \A n :
        Whole(inode_table'[i], disk', n) /\ MAX_BLOCK' = NUM_BLOCKS
            => Content(i)' = WordsIn(inode_table'[i], disk')
<1>1. \A i \in Inodes : \A n :
          Whole(inode_table[i], disk, n) /\ MAX_BLOCK = NUM_BLOCKS
              => Content(i) = WordsIn(inode_table[i], disk)
    BY ContentIn
<1>2. (\A i \in Inodes : \A n :
          Whole(inode_table[i], disk, n) /\ MAX_BLOCK = NUM_BLOCKS
              => Content(i) = WordsIn(inode_table[i], disk))'
    BY <1>1, PTL
<1> QED BY <1>2 DEF Inodes

LEMMA GrownContents ==
    ASSUME Overrun = {}, AppendInv, AppendInv', NEW N,
           Laid(inode_table, disk, free_bit_map, N), NEW i, NEW buf, NEW m, NEW s, NEW ind,
           Growing(i, buf, N[i], m, s, ind), Grown(i, buf, N[i], m, s, ind),
           NEW x \in Inodes
    PROVE  /\ Contents[x] = WordsIn(inode_table[x], disk)
           /\ Contents'[x] = WordsIn(inode_table'[x], disk')
<1>1. Whole(inode_table[x], disk, N[x]) /\ MAX_BLOCK = NUM_BLOCKS
    BY DEF Laid, AppendInv
<1>2. Whole(inode_table'[x], disk', After(N, i, m)[x]) /\ MAX_BLOCK' = NUM_BLOCKS
    BY GrownWhole DEF AppendInv
<1>3. Content(x) = WordsIn(inode_table[x], disk)
    BY <1>1, ContentIn
<1>4. Content(x)' = WordsIn(inode_table'[x], disk')
    BY <1>2, ContentInNext
<1> QED BY <1>3, <1>4 DEF Contents, Inodes

LEMMA GrownStep ==
    ASSUME Overrun = {}, AppendInv, AppendInv', NEW N,
           Laid(inode_table, disk, free_bit_map, N), NEW i, NEW buf, NEW m, NEW s, NEW ind,
           Growing(i, buf, N[i], m, s, ind), Grown(i, buf, N[i], m, s, ind),
           fd_table[i] = inode_table[i].size, inode_table[i].mode # Closed
    PROVE  FS!WriteDone(i, buf)
<1> DEFINE n == N[i]
           p == fd_table[i]
           e == p + Len(buf)
           C == Contents[i]
           D == Contents'[i]
<1>0. Viewable /\ Viewable'
    BY AppendViewable
<1>1. /\ i \in Inodes /\ n \in Nat /\ m \in Nat \ {0} /\ N \in [Inodes -> Nat]
      /\ BLOCK_SIZE \in Nat \ {0} /\ n + m \in Nat
    BY GrowingBlocks DEF Laid, AppendInv
<1>2. /\ n * BLOCK_SIZE \in Nat /\ m * BLOCK_SIZE \in Nat
      /\ (n + m) * BLOCK_SIZE = n * BLOCK_SIZE + m * BLOCK_SIZE
    BY <1>1, WholeTimes
<1>3. /\ inode_table[i].size = n * BLOCK_SIZE /\ Len(buf) = m * BLOCK_SIZE
      /\ inode_table'[i].size = (n + m) * BLOCK_SIZE
      /\ fd_table' = [fd_table EXCEPT ![i] = (n + m) * BLOCK_SIZE]
      /\ Reply(Len(buf), <<>>) /\ rootDir' = rootDir
    BY DEF Growing, Whole, Grown, GrownInode
<1>4. /\ p = n * BLOCK_SIZE /\ e = (n + m) * BLOCK_SIZE
      /\ Len(C) = p /\ Len(D) = e /\ p \in Nat /\ e \in Nat /\ p <= e
    <2>1. Len(C) = inode_table[i].size /\ Len(D) = inode_table'[i].size
        BY <1>0, <1>1, Seen, SeenNext
    <2> HIDE DEF n, C, D
    <2> QED BY <1>2, <1>3, <2>1
<1>5. /\ \A k \in 1 .. n * BLOCK_SIZE : D[k] = C[k]
      /\ \A k \in n * BLOCK_SIZE + 1 .. (n + m) * BLOCK_SIZE : D[k] = buf[k - n * BLOCK_SIZE]
    <2>1. C = WordsIn(inode_table[i], disk) /\ D = WordsIn(inode_table'[i], disk')
        BY <1>1, GrownContents
    <2>2. TypeOK /\ TypeOK' /\ OneOwner
        BY DEF AppendInv
    <2>3. LongerWords(i, buf, n, m)
        BY <2>2, GrownWords
    <2> HIDE DEF C, D, n
    <2> QED BY <2>1, <2>3 DEF LongerWords
<1>6. \A x \in Inodes \ {i} : Contents'[x] = Contents[x]
    <2>1. TypeOK /\ TypeOK' /\ OneOwner
        BY DEF AppendInv
    <2>2. LongerWords(i, buf, n, m)
        BY <2>1, GrownWords
    <2>3. \A x \in Inodes \ {i} :
              WordsIn(inode_table'[x], disk') = WordsIn(inode_table[x], disk)
        BY <2>2 DEF LongerWords
    <2> QED BY <2>3, GrownContents
<1>7. /\ Len(D) = IF e > Len(C) THEN e ELSE Len(C)
      /\ \A k \in p + 1 .. e : D[k] = buf[k - p]
      /\ \A k \in 1 .. Len(C) : k \notin p + 1 .. e => D[k] = C[k]
    <2> HIDE DEF n, p, e, C, D
    <2> QED BY <1>4, <1>5
<1>8. Names' = Names
    BY <1>0, <1>3, SameNames
<1>9. \A x \in Inodes : inode_table'[x].mode = inode_table[x].mode
    BY DEF Grown, GrownInode
<1>10. Opens' = Opens
    BY <1>0, <1>9, SameOpens
<1>11. Opens[i]
    <2>1. inode_table[i].mode = Opened
        BY <1>1 DEF AppendInv, TypeOK, inode_t
    <2> QED BY <1>0, <1>1, <2>1, Seen
<1>12. fd_table' = [fd_table EXCEPT ![i] = e]
    BY <1>3, <1>4
<1> QED BY <1>3, <1>6, <1>7, <1>8, <1>10, <1>11, <1>12
        DEF FS!WriteDone, FS!Reply, Reply, Names, Contents, Opens

LEMMA AppendWriteStep ==
    ASSUME Overrun = {}, AppendInv, AppendInv', NEW i \in Inodes, NEW buf \in Buf,
           Appends(i, buf), sfs_fwrite(i, buf)
    PROVE  FS!Write(i, buf)
<1>0. Viewable /\ Viewable'
    BY AppendViewable
<1>1. CASE Refuse
    BY <1>0, <1>1, RefuseStep DEF FS!Write, Refuse, tables, blocks
<1>2. CASE FullFor(i, buf)
    BY <1>0, <1>2, RefuseStep DEF FS!Write, FullFor, sfs_fwrite_full, tables
<1>3. CASE Appended(i, buf)
    <2>1. PICK N : Laid(inode_table, disk, free_bit_map, N)
        BY DEF AppendInv
    <2>2. Whole(inode_table[i], disk, N[i])
        BY <2>1 DEF Laid
    <2>3. Extended(i, buf, N[i])
        BY <1>3, <2>2, AppendGrows DEF AppendInv, Appended
    <2>4. PICK m, s, ind : Growing(i, buf, N[i], m, s, ind) /\ Grown(i, buf, N[i], m, s, ind)
        BY <2>3 DEF Extended
    <2>5. fd_table[i] = inode_table[i].size /\ inode_table[i].mode # Closed
        BY <1>3 DEF Appends, Appended
    <2>6. FS!WriteDone(i, buf)
        BY <2>1, <2>4, <2>5, GrownStep
    <2> QED BY <2>6 DEF FS!Write
<1> QED BY <1>1, <1>2, <1>3, AppendCases

LEMMA AppendReadStep ==
    ASSUME AppendInv, AppendInv', NEW i \in Inodes, NEW length \in ReadLen,
           sfs_fread(i, length)
    PROVE  FS!Read(i, length)
<1>0. Viewable /\ Viewable'
    BY AppendViewable
<1>1. CASE /\ Refuse
           /\ inode_table[i].mode = Closed \/ inode_table[i].size < fd_table[i] + length
    BY <1>0, <1>1, ShortStep DEF Refuse, tables, blocks
<1>2. CASE ReadBrings(i, length)
    BY <1>0, <1>2, BringsStep
<1> QED BY <1>1, <1>2, AppendRead

(* Each call does what FileStore promises for its arguments.               *)
LEMMA AppendCalls ==
    ASSUME Overrun = {}, AppendInv, AppendInv', ComesBack
    PROVE  /\ CalledFor
           /\ \A i \in Inodes, buf \in Buf :
                 Appends(i, buf) /\ sfs_fwrite(i, buf) => FS!Write(i, buf)
<1>0. Viewable /\ Viewable' /\ intact
    BY AppendViewable DEF AppendInv
<1>1. mksfs_fresh \/ mksfs_old => FS!Format
    BY <1>0, FormatStep
<1>2. sfs_getnextfilename => FS!List
    BY <1>0, ListStep
<1>3. \A n \in AnyName : sfs_fopen(n) => FS!Open(n)
    BY <1>0, OpenStep
<1>4. \A n \in Name : sfs_getfilesize(n) => FS!Size(n)
    BY <1>0, SizeStep
<1>5. \A i \in Inodes : sfs_fclose(i) => FS!Close(i)
    BY <1>0, CloseStep
<1>6. \A i \in Inodes, loc \in SeekTo : sfs_fseek(i, loc) => FS!Seek(i, loc)
    BY <1>0, SeekStep
<1>7. \A i \in Inodes, length \in ReadLen : sfs_fread(i, length) => FS!Read(i, length)
    BY AppendReadStep
<1>8. \A i \in Inodes, buf \in Buf :
          Appends(i, buf) /\ sfs_fwrite(i, buf) => FS!Write(i, buf)
    BY AppendWriteStep
<1> QED BY <1>1, <1>2, <1>3, <1>4, <1>5, <1>6, <1>7, <1>8 DEF CalledFor

(* And is a call of FileStore.                                             *)
LEMMA AppendCallsAreNext ==
    ASSUME AppendNext, CalledFor,
           \A i \in Inodes, buf \in Buf :
               Appends(i, buf) /\ sfs_fwrite(i, buf) => FS!Write(i, buf)
    PROVE  FS!Next \/ \E n \in Name : sfs_remove(n)
<1>1. CASE mksfs_fresh \/ mksfs_old \/ sfs_getnextfilename
    BY <1>1 DEF CalledFor, FS!Next
<1>2. ASSUME NEW n \in AnyName, sfs_fopen(n) PROVE FS!Next
    <2>1. FS!Open(n) /\ n \in Name \cup {NoName, JunkName}
        BY <1>2 DEF CalledFor, AnyName
    <2> QED BY <2>1 DEF FS!Next
<1>3. ASSUME NEW n \in Name, sfs_getfilesize(n) PROVE FS!Next
    BY <1>3 DEF CalledFor, FS!Next
<1>4. ASSUME NEW i \in Inodes, sfs_fclose(i) PROVE FS!Next
    BY <1>4 DEF CalledFor, FS!Next
<1>5. ASSUME NEW i \in Inodes, NEW length \in ReadLen, sfs_fread(i, length) PROVE FS!Next
    BY <1>5 DEF CalledFor, FS!Next
<1>6. ASSUME NEW i \in Inodes, NEW loc \in SeekTo, sfs_fseek(i, loc) PROVE FS!Next
    BY <1>6 DEF CalledFor, FS!Next
<1>7. ASSUME NEW i \in Inodes, NEW buf \in Buf, Appends(i, buf), sfs_fwrite(i, buf)
      PROVE  FS!Next
    BY <1>7 DEF FS!Next
<1> QED BY <1>1, <1>2, <1>3, <1>4, <1>5, <1>6, <1>7 DEF AppendNext

LEMMA AppendRefines ==
    ASSUME Overrun = {}
    PROVE  AppendInv /\ AppendInv' /\ [AppendNext]_vars /\ [ComesBack]_vars =>
              [\/ /\ FS!Next /\ CalledFor
                  /\ \A i \in Inodes, buf \in Buf :
                        Appends(i, buf) /\ sfs_fwrite(i, buf) => FS!Write(i, buf)
               \/ \E n \in Name : sfs_remove(n)]_vars
<1> SUFFICES ASSUME AppendInv, AppendInv', AppendNext, ComesBack
             PROVE  \/ /\ FS!Next /\ CalledFor
                       /\ \A i \in Inodes, buf \in Buf :
                             Appends(i, buf) /\ sfs_fwrite(i, buf) => FS!Write(i, buf)
                    \/ \E n \in Name : sfs_remove(n)
    OBVIOUS
<1> QED BY AppendCalls, AppendCallsAreNext

(* Files that grow by whole blocks, into their indirect blocks too, are a  *)
(* store of files: an append puts its words behind the old ones of the     *)
(* file it is given, a read brings the words that were written, and every  *)
(* other file keeps its own, for every size of the tables, the blocks and  *)
(* the disk.                                                               *)
THEOREM GrowingFilesAreAStore ==
    ASSUME Overrun = {} PROVE AppendSpec /\ DirectoryComesBack => AppendsToAStore
<1>1. AppendInv /\ [AppendNext]_vars /\ [ComesBack]_vars => AppendInv'
    BY AppendStep
<1>2. AppendInv /\ AppendInv' /\ [AppendNext]_vars /\ [ComesBack]_vars =>
          [\/ /\ FS!Next /\ CalledFor
              /\ \A i \in Inodes, buf \in Buf :
                    Appends(i, buf) /\ sfs_fwrite(i, buf) => FS!Write(i, buf)
           \/ \E n \in Name : sfs_remove(n)]_vars
    BY AppendRefines
<1>3. Init => FS!Init
    BY StoreInit, StoreStarts
<1> QED BY <1>1, <1>2, <1>3, AppendInit, PTL
        DEF AppendSpec, DirectoryComesBack, AppendsToAStore

-----------------------------------------------------------------------------
(* No block is lost.                                                       *)

HeldIn(table, d, free, N, b) ==
    \/ b \in free
    \/ \E i \in Inodes : table[i].indirectPointer = b
    \/ \E i \in Inodes : \E q \in 0 .. N[i] - 1 : BlockAt(table[i], d, q) = b

LEMMA AccountedIsHeldIn ==
    ASSUME MAX_BLOCK = NUM_BLOCKS, NEW N, Laid(inode_table, disk, free_bit_map, N),
           NEW b \in Accounted, b # 0
    PROVE  HeldIn(inode_table, disk, free_bit_map, N, b)
<1>1. CASE b \in free_bit_map
    BY <1>1 DEF HeldIn
<1>2. ASSUME NEW i \in Inodes, NEW k \in 0 .. NDIRECT, b = Pointer(<<i, k>>)
      PROVE  HeldIn(inode_table, disk, free_bit_map, N, b)
    <2>1. CASE k = NDIRECT
        BY <1>2, <2>1 DEF Pointer, HeldIn
    <2>2. CASE k # NDIRECT
        <3>1. k \in 0 .. NDIRECT - 1 /\ k < NDIRECT /\ b = inode_table[i].data_ptrs[k]
            BY <1>2, <2>2, SizeAssumption DEF Pointer
        <3>2. Whole(inode_table[i], disk, N[i]) /\ N[i] \in Nat
            BY DEF Laid
        <3>3. ~ (k >= N[i])
            BY <3>1, <3>2 DEF Whole
        <3>4. k \in 0 .. N[i] - 1
            BY <3>1, <3>2, <3>3
        <3>5. BlockAt(inode_table[i], disk, k) = b
            BY <3>1 DEF BlockAt
        <3> QED BY <3>4, <3>5 DEF HeldIn
    <2> QED BY <2>1, <2>2
<1>3. ASSUME NEW i \in Inodes, NEW q \in 0 .. numBlocks(i) - 1, b = FileBlock(i, q)
      PROVE  HeldIn(inode_table, disk, free_bit_map, N, b)
    <2>1. Whole(inode_table[i], disk, N[i])
        BY DEF Laid
    <2>2. q \in 0 .. N[i] - 1
        BY <2>1, WholeInUse
    <2>3. FileBlock(i, q) = BlockAt(inode_table[i], disk, q)
        BY <2>1, <2>2, WholeInUse
    <2> QED BY <1>3, <2>2, <2>3 DEF HeldIn
<1> QED BY <1>1, <1>2, <1>3 DEF Accounted, BlocksOf

LEMMA HeldInIsAccounted ==
    ASSUME MAX_BLOCK = NUM_BLOCKS, NEW N, Laid(inode_table, disk, free_bit_map, N),
           NEW b, HeldIn(inode_table, disk, free_bit_map, N, b)
    PROVE  b \in Accounted
<1>1. CASE b \in free_bit_map
    BY <1>1 DEF Accounted
<1>2. ASSUME NEW i \in Inodes, inode_table[i].indirectPointer = b PROVE b \in Accounted
    <2>1. NDIRECT \in 0 .. NDIRECT /\ Pointer(<<i, NDIRECT>>) = b
        BY <1>2, SizeAssumption DEF Pointer
    <2> QED BY <2>1 DEF Accounted, BlocksOf
<1>3. ASSUME NEW i \in Inodes, NEW q \in 0 .. N[i] - 1, BlockAt(inode_table[i], disk, q) = b
      PROVE  b \in Accounted
    <2>1. Whole(inode_table[i], disk, N[i])
        BY DEF Laid
    <2>2. q \in 0 .. numBlocks(i) - 1 /\ FileBlock(i, q) = b
        BY <1>3, <2>1, WholeInUse
    <2> QED BY <2>2 DEF Accounted, BlocksOf
<1> QED BY <1>1, <1>2, <1>3 DEF HeldIn

LEMMA HeldInNext ==
    \A N, b : /\ MAX_BLOCK' = NUM_BLOCKS /\ Laid(inode_table', disk', free_bit_map', N)
              /\ HeldIn(inode_table', disk', free_bit_map', N, b)
              => b \in Accounted'
<1>1. \A N, b : /\ MAX_BLOCK = NUM_BLOCKS /\ Laid(inode_table, disk, free_bit_map, N)
                /\ HeldIn(inode_table, disk, free_bit_map, N, b)
                => b \in Accounted
    BY HeldInIsAccounted
<1>2. (\A N, b : /\ MAX_BLOCK = NUM_BLOCKS /\ Laid(inode_table, disk, free_bit_map, N)
                 /\ HeldIn(inode_table, disk, free_bit_map, N, b)
                 => b \in Accounted)'
    BY <1>1, PTL
<1> QED BY <1>2

(* An append: a block it takes is entered, one the file had stays.         *)
LEMMA GrownHeld ==
    ASSUME Overrun = {}, TypeOK, OneOwner, NEW N,
           Laid(inode_table, disk, free_bit_map, N), NEW i, NEW buf, NEW m, NEW s, NEW ind,
           Growing(i, buf, N[i], m, s, ind), Grown(i, buf, N[i], m, s, ind),
           NEW b, b # 0, HeldIn(inode_table, disk, free_bit_map, N, b)
    PROVE  HeldIn(inode_table', disk', free_bit_map', After(N, i, m), b)
<1> DEFINE n == N[i]
           M == After(N, i, m)
           goal == HeldIn(inode_table', disk', free_bit_map', M, b)
<1>1. /\ i \in Inodes /\ n \in Nat /\ m \in Nat \ {0} /\ N \in [Inodes -> Nat]
      /\ NDIRECT \in Nat \ {0}
      /\ \A c \in Taken(s) : \E j \in 0 .. m - 1 : c = s[j]
      /\ n > NDIRECT => ind = inode_table[i].indirectPointer
    BY GrowingBlocks DEF Laid
<1>2. /\ free_bit_map' = (free_bit_map \ Taken(s)) \ {ind}
      /\ inode_table'[i].indirectPointer = ind
      /\ \A x \in Inodes \ {i} : inode_table'[x] = inode_table[x]
    BY DEF Grown, GrownInode
<1>3. M[i] = n + m /\ \A x \in Inodes \ {i} : M[x] = N[x]
    BY <1>1 DEF After
<1> HIDE DEF M
<1>4. ASSUME b \in free_bit_map PROVE goal
    <2>1. CASE b \in Taken(s)
        <3>1. PICK j \in 0 .. m - 1 : b = s[j]
            BY <1>1, <2>1
        <3>2. n + j \in 0 .. n + m - 1 /\ ~ (n + j < n) /\ (n + j) - n = j
            BY <1>1
        <3>3. BlockAt(inode_table'[i], disk', n + j) = b
            BY <3>1, <3>2, GrownBlocks
        <3>4. n + j \in 0 .. M[i] - 1
            BY <1>1, <1>3, <3>2
        <3> QED BY <1>1, <3>3, <3>4 DEF HeldIn
    <2>2. CASE b = ind
        BY <1>1, <1>2, <2>2 DEF HeldIn
    <2>3. CASE b \notin Taken(s) /\ b # ind
        BY <1>2, <1>4, <2>3 DEF HeldIn
    <2> QED BY <2>1, <2>2, <2>3
<1>5. ASSUME NEW x \in Inodes, inode_table[x].indirectPointer = b PROVE goal
    <2>1. CASE x = i
        <3>1. n > NDIRECT
            BY <1>5, <2>1 DEF Laid, Whole
        <3> QED BY <1>1, <1>2, <1>5, <2>1, <3>1 DEF HeldIn
    <2>2. CASE x # i
        BY <1>2, <1>5, <2>2 DEF HeldIn
    <2> QED BY <2>1, <2>2
<1>6. ASSUME NEW x \in Inodes, NEW q \in 0 .. N[x] - 1, BlockAt(inode_table[x], disk, q) = b
      PROVE  goal
    <2>1. BlockAt(inode_table'[x], disk', q) = b
        BY <1>6, GrownKeeps
    <2>2. q \in 0 .. M[x] - 1
        BY <1>1, <1>3
    <2> QED BY <2>1, <2>2 DEF HeldIn
<1> QED BY <1>4, <1>5, <1>6 DEF HeldIn, M

LEMMA SettledHeld ==
    ASSUME Settled, NEW N, NEW b, HeldIn(inode_table, disk, free_bit_map, N, b)
    PROVE  HeldIn(inode_table', disk', free_bit_map', N, b)
<1>1. \A j \in Inodes : /\ inode_table'[j].indirectPointer = inode_table[j].indirectPointer
                        /\ \A q : BlockAt(inode_table'[j], disk', q)
                                     = BlockAt(inode_table[j], disk, q)
    BY DEF Settled, SameBlocks, BlockAt
<1> QED BY <1>1 DEF HeldIn, Settled

LEMMA AppendLosesNone ==
    ASSUME Overrun = {}, AppendInv, AppendInv', [AppendNext]_vars,
           ~mksfs_fresh, ~mksfs_old, ret'.val # -1
    PROVE  Accounted \ {0} \subseteq Accounted'
<1> SUFFICES ASSUME NEW b \in Accounted, b # 0 PROVE b \in Accounted'
    OBVIOUS
<1>1. PICK N : Laid(inode_table, disk, free_bit_map, N)
    BY DEF AppendInv
<1>2. HeldIn(inode_table, disk, free_bit_map, N, b)
    BY <1>1, AccountedIsHeldIn DEF AppendInv
<1>3. TypeOK /\ TypeOK' /\ OneOwner /\ MAX_BLOCK' = NUM_BLOCKS
    BY DEF AppendInv
<1>4. CASE Settled
    <2>1. Laid(inode_table', disk', free_bit_map', N)
        BY <1>1, <1>3, <1>4, SameLaid DEF Settled
    <2>2. HeldIn(inode_table', disk', free_bit_map', N, b)
        BY <1>2, <1>4, SettledHeld
    <2> QED BY <1>3, <2>1, <2>2, HeldInNext
<1>5. ASSUME NEW i \in Inodes, NEW buf \in Buf, FullFor(i, buf) PROVE FALSE
    BY <1>5 DEF FullFor, sfs_fwrite_full, Reply
<1>6. ASSUME NEW i \in Inodes, NEW buf \in Buf, Appends(i, buf), Appended(i, buf)
      PROVE  b \in Accounted'
    <2>1. Whole(inode_table[i], disk, N[i])
        BY <1>1 DEF Laid
    <2>2. Extended(i, buf, N[i])
        BY <1>6, <2>1, AppendGrows DEF AppendInv, Appended
    <2>3. PICK m, s, ind : Growing(i, buf, N[i], m, s, ind) /\ Grown(i, buf, N[i], m, s, ind)
        BY <2>2 DEF Extended
    <2>4. Laid(inode_table', disk', free_bit_map', After(N, i, m))
        BY <1>1, <1>3, <2>3, GrownLaid
    <2>5. HeldIn(inode_table', disk', free_bit_map', After(N, i, m), b)
        BY <1>1, <1>2, <1>3, <2>3, GrownHeld
    <2> QED BY <1>3, <2>4, <2>5, HeldInNext
<1> QED BY <1>4, <1>5, <1>6, AppendSteps

(* While files only grow by whole blocks, no call that succeeds loses a    *)
(* block: an append enters all it takes, in the inode or in the indirect   *)
(* block, and keeps what the file had.                                     *)
THEOREM GrowingBlocksAreKept ==
    ASSUME Overrun = {} PROVE AppendSpec /\ DirectoryComesBack => NoBlockLost
<1>1. AppendSpec /\ DirectoryComesBack => []AppendInv
    BY FilesGrowApart
<1>2. AppendInv /\ AppendInv' /\ [AppendNext]_vars
          => [mksfs_fresh \/ mksfs_old \/ ret'.val = -1
                \/ Accounted \ {0} \subseteq Accounted']_vars
    BY AppendLosesNone
<1> QED BY <1>1, <1>2, PTL DEF AppendSpec, NoBlockLost

=============================================================================
