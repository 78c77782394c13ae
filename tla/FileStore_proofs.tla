--------------------------- MODULE FileStore_proofs ---------------------------
(***************************************************************************)
(* Theorems about SFS as a store of files: while no write goes past the    *)
(* direct pointers, every call of sfs_api.c does what FileStore promises,  *)
(* for every size of the disk, of its blocks and of the tables.            *)
(***************************************************************************)
EXTENDS SFS_proofs, SequenceTheorems

(* Clients keep to the direct pointers, and the byte behind free_bit_map   *)
(* has no bit high.                                                        *)
Direct ==
    /\ MaxEnd <= DIRECT_SIZE
    /\ Overrun = {}

-----------------------------------------------------------------------------
(* The words of an inode that uses its first m direct pointers.            *)

Tidy(ino, m) ==
    /\ ino \in inode_t /\ ino.indirectPointer = 0
    /\ m \in 0 .. NDIRECT
    /\ \A k \in 0 .. NDIRECT - 1 :
          IF k < m THEN ino.data_ptrs[k] \in DataBlocks ELSE ino.data_ptrs[k] = 0
    /\ ino.size <= m * BLOCK_SIZE

Place(ino, r) == ino.data_ptrs[r \div BLOCK_SIZE]

WordsOf(ino, d) ==
    [k \in 1 .. ino.size |-> d[Place(ino, k - 1)][(k - 1) % BLOCK_SIZE]]

Disks == [DataBlocks -> [Offsets -> Word]]

LEMMA PlaceLemma ==
    ASSUME NEW ino, NEW m, Tidy(ino, m), NEW r \in Nat, r < m * BLOCK_SIZE
    PROVE  /\ r \div BLOCK_SIZE \in 0 .. NDIRECT - 1
           /\ r \div BLOCK_SIZE < m
           /\ Place(ino, r) \in DataBlocks
<1>1. m \in 0 .. NDIRECT /\ m \in Nat /\ NDIRECT \in Nat
    BY SizeAssumption DEF Tidy
<1>2. r \div BLOCK_SIZE \in Nat /\ r \div BLOCK_SIZE < m
    BY <1>1, DivMod, BlockBelow
<1>3. r \div BLOCK_SIZE \in 0 .. NDIRECT - 1
    BY <1>1, <1>2
<1> QED BY <1>2, <1>3 DEF Tidy, Place

LEMMA WordsAreWords ==
    ASSUME NEW ino, NEW m, Tidy(ino, m), NEW d \in Disks
    PROVE  /\ ino.size \in Nat
           /\ WordsOf(ino, d) \in Seq(Word)
           /\ Len(WordsOf(ino, d)) = ino.size
           /\ \A k \in 1 .. ino.size :
                 WordsOf(ino, d)[k] = d[Place(ino, k - 1)][(k - 1) % BLOCK_SIZE]
<1>1. ino.size \in Nat /\ ino.size <= m * BLOCK_SIZE /\ m * BLOCK_SIZE \in Int
    BY SizeAssumption DEF Tidy, inode_t
<1>2. ASSUME NEW k \in 1 .. ino.size
      PROVE  d[Place(ino, k - 1)][(k - 1) % BLOCK_SIZE] \in Word
    <2>1. k - 1 \in Nat /\ k - 1 < m * BLOCK_SIZE
        BY <1>1
    <2>2. Place(ino, k - 1) \in DataBlocks /\ (k - 1) % BLOCK_SIZE \in Offsets
        BY <2>1, PlaceLemma, DivMod
    <2> QED BY <2>2 DEF Disks
<1>3. WordsOf(ino, d) \in [1 .. ino.size -> Word]
    BY <1>2 DEF WordsOf
<1>4. WordsOf(ino, d) \in Seq(Word) /\ Len(WordsOf(ino, d)) = ino.size
    BY <1>1, <1>3
<1> QED BY <1>1, <1>4 DEF WordsOf

LEMMA NoWords ==
    ASSUME NEW ino, NEW d, ino.size = 0
    PROVE  WordsOf(ino, d) = <<>>
<1>1. WordsOf(ino, d) = [k \in 1 .. 0 |-> d[Place(ino, k - 1)][(k - 1) % BLOCK_SIZE]]
    BY DEF WordsOf
<1> QED BY <1>1

-----------------------------------------------------------------------------
(* What a file is while only its direct pointers are used.                 *)

StoreInv ==
    /\ TypeOK /\ OneOwner /\ DirInv
    /\ up /\ known /\ intact /\ MAX_BLOCK = NUM_BLOCKS
    /\ \A i \in Inodes : \E m : Tidy(inode_table[i], m)

LEMMA TidyInUse ==
    ASSUME NEW i \in Inodes, NEW m, Tidy(inode_table[i], m)
    PROVE  DirectInUse(i) = m /\ numBlocks(i) = m /\ ~HasIndirect(i)
<1> DEFINE S == {k \in 0 .. NDIRECT :
                    k = NDIRECT \/ inode_table[i].data_ptrs[k] = 0}
<1>1. S \in SUBSET Nat /\ NDIRECT \in S /\ NDIRECT \in Nat \ {0}
    BY SizeAssumption
<1>2. First(S) \in S /\ \A t \in S : First(S) <= t
    <2> HIDE DEF S
    <2> QED BY <1>1, FirstLemma
<1>3. m \in 0 .. NDIRECT /\ 0 \notin DataBlocks
    BY SizeAssumption DEF Tidy, DataBlocks
<1>4. m \in S
    <2>1. CASE m = NDIRECT
        BY <1>1, <2>1
    <2>2. CASE m # NDIRECT
        <3>1. m \in 0 .. NDIRECT - 1 /\ ~ (m < m)
            BY <1>1, <1>3, <2>2
        <3>2. inode_table[i].data_ptrs[m] = 0
            BY <3>1 DEF Tidy
        <3> QED BY <1>3, <3>2
    <2> QED BY <2>1, <2>2
<1>5. ASSUME NEW k \in S, k < m PROVE FALSE
    <2>1. k \in 0 .. NDIRECT - 1 /\ inode_table[i].data_ptrs[k] = 0
        BY <1>1, <1>3, <1>5
    <2>2. inode_table[i].data_ptrs[k] \in DataBlocks
        BY <1>5, <2>1 DEF Tidy
    <2> QED BY <1>3, <2>1, <2>2
<1>6. First(S) = m
    <2> DEFINE f == First(S)
    <2>1. f \in Nat /\ m \in Nat /\ f <= m /\ ~ (f < m)
        BY <1>1, <1>2, <1>3, <1>4, <1>5
    <2> HIDE DEF f
    <2> QED BY <2>1 DEF f
<1>7. ~HasIndirect(i)
    BY DEF Tidy, HasIndirect
<1> QED BY <1>6, <1>7 DEF DirectInUse, numBlocks

(* Entry q of blockNums is direct pointer q, for the blocks in use.        *)
LEMMA TidyLoaded ==
    ASSUME NEW i \in Inodes, NEW m, Tidy(inode_table[i], m), NEW c,
           NEW q \in 0 .. NDIRECT - 1, q < m
    PROVE  Loaded(i, q, c) = inode_table[i].data_ptrs[q]
<1>1. q < DirectInUse(i) /\ q < NDIRECT
    <2>1. DirectInUse(i) = m
        BY TidyInUse
    <2> QED BY <2>1, SizeAssumption
<1>2. ~HasIndirect(i)
    BY TidyInUse
<1> QED BY <1>1, <1>2 DEF Loaded

LEMMA AllReachable == MAX_BLOCK = NUM_BLOCKS => Reachable = DataBlocks
BY SizeAssumption DEF Reachable, DataBlocks

LEMMA ContentIs ==
    StoreInv => \A i \in Inodes : Content(i) = WordsOf(inode_table[i], disk)
<1> SUFFICES ASSUME StoreInv, NEW i \in Inodes
             PROVE  Content(i) = WordsOf(inode_table[i], disk)
    OBVIOUS
<1>1. PICK m : Tidy(inode_table[i], m)
    BY DEF StoreInv
<1>2. Reachable = DataBlocks
    BY AllReachable DEF StoreInv
<1> DEFINE ino == inode_table[i]
<1>3. ino.size \in Nat /\ ino.size <= m * BLOCK_SIZE /\ m * BLOCK_SIZE \in Int
    BY <1>1, SizeAssumption DEF Tidy, inode_t
<1>4. ASSUME NEW k \in 1 .. ino.size
      PROVE  ReadWord([q \in {(k - 1) \div BLOCK_SIZE} |-> FileBlock(i, q)], k - 1)
                = disk[Place(ino, k - 1)][(k - 1) % BLOCK_SIZE]
    <2> DEFINE q0 == (k - 1) \div BLOCK_SIZE
               blk == [q \in {q0} |-> FileBlock(i, q)]
    <2>1. k - 1 \in Nat /\ k - 1 < m * BLOCK_SIZE
        BY <1>3
    <2>2. q0 \in 0 .. NDIRECT - 1 /\ q0 < m /\ Place(ino, k - 1) \in DataBlocks
        BY <1>1, <2>1, PlaceLemma
    <2>3. FileBlock(i, q0) = ino.data_ptrs[q0]
        BY <1>1, <2>2, TidyLoaded DEF FileBlock
    <2>4. blk[q0] = Place(ino, k - 1)
        BY <2>3 DEF Place
    <2> HIDE DEF blk
    <2> QED BY <1>2, <2>2, <2>4 DEF ReadWord, blk
<1> QED BY <1>4 DEF Content, WordsOf

LEMMA ContentIsNext ==
    StoreInv' => \A i \in Inodes : Content(i)' = WordsOf(inode_table'[i], disk')
<1>1. (StoreInv => \A i \in Inodes : Content(i) = WordsOf(inode_table[i], disk))'
    BY ContentIs, PTL
<1> QED BY <1>1 DEF Inodes

LEMMA NameIs == DirInv => \A i \in Inodes : FileName(i) = rootDir[i].name
<1> SUFFICES ASSUME DirInv, NEW i \in Inodes PROVE FileName(i) = rootDir[i].name
    OBVIOUS
<1>1. {s \in Inodes : rootDir[s].num = i} = {i}
    BY DEF DirInv
<1>2. First({i}) = i
    BY FirstLemma DEF Inodes
<1> QED BY <1>1, <1>2 DEF FileName

LEMMA NameIsNext == DirInv' => \A i \in Inodes : FileName(i)' = rootDir'[i].name
<1>1. (DirInv => \A i \in Inodes : FileName(i) = rootDir[i].name)'
    BY NameIs, PTL
<1> QED BY <1>1 DEF Inodes

(* What a call leaves of a file besides its blocks keeps it tidy.          *)
LEMMA TidyKept ==
    ASSUME NEW ino, NEW m, Tidy(ino, m), NEW other \in inode_t,
           other.data_ptrs = ino.data_ptrs, other.indirectPointer = ino.indirectPointer,
           other.size \in {0, ino.size}
    PROVE  Tidy(other, m)
<1>1. m * BLOCK_SIZE \in Nat
    BY SizeAssumption DEF Tidy
<1> QED BY <1>1 DEF Tidy

LEMMA EmptyTidy == Tidy(EmptyInode, 0)
<1>1. EmptyInode \in inode_t
    BY DEF EmptyInode, inode_t
<1> QED BY <1>1, SizeAssumption DEF Tidy, EmptyInode

-----------------------------------------------------------------------------
(* The blocks of a write.                                                  *)

(* What sfs_fwrite_done has chosen when the words p .. e-1 of file i are    *)
(* written: the new blocks s and the numbers in blockNums.                 *)
LoadedForWrite(i, s, p, e) ==
    [q \in Touched(p, e) |-> IF q >= numBlocks(i) THEN s[q - numBlocks(i)]
                             ELSE Loaded(i, q, CopiedForWrite(i))]

Writing(i, buf, p, e, s, blk) ==
    /\ i \in Inodes /\ buf \in Buf
    /\ p = fd_table[i] /\ e = p + Len(buf) /\ e <= DIRECT_SIZE
    /\ s \in Allocations(numNewBlocks(i, e))
    /\ blk \in blockNums(LoadedForWrite(i, s, p, e))
    /\ sfs_fwrite_using(i, buf, s, blk)

LEMMA WritingType ==
    ASSUME TypeOK, NEW i, NEW buf, NEW p, NEW e, NEW s, NEW blk,
           Writing(i, buf, p, e, s, blk)
    PROVE  p \in Nat /\ e \in Nat /\ p < e /\ Len(buf) \in Nat \ {0} /\ e = p + Len(buf)
<1>1. p \in Nat /\ e = p + Len(buf)
    BY DEF TypeOK, Writing
<1>2. buf \in Seq(Int) /\ buf # <<>>
    BY ClientAssumption DEF Writing
<1>3. Len(buf) \in Nat \ {0}
    BY <1>2, EmptySeq
<1> QED BY <1>1, <1>3

(* n blocks s are entered behind the first m pointers, enough for e words. *)
Longer(ino, new, s, m, n, e) ==
    /\ Tidy(new, m + n) /\ e <= (m + n) * BLOCK_SIZE
    /\ DOMAIN s = 0 .. n - 1
    /\ \A k \in 0 .. NDIRECT - 1 :
          new.data_ptrs[k] = IF m <= k /\ k < m + n THEN s[k - m] ELSE ino.data_ptrs[k]

(* A write that ends within the direct pointers takes no indirect block    *)
(* and enters its new blocks behind the old ones; they are enough.         *)
LEMMA WriteTidy ==
    ASSUME Direct, StoreInv, NEW i \in Inodes, NEW buf, NEW p, NEW e, NEW s, NEW blk,
           Writing(i, buf, p, e, s, blk),
           NEW m, Tidy(inode_table[i], m), inode_table'[i] \in inode_t
    PROVE  /\ WithPointers(i, numNewBlocks(i, e), IndirectAfter(i, numNewBlocks(i, e), s), s)
                  = disk
           /\ \E n \in Nat : Longer(inode_table[i], inode_table'[i], s, m, n, e)
           /\ inode_table'[i].size =
                 IF e > inode_table[i].size THEN e ELSE inode_table[i].size
           /\ \A j \in Inodes \ {i} : inode_table'[j] = inode_table[j]
<1> DEFINE n == numNewBlocks(i, e)
           a == e - m * BLOCK_SIZE
<1>0. /\ e \in Nat /\ e = fd_table[i] + Len(buf) /\ e <= DIRECT_SIZE
      /\ s \in Allocations(n) /\ sfs_fwrite_using(i, buf, s, blk)
    BY WritingType DEF StoreInv, Writing
<1> USE <1>0
<1>1. m \in 0 .. NDIRECT /\ m \in Nat /\ NDIRECT \in Nat /\ BLOCK_SIZE \in Nat \ {0}
    BY SizeAssumption DEF Tidy
<1>2. numBlocks(i) = m /\ ~HasIndirect(i)
    BY TidyInUse
<1>3. m * BLOCK_SIZE \in Nat
    BY <1>1
<1>4. n = IF m * BLOCK_SIZE < e THEN CeilDiv(a, BLOCK_SIZE) ELSE 0
    BY <1>2 DEF numNewBlocks
<1>5. n \in Nat /\ a <= n * BLOCK_SIZE
    <2>1. CASE m * BLOCK_SIZE < e
        <3>1. a \in Nat
            BY <1>3, <2>1
        <3> HIDE DEF a, n
        <3> QED BY <1>4, <2>1, <3>1, CeilDivEnough
    <2>2. CASE ~ (m * BLOCK_SIZE < e)
        <3>1. n = 0
            BY <1>4, <2>2
        <3> HIDE DEF n
        <3> QED BY <1>1, <1>3, <2>2, <3>1
    <2> QED BY <2>1, <2>2
<1>6. ~NeedsIndirect(i, n)
    <2>1. DIRECT_SIZE \in Int
        BY <1>1 DEF DIRECT_SIZE
    <2> QED BY <2>1, NeedsLength
<1>7. m + n <= NDIRECT
    <2> HIDE DEF n
    <2> QED BY <1>1, <1>2, <1>5, <1>6 DEF NeedsIndirect
<1>8. e <= (m + n) * BLOCK_SIZE /\ inode_table[i].size <= (m + n) * BLOCK_SIZE
    <2>1. a = e - m * BLOCK_SIZE
        OBVIOUS
    <2> HIDE DEF n, a
    <2>2. (m + n) * BLOCK_SIZE = m * BLOCK_SIZE + n * BLOCK_SIZE /\ n * BLOCK_SIZE \in Nat
        BY <1>1, <1>5
    <2>3. inode_table[i].size \in Nat /\ inode_table[i].size <= m * BLOCK_SIZE
        BY DEF Tidy, inode_t
    <2> QED BY <1>3, <1>5, <2>1, <2>2, <2>3
<1>9. s \in [0 .. n - 1 -> free_bit_map] /\ free_bit_map \subseteq DataBlocks
    BY DEF Allocations, StoreInv, TypeOK, Direct
<1>10. IndirectAfter(i, n, s) = 0 /\ WithPointers(i, n, 0, s) = disk
    BY <1>2, <1>6 DEF IndirectAfter, WithPointers, HasIndirect
<1> DEFINE new == inode_table'[i]
           size == IF e > inode_table[i].size THEN e ELSE inode_table[i].size
<1>11. /\ new.size = size /\ new.indirectPointer = 0
       /\ new.data_ptrs = DirectPtrs(i, s)
    BY <1>10 DEF sfs_fwrite_using, StoreInv, TypeOK, inode_t
<1>12. \A j \in Inodes \ {i} : inode_table'[j] = inode_table[j]
    BY DEF sfs_fwrite_using, StoreInv, TypeOK
<1>13. ASSUME NEW k \in 0 .. NDIRECT - 1
       PROVE  new.data_ptrs[k] = IF m <= k /\ k < m + n THEN s[k - m]
                                 ELSE inode_table[i].data_ptrs[k]
    <2>1. k - m \in DOMAIN s <=> m <= k /\ k < m + n
        <3>1. DOMAIN s = 0 .. n - 1
            BY <1>9
        <3> HIDE DEF n
        <3> QED BY <1>1, <1>5, <3>1
    <2>2. DirectPtrs(i, s)[k] = IF k - m \in DOMAIN s THEN s[k - m]
                                ELSE inode_table[i].data_ptrs[k]
        BY <1>2 DEF DirectPtrs
    <2> QED BY <1>11, <2>1, <2>2
<1>14. Tidy(new, m + n)
    <2>1. new \in inode_t
        OBVIOUS
    <2>2. new.size <= (m + n) * BLOCK_SIZE
        BY <1>8, <1>11
    <2>3. m + n \in 0 .. NDIRECT
        BY <1>1, <1>5, <1>7
    <2>4. ASSUME NEW k \in 0 .. NDIRECT - 1
          PROVE  IF k < m + n THEN new.data_ptrs[k] \in DataBlocks ELSE new.data_ptrs[k] = 0
        <3>1. CASE m <= k /\ k < m + n
            <4>1. k - m \in 0 .. n - 1
                BY <1>1, <1>5, <3>1
            <4> QED BY <1>9, <1>13, <3>1, <4>1
        <3>2. CASE ~ (m <= k /\ k < m + n)
            <4>1. new.data_ptrs[k] = inode_table[i].data_ptrs[k]
                BY <1>13, <3>2
            <4>2. k < m + n => k < m
                BY <1>1, <1>5, <3>2
            <4>3. k < m => k < m + n
                BY <1>1, <1>5
            <4> HIDE DEF new, n
            <4> QED BY <4>1, <4>2, <4>3 DEF Tidy
        <3> QED BY <3>1, <3>2
    <2> HIDE DEF new, n
    <2> QED BY <1>11, <2>1, <2>2, <2>3, <2>4 DEF Tidy
<1>15. Longer(inode_table[i], new, s, m, n, e)
    <2>1. DOMAIN s = 0 .. n - 1
        BY <1>9
    <2> HIDE DEF n, new
    <2> QED BY <1>8, <1>13, <1>14, <2>1 DEF Longer
<1> HIDE DEF n
<1> QED BY <1>5, <1>10, <1>11, <1>12, <1>15 DEF n

-----------------------------------------------------------------------------
(* The words of a write.                                                   *)

(* What blockNums holds where nothing was left to chance.                  *)
LEMMA NoJunk ==
    ASSUME NEW load, \A q \in DOMAIN load : load[q] # Unspec, NEW blk \in blockNums(load)
    PROVE  \A q \in DOMAIN load : blk[q] = load[q]
<1>1. PICK junk : blk = Filled(load, junk)
    BY DEF blockNums
<1> QED BY <1>1 DEF Filled

LEMMA LastOne ==
    ASSUME NEW r \in Nat PROVE Last({r}) = r
BY DEF Last

(* The positions among p .. e-1 whose place is offset o of block b.        *)
Landing(blk, p, e, b, o) ==
    {r \in p .. e - 1 : blk[r \div BLOCK_SIZE] = b /\ r % BLOCK_SIZE = o}

(* The word at offset o of block b after write_helper: the one of the      *)
(* buffer whose place it is, or the old one.                               *)
LEMMA HelperWord ==
    ASSUME Reachable = DataBlocks, NEW d, NEW buf, NEW blk, NEW p \in Nat,
           NEW b \in DataBlocks, NEW o \in Offsets,
           NEW At, At = Landing(blk, p, p + Len(buf), b, o)
    PROVE  /\ At = {} => write_helper(d, buf, blk, p)[b][o] = d[b][o]
           /\ \A r \in Nat : At = {r} =>
                 write_helper(d, buf, blk, p)[b][o] = buf[r - p + 1]
<1>1. write_helper(d, buf, blk, p)[b][o] =
          IF b \notin Reachable \/ At = {} THEN d[b][o] ELSE buf[Last(At) - p + 1]
    <2> DEFINE W(c, q) == IF c \notin Reachable \/ Landing(blk, p, p + Len(buf), c, q) = {}
                          THEN d[c][q]
                          ELSE buf[Last(Landing(blk, p, p + Len(buf), c, q)) - p + 1]
    <2>1. write_helper(d, buf, blk, p) = [c \in DataBlocks |-> [q \in Offsets |-> W(c, q)]]
        BY DEF write_helper, Landing
    <2>2. write_helper(d, buf, blk, p)[b][o] = W(b, o)
        <3> HIDE DEF W
        <3> QED BY <2>1
    <2> QED BY <2>2
<1>2. ASSUME NEW r \in Nat, At = {r}
      PROVE  write_helper(d, buf, blk, p)[b][o] = buf[r - p + 1]
    <2>1. At # {} /\ Last(At) = r
        BY <1>2, LastOne
    <2> QED BY <1>1, <2>1
<1> QED BY <1>1, <1>2

(* No two direct pointers lead to one block.                               *)
LEMMA PointersApart ==
    OneOwner => \A i, j \in Inodes : \A k, l \in 0 .. NDIRECT - 1 :
        /\ inode_table[i].data_ptrs[k] # 0
        /\ inode_table[j].data_ptrs[l] = inode_table[i].data_ptrs[k]
        => j = i /\ l = k
<1> SUFFICES ASSUME OneOwner, NEW i \in Inodes, NEW j \in Inodes,
                    NEW k \in 0 .. NDIRECT - 1, NEW l \in 0 .. NDIRECT - 1,
                    inode_table[i].data_ptrs[k] # 0,
                    inode_table[j].data_ptrs[l] = inode_table[i].data_ptrs[k]
             PROVE  j = i /\ l = k
    OBVIOUS
<1>1. k # NDIRECT /\ l # NDIRECT /\ k \in 0 .. NDIRECT /\ l \in 0 .. NDIRECT
    BY SizeAssumption
<1>2. <<i, k>> \in PointerAt /\ <<j, l>> \in PointerAt
    BY <1>1 DEF PointerAt
<1>3. Pointer(<<i, k>>) # 0 /\ Pointer(<<j, l>>) = Pointer(<<i, k>>)
    BY <1>1 DEF Pointer
<1>4. <<j, l>> = <<i, k>>
    BY <1>2, <1>3 DEF OneOwner
<1> QED BY <1>4

LEMMA PlacesApart ==
    StoreInv => \A i, j \in Inodes : \A m, l : \A r, t \in Nat :
        /\ Tidy(inode_table[i], m) /\ r < m * BLOCK_SIZE
        /\ Tidy(inode_table[j], l) /\ t < l * BLOCK_SIZE
        /\ Place(inode_table[j], t) = Place(inode_table[i], r)
        /\ t % BLOCK_SIZE = r % BLOCK_SIZE
        => j = i /\ t = r
<1> SUFFICES ASSUME StoreInv, NEW i \in Inodes, NEW j \in Inodes, NEW m, NEW l,
                    NEW r \in Nat, NEW t \in Nat,
                    Tidy(inode_table[i], m), r < m * BLOCK_SIZE,
                    Tidy(inode_table[j], l), t < l * BLOCK_SIZE,
                    Place(inode_table[j], t) = Place(inode_table[i], r),
                    t % BLOCK_SIZE = r % BLOCK_SIZE
             PROVE  j = i /\ t = r
    OBVIOUS
<1>1. /\ r \div BLOCK_SIZE \in 0 .. NDIRECT - 1 /\ t \div BLOCK_SIZE \in 0 .. NDIRECT - 1
      /\ Place(inode_table[i], r) \in DataBlocks
    BY PlaceLemma
<1>2. Place(inode_table[i], r) # 0
    BY <1>1, SizeAssumption DEF DataBlocks
<1>3. j = i /\ t \div BLOCK_SIZE = r \div BLOCK_SIZE
    BY <1>1, <1>2, PointersApart DEF StoreInv, Place
<1> QED BY <1>3, SamePlace

LEMMA PlacesApartNext ==
    StoreInv' => \A i, j \in Inodes : \A m, l : \A r, t \in Nat :
        /\ Tidy(inode_table'[i], m) /\ r < m * BLOCK_SIZE
        /\ Tidy(inode_table'[j], l) /\ t < l * BLOCK_SIZE
        /\ Place(inode_table'[j], t) = Place(inode_table'[i], r)
        /\ t % BLOCK_SIZE = r % BLOCK_SIZE
        => j = i /\ t = r
<1>1. (StoreInv => \A i, j \in Inodes : \A m, l : \A r, t \in Nat :
          /\ Tidy(inode_table[i], m) /\ r < m * BLOCK_SIZE
          /\ Tidy(inode_table[j], l) /\ t < l * BLOCK_SIZE
          /\ Place(inode_table[j], t) = Place(inode_table[i], r)
          /\ t % BLOCK_SIZE = r % BLOCK_SIZE
          => j = i /\ t = r)'
    BY PlacesApart, PTL
<1> QED BY <1>1 DEF Inodes, Tidy, Place, inode_t, DataBlocks

(* A write finds in blockNums the pointers its inode is left with.         *)
Finds(blk, ino, p, e) == \A r \in p .. e - 1 : blk[r \div BLOCK_SIZE] = Place(ino, r)

LEMMA WriteBlocks ==
    ASSUME Direct, StoreInv, NEW i \in Inodes, NEW buf, NEW p, NEW e, NEW s, NEW blk,
           Writing(i, buf, p, e, s, blk),
           NEW m, Tidy(inode_table[i], m), inode_table'[i] \in inode_t
    PROVE  Finds(blk, inode_table'[i], p, e)
<1> DEFINE load == LoadedForWrite(i, s, p, e)
           new == inode_table'[i]
<1>0. p \in Nat /\ e \in Nat /\ p < e /\ blk \in blockNums(load)
    BY WritingType DEF StoreInv, Writing
<1> USE <1>0
<1> HIDE DEF load
<1>1a. PICK n \in Nat : Longer(inode_table[i], new, s, m, n, e)
    BY WriteTidy
<1>1. /\ Tidy(new, m + n) /\ e <= (m + n) * BLOCK_SIZE
      /\ \A k \in 0 .. NDIRECT - 1 :
            new.data_ptrs[k] = IF m <= k /\ k < m + n THEN s[k - m]
                               ELSE inode_table[i].data_ptrs[k]
    BY <1>1a DEF Longer
<1> USE DEF load
<1>2. numBlocks(i) = m
    BY TidyInUse
<1>3. m \in Nat /\ m + n \in Nat /\ (m + n) * BLOCK_SIZE \in Nat
    <2>1. m \in Nat /\ BLOCK_SIZE \in Nat
        BY SizeAssumption DEF Tidy
    <2> QED BY <2>1
<1>4. e - 1 \in Nat /\ Touched(p, e) = p \div BLOCK_SIZE .. (e - 1) \div BLOCK_SIZE
    BY <1>0 DEF Touched
<1>5. ASSUME NEW q \in Touched(p, e)
      PROVE  q \in 0 .. NDIRECT - 1 /\ q < m + n
    <2>1. p \div BLOCK_SIZE \in Nat /\ (e - 1) \div BLOCK_SIZE \in Nat
        BY <1>4, DivMod
    <2>2. e - 1 < (m + n) * BLOCK_SIZE
        BY <1>1, <1>3, <1>4
    <2>3. (e - 1) \div BLOCK_SIZE < m + n
        BY <1>3, <1>4, <2>2, BlockBelow
    <2>4. m + n <= NDIRECT /\ NDIRECT \in Nat
        BY <1>1, SizeAssumption DEF Tidy
    <2>5. q \in p \div BLOCK_SIZE .. (e - 1) \div BLOCK_SIZE
        BY <1>4
    <2> QED BY <1>3, <2>1, <2>3, <2>4, <2>5
<1>6. ASSUME NEW q \in Touched(p, e)
      PROVE  load[q] = new.data_ptrs[q] /\ load[q] # Unspec
    <2>1. q \in 0 .. NDIRECT - 1 /\ q < m + n
        BY <1>5
    <2>2. load[q] = IF q >= m THEN s[q - m] ELSE Loaded(i, q, CopiedForWrite(i))
        BY <1>2 DEF LoadedForWrite
    <2>3. q < m => Loaded(i, q, CopiedForWrite(i)) = inode_table[i].data_ptrs[q]
        BY <2>1, TidyLoaded
    <2> HIDE DEF load
    <2>4. q \in Int /\ m \in Int
        BY <1>3, <2>1
    <2>5. load[q] = new.data_ptrs[q]
        <3>1. CASE q >= m
            <4>1. m <= q /\ q < m + n
                BY <2>1, <2>4, <3>1
            <4> QED BY <1>1, <2>1, <2>2, <3>1, <4>1
        <3>2. CASE ~ (q >= m)
            <4>1. q < m /\ ~ (m <= q)
                BY <2>4, <3>2
            <4> QED BY <1>1, <2>1, <2>2, <2>3, <3>2, <4>1
        <3> QED BY <3>1, <3>2
    <2>6. new.data_ptrs[q] \in DataBlocks
        BY <1>1, <2>1 DEF Tidy
    <2> QED BY <2>5, <2>6, NameAssumption, SizeAssumption DEF DataBlocks
<1>7. \A q \in Touched(p, e) : blk[q] = new.data_ptrs[q]
    <2>1. DOMAIN load = Touched(p, e)
        BY DEF LoadedForWrite
    <2> HIDE DEF load, new
    <2>3. \A q \in DOMAIN load : blk[q] = load[q]
        BY <1>0, <1>6, <2>1, NoJunk
    <2> QED BY <1>6, <2>1, <2>3
<1>8. ASSUME NEW r \in p .. e - 1 PROVE r \div BLOCK_SIZE \in Touched(p, e)
    <2>1. r \in Nat /\ p <= r /\ r <= e - 1 /\ p \in Nat
        BY <1>0
    <2>2. /\ r \div BLOCK_SIZE \in Nat
          /\ p \div BLOCK_SIZE <= r \div BLOCK_SIZE
          /\ r \div BLOCK_SIZE <= (e - 1) \div BLOCK_SIZE
          /\ p \div BLOCK_SIZE \in Nat /\ (e - 1) \div BLOCK_SIZE \in Nat
        BY <1>4, <2>1, BlockOrder, DivMod
    <2> QED BY <1>4, <2>2
<1> QED BY <1>7, <1>8 DEF Place, Finds

(* The words between the position and its new place come from the buffer;  *)
(* the others of the file, and those of the other files, stay.             *)
LEMMA WriteWords ==
    ASSUME Direct, StoreInv, StoreInv', NEW i \in Inodes, NEW buf, NEW p, NEW e, NEW s,
           NEW blk, Writing(i, buf, p, e, s, blk)
    PROVE  /\ \A k \in p + 1 .. e : WordsOf(inode_table'[i], disk')[k] = buf[k - p]
           /\ \A k \in 1 .. inode_table[i].size : k \notin p + 1 .. e =>
                 WordsOf(inode_table'[i], disk')[k] = WordsOf(inode_table[i], disk)[k]
           /\ \A j \in Inodes \ {i} :
                 WordsOf(inode_table'[j], disk') = WordsOf(inode_table[j], disk)
<1> DEFINE new == inode_table'[i]
           ino == inode_table[i]
           At(b, o) == Landing(blk, p, e, b, o)
<1>0. PICK m : Tidy(ino, m)
    BY DEF StoreInv
<1>0a. inode_table'[i] \in inode_t /\ e = fd_table[i] + Len(buf)
    BY DEF StoreInv, TypeOK, Inodes, Writing
<1>0b. p \in Nat /\ e \in Nat /\ p < e /\ Len(buf) \in Nat /\ e = p + Len(buf)
    BY WritingType DEF StoreInv
<1> USE <1>0b
<1>1a. PICK n \in Nat : Longer(ino, new, s, m, n, e)
    BY <1>0, <1>0a, WriteTidy
<1>1. /\ Tidy(new, m + n) /\ e <= (m + n) * BLOCK_SIZE
      /\ \A k \in 0 .. NDIRECT - 1 :
            new.data_ptrs[k] = IF m <= k /\ k < m + n THEN s[k - m]
                               ELSE ino.data_ptrs[k]
    BY <1>1a DEF Longer
<1>2. /\ new.size = IF e > ino.size THEN e ELSE ino.size
      /\ \A j \in Inodes \ {i} : inode_table'[j] = inode_table[j]
      /\ disk' = write_helper(disk, buf, blk, p)
    <2>1. /\ WithPointers(i, numNewBlocks(i, e), IndirectAfter(i, numNewBlocks(i, e), s), s) = disk
          /\ new.size = IF e > ino.size THEN e ELSE ino.size
          /\ \A j \in Inodes \ {i} : inode_table'[j] = inode_table[j]
        BY <1>0, <1>0a, WriteTidy
    <2>2. sfs_fwrite_using(i, buf, s, blk) /\ p = fd_table[i] /\ e = fd_table[i] + Len(buf)
        BY <1>0a DEF Writing
    <2> QED BY <2>1, <2>2 DEF sfs_fwrite_using
<1>3. Reachable = DataBlocks
    BY AllReachable DEF StoreInv
<1>5. \A r \in p .. e - 1 : blk[r \div BLOCK_SIZE] = Place(new, r)
    <2>1. Finds(blk, inode_table'[i], p, e)
        BY <1>0, <1>0a, WriteBlocks
    <2> QED BY <2>1 DEF Finds
<1>6. disk \in Disks /\ disk' \in Disks
    BY DEF StoreInv, TypeOK, Disks, DataBlocks, Offsets, Word
<1>7. m \in Nat /\ m * BLOCK_SIZE \in Nat /\ (m + n) * BLOCK_SIZE \in Nat
          /\ m * BLOCK_SIZE <= (m + n) * BLOCK_SIZE
    <2>1. m \in Nat /\ BLOCK_SIZE \in Nat
        BY <1>0, SizeAssumption DEF Tidy
    <2>2. (m + n) * BLOCK_SIZE = m * BLOCK_SIZE + n * BLOCK_SIZE /\ n * BLOCK_SIZE \in Nat
              /\ m * BLOCK_SIZE \in Nat
        BY <2>1
    <2> QED BY <2>1, <2>2
<1>8. ASSUME NEW b \in DataBlocks, NEW o \in Offsets
      PROVE  /\ At(b, o) = {} => disk'[b][o] = disk[b][o]
             /\ \A r \in Nat : At(b, o) = {r} => disk'[b][o] = buf[r - p + 1]
    <2>1. At(b, o) = Landing(blk, p, p + Len(buf), b, o)
        OBVIOUS
    <2> HIDE DEF At
    <2> QED BY <1>2, <1>3, <2>1, HelperWord
<1>9. \A r \in p .. e - 1 : r \in Nat /\ r < (m + n) * BLOCK_SIZE
    BY <1>1, <1>7
<1> HIDE DEF new
<1>10. ASSUME NEW t \in Nat, t < (m + n) * BLOCK_SIZE
       PROVE  /\ t \in p .. e - 1 => At(Place(new, t), t % BLOCK_SIZE) = {t}
              /\ t \notin p .. e - 1 => At(Place(new, t), t % BLOCK_SIZE) = {}
    <2>1. \A r \in At(Place(new, t), t % BLOCK_SIZE) : r = t
        BY <1>1, <1>5, <1>9, <1>10, PlacesApartNext DEF new, Landing
    <2>2. t \in p .. e - 1 => t \in At(Place(new, t), t % BLOCK_SIZE)
        BY <1>5 DEF Landing
    <2>3. At(Place(new, t), t % BLOCK_SIZE) \subseteq p .. e - 1
        BY DEF Landing
    <2> QED BY <2>1, <2>2, <2>3
<1>11. ASSUME NEW t \in Nat, t < new.size
       PROVE  /\ t < (m + n) * BLOCK_SIZE
              /\ Place(new, t) \in DataBlocks /\ t % BLOCK_SIZE \in Offsets
              /\ WordsOf(new, disk')[t + 1] = disk'[Place(new, t)][t % BLOCK_SIZE]
    <2>1. new.size \in Nat /\ new.size <= (m + n) * BLOCK_SIZE
        BY <1>1 DEF Tidy, inode_t
    <2>2. t < (m + n) * BLOCK_SIZE
        BY <1>7, <1>11, <2>1
    <2>3. Place(new, t) \in DataBlocks /\ t % BLOCK_SIZE \in Offsets
        BY <1>1, <2>2, PlaceLemma, DivMod
    <2>4. t + 1 \in 1 .. new.size /\ t + 1 - 1 = t
        BY <1>11, <2>1
    <2>5. WordsOf(new, disk')[t + 1] = disk'[Place(new, t + 1 - 1)][(t + 1 - 1) % BLOCK_SIZE]
        BY <1>1, <1>6, <2>4, WordsAreWords
    <2> QED BY <2>2, <2>3, <2>4, <2>5
<1>12. ASSUME NEW k \in p + 1 .. e PROVE WordsOf(new, disk')[k] = buf[k - p]
    <2> DEFINE t == k - 1
    <2>1. t \in Nat /\ t \in p .. e - 1 /\ k = t + 1 /\ t - p + 1 = k - p
        OBVIOUS
    <2>2. t < new.size
        <3>1. new.size \in Nat /\ ino.size \in Nat
            BY <1>0, <1>1 DEF Tidy, inode_t
        <3>2. new.size = IF e > ino.size THEN e ELSE ino.size
            BY <1>2 DEF new
        <3> HIDE DEF t
        <3> QED BY <2>1, <3>1, <3>2
    <2> HIDE DEF t
    <2>3. WordsOf(new, disk')[k] = disk'[Place(new, t)][t % BLOCK_SIZE]
        BY <1>11, <2>1, <2>2
    <2>4. At(Place(new, t), t % BLOCK_SIZE) = {t}
        BY <1>10, <1>11, <2>1, <2>2
    <2> HIDE DEF At
    <2>5. disk'[Place(new, t)][t % BLOCK_SIZE] = buf[t - p + 1]
        <3>1. Place(new, t) \in DataBlocks /\ t % BLOCK_SIZE \in Offsets
            BY <1>11, <2>1, <2>2
        <3> QED BY <1>8, <2>1, <2>4, <3>1
    <2> QED BY <2>1, <2>3, <2>5
<1>13. ASSUME NEW k \in 1 .. ino.size, k \notin p + 1 .. e
       PROVE  WordsOf(new, disk')[k] = WordsOf(ino, disk)[k]
    <2> DEFINE t == k - 1
    <2>0. ino.size \in Nat /\ ino.size <= m * BLOCK_SIZE
        BY <1>0 DEF Tidy, inode_t
    <2>1. t \in Nat /\ t \notin p .. e - 1 /\ k = t + 1 /\ t < ino.size
        BY <1>13, <2>0
    <2>2. t < new.size
        BY <1>2, <2>0, <2>1 DEF new
    <2>3. t < m * BLOCK_SIZE
        BY <1>7, <2>0, <2>1
    <2> HIDE DEF t
    <2>4. WordsOf(new, disk')[k] = disk'[Place(new, t)][t % BLOCK_SIZE]
        BY <1>11, <2>1, <2>2
    <2>5. At(Place(new, t), t % BLOCK_SIZE) = {}
        BY <1>10, <1>11, <2>1, <2>2
    <2>6. disk'[Place(new, t)][t % BLOCK_SIZE] = disk[Place(new, t)][t % BLOCK_SIZE]
        <3> HIDE DEF At
        <3> QED BY <1>8, <1>11, <2>1, <2>2, <2>5
    <2>7. Place(new, t) = Place(ino, t)
        <3>1. t \div BLOCK_SIZE \in 0 .. NDIRECT - 1 /\ t \div BLOCK_SIZE < m
            BY <1>0, <2>1, <2>3, PlaceLemma
        <3>2. ~ (m <= t \div BLOCK_SIZE)
            BY <1>7, <3>1
        <3> QED BY <1>1, <3>1, <3>2 DEF Place, new
    <2>8. WordsOf(ino, disk)[k] = disk[Place(ino, k - 1)][(k - 1) % BLOCK_SIZE]
        BY <1>0, <1>6, WordsAreWords
    <2> QED BY <2>4, <2>6, <2>7, <2>8 DEF t
<1>14. ASSUME NEW j \in Inodes \ {i}
       PROVE  WordsOf(inode_table'[j], disk') = WordsOf(inode_table[j], disk)
    <2> DEFINE jno == inode_table[j]
    <2>1. inode_table'[j] = jno
        BY <1>2
    <2>2. PICK l : Tidy(jno, l)
        BY DEF StoreInv
    <2>3. jno.size \in Nat /\ jno.size <= l * BLOCK_SIZE /\ l * BLOCK_SIZE \in Nat
        BY <2>2, SizeAssumption DEF Tidy, inode_t
    <2>4. ASSUME NEW k \in 1 .. jno.size
          PROVE  disk'[Place(jno, k - 1)][(k - 1) % BLOCK_SIZE]
                    = disk[Place(jno, k - 1)][(k - 1) % BLOCK_SIZE]
        <3>1. k - 1 \in Nat /\ k - 1 < l * BLOCK_SIZE
            BY <2>3
        <3>2. Place(jno, k - 1) \in DataBlocks /\ (k - 1) % BLOCK_SIZE \in Offsets
            BY <2>2, <3>1, PlaceLemma, DivMod
        <3>3. At(Place(jno, k - 1), (k - 1) % BLOCK_SIZE) = {}
            <4> SUFFICES ASSUME NEW r \in p .. e - 1, Place(new, r) = Place(jno, k - 1),
                                r % BLOCK_SIZE = (k - 1) % BLOCK_SIZE
                         PROVE  FALSE
                BY <1>5 DEF Landing
            <4>1. r \in Nat /\ r < (m + n) * BLOCK_SIZE
                BY <1>9
            <4>2. i = j
                BY <1>1, <2>1, <2>2, <3>1, <4>1, PlacesApartNext DEF new
            <4> QED BY <4>2
        <3> HIDE DEF At
        <3> QED BY <1>8, <3>2, <3>3
    <2> QED BY <2>1, <2>4 DEF WordsOf
<1> QED BY <1>12, <1>13, <1>14 DEF new

-----------------------------------------------------------------------------
(* Every call keeps the files tidy.                                        *)

LEMMA StoreNext ==
    ASSUME TypeOK', OneOwner', DirInv', up', known', intact', MAX_BLOCK' = NUM_BLOCKS,
           \A i \in Inodes : \E m : Tidy(inode_table'[i], m)
    PROVE  StoreInv'
BY DEF StoreInv, Inodes

LEMMA KeptTidy ==
    ASSUME StoreInv, TypeOK',
           \A j \in Inodes :
              /\ inode_table'[j].data_ptrs = inode_table[j].data_ptrs
              /\ inode_table'[j].indirectPointer = inode_table[j].indirectPointer
              /\ inode_table'[j].size \in {0, inode_table[j].size}
    PROVE  \A i \in Inodes : \E m : Tidy(inode_table'[i], m)
<1> SUFFICES ASSUME NEW i \in Inodes PROVE \E m : Tidy(inode_table'[i], m)
    OBVIOUS
<1>1. PICK m : Tidy(inode_table[i], m)
    BY DEF StoreInv
<1>2. inode_table'[i] \in inode_t
    BY DEF TypeOK, Inodes
<1> QED BY <1>1, <1>2, TidyKept

LEMMA SameTidy ==
    ASSUME StoreInv, inode_table' = inode_table
    PROVE  \A i \in Inodes : \E m : Tidy(inode_table'[i], m)
BY DEF StoreInv

LEMMA ModeTidy ==
    ASSUME StoreInv, TypeOK', NEW i \in Inodes, NEW c, NEW z, z \in {0, inode_table[i].size},
           inode_table' = [inode_table EXCEPT ![i].mode = c, ![i].size = z]
    PROVE  \A j \in Inodes : \E m : Tidy(inode_table'[j], m)
<1>1. \A j \in Inodes :
          /\ inode_table'[j].data_ptrs = inode_table[j].data_ptrs
          /\ inode_table'[j].indirectPointer = inode_table[j].indirectPointer
          /\ inode_table'[j].size \in {0, inode_table[j].size}
    BY DEF StoreInv, TypeOK, inode_t
<1> QED BY <1>1, KeptTidy

LEMMA OpenTidy ==
    ASSUME StoreInv, TypeOK', NEW n \in AnyName, sfs_fopen(n)
    PROVE  \A j \in Inodes : \E m : Tidy(inode_table'[j], m)
<1>1. CASE UNCHANGED <<inode_table, rootDir>>
    BY <1>1, SameTidy
<1>2. ASSUME NEW s \in Inodes, NEW i \in Inodes, OldFile(n, s, i)
      PROVE  \A j \in Inodes : \E m : Tidy(inode_table'[j], m)
    <2>1. \A j \in Inodes :
              /\ inode_table'[j].data_ptrs = inode_table[j].data_ptrs
              /\ inode_table'[j].indirectPointer = inode_table[j].indirectPointer
              /\ inode_table'[j].size = inode_table[j].size
        BY <1>2 DEF OldFile, StoreInv, TypeOK, inode_t
    <2> QED BY <2>1, KeptTidy
<1>3. ASSUME NEW s \in Inodes, NEW i \in Inodes, NewFile(n, s, i)
      PROVE  \A j \in Inodes : \E m : Tidy(inode_table'[j], m)
    <2>1. \A j \in Inodes :
              /\ inode_table'[j].data_ptrs = inode_table[j].data_ptrs
              /\ inode_table'[j].indirectPointer = inode_table[j].indirectPointer
              /\ inode_table'[j].size = IF j = i THEN 0 ELSE inode_table[j].size
        BY <1>3 DEF NewFile, StoreInv, TypeOK, inode_t
    <2> QED BY <2>1, KeptTidy
<1> QED BY <1>1, <1>2, <1>3, OpenKeeps

LEMMA CloseTidy ==
    ASSUME StoreInv, TypeOK', NEW i \in Inodes, sfs_fclose(i)
    PROVE  \A j \in Inodes : \E m : Tidy(inode_table'[j], m)
<1>1. CASE inode_table' = inode_table
    BY <1>1, SameTidy
<1>2. CASE inode_table' = [inode_table EXCEPT ![i].mode = Closed]
    <2>1. inode_table' = [inode_table EXCEPT ![i].mode = Closed,
                                             ![i].size = inode_table[i].size]
        BY <1>2 DEF StoreInv, TypeOK, inode_t
    <2> QED BY <2>1, ModeTidy
<1> QED BY <1>1, <1>2 DEF sfs_fclose, Refuse, tables

(* A write within the direct pointers: refused, on a full disk, or done.   *)
LEMMA WriteCases ==
    ASSUME Direct, StoreInv, NEW i \in Inodes, NEW buf \in Buf, sfs_fwrite(i, buf)
    PROVE  /\ up'
           /\ \/ Refuse
              \/ sfs_fwrite_full(i, fd_table[i] + Len(buf))
              \/ /\ inode_table[i].mode # Closed
                 /\ \E s, blk : Writing(i, buf, fd_table[i], fd_table[i] + Len(buf), s, blk)
<1> DEFINE e == fd_table[i] + Len(buf)
<1>1. up /\ ~WrapsAround(i)
    <2>1. ~HasIndirect(i)
        BY TidyInUse DEF StoreInv
    <2> QED BY <2>1 DEF StoreInv, WrapsAround
<1>2. CASE Refuse /\ UNCHANGED up
    BY <1>1, <1>2
<1>3. CASE sfs_fwrite_full(i, e) /\ UNCHANGED up
    BY <1>1, <1>3
<1>4. CASE /\ ~ (e > MAX_FILE \/ inode_table[i].mode = Closed)
           /\ sfs_fwrite_done(i, buf) /\ UNCHANGED up
    <2>1. e <= MaxEnd
        BY <1>4 DEF sfs_fwrite
    <2>2. e <= DIRECT_SIZE
        <3>1. e \in Int /\ MaxEnd \in Int /\ DIRECT_SIZE \in Int
            BY ClientAssumption, SizeAssumption DEF StoreInv, TypeOK, DIRECT_SIZE
        <3> HIDE DEF e
        <3> QED BY <2>1, <3>1 DEF Direct
    <2>3. PICK s \in Allocations(numNewBlocks(i, e)) :
              \E blk \in blockNums(LoadedForWrite(i, s, fd_table[i], e)) :
                  sfs_fwrite_using(i, buf, s, blk)
        BY <1>4 DEF sfs_fwrite_done, LoadedForWrite
    <2> QED BY <1>1, <1>4, <2>2, <2>3 DEF Writing
<1> QED BY <1>1, <1>2, <1>3, <1>4 DEF sfs_fwrite

LEMMA WriteKeeps ==
    ASSUME Direct, StoreInv, TypeOK', NEW i \in Inodes, NEW buf \in Buf, sfs_fwrite(i, buf)
    PROVE  /\ up' /\ MAX_BLOCK' = MAX_BLOCK
           /\ \A j \in Inodes : \E m : Tidy(inode_table'[j], m)
<1>1. CASE Refuse
    BY <1>1, SameTidy, WriteCases DEF Refuse, tables, blocks
<1>2. CASE sfs_fwrite_full(i, fd_table[i] + Len(buf))
    BY <1>2, SameTidy, WriteCases DEF sfs_fwrite_full, tables
<1>3. ASSUME NEW p, NEW e, NEW s, NEW blk, Writing(i, buf, p, e, s, blk)
      PROVE  /\ MAX_BLOCK' = MAX_BLOCK
             /\ \A j \in Inodes : \E m : Tidy(inode_table'[j], m)
    <2>1. PICK m : Tidy(inode_table[i], m)
        BY DEF StoreInv
    <2>2. inode_table'[i] \in inode_t
        BY DEF TypeOK, Inodes
    <2>3. /\ \E n \in Nat : Longer(inode_table[i], inode_table'[i], s, m, n, e)
          /\ \A j \in Inodes \ {i} : inode_table'[j] = inode_table[j]
        BY <1>3, <2>1, <2>2, WriteTidy
    <2>4. \E l : Tidy(inode_table'[i], l)
        BY <2>3 DEF Longer
    <2>5. MAX_BLOCK' = MAX_BLOCK
        BY <1>3 DEF Writing, sfs_fwrite_using
    <2> QED BY <2>3, <2>4, <2>5 DEF StoreInv
<1> QED BY <1>1, <1>2, <1>3, WriteCases

LEMMA ReadCases ==
    ASSUME StoreInv, NEW i \in Inodes, NEW length \in ReadLen, sfs_fread(i, length)
    PROVE  up' /\ ~WrapsAround(i)
<1>1. ~HasIndirect(i)
    BY TidyInUse DEF StoreInv
<1> QED BY <1>1 DEF StoreInv, WrapsAround, sfs_fread

(* Tables are known until a mksfs(0) reads back overwritten metadata.      *)
LEMMA NextKnown ==
    ASSUME [Next]_vars, known, intact
    PROVE  known'
<1>1. CASE mksfs_fresh \/ mksfs_old \/ sfs_unknown
    BY <1>1 DEF mksfs_fresh, mksfs_old, OverwrittenReadBack, sfs_unknown, blocks
<1>2. CASE \E n \in AnyName : sfs_fopen(n)
    BY <1>2 DEF sfs_fopen, Refuse, OpenOld, OpenNew, blocks
<1>3. CASE \E i \in Inodes, buf \in Buf : sfs_fwrite(i, buf)
    <2> PICK i \in Inodes, buf \in Buf : sfs_fwrite(i, buf)
        BY <1>3
    <2>1. CASE sfs_fwrite_done(i, buf)
        <3> PICK s, blk : sfs_fwrite_using(i, buf, s, blk)
            BY <2>1 DEF sfs_fwrite_done
        <3> QED BY DEF sfs_fwrite_using
    <2> QED BY <2>1 DEF sfs_fwrite, sfs_fwrite_full, Refuse, blocks
<1>4. CASE \/ sfs_getnextfilename
           \/ \E n \in Name : sfs_getfilesize(n) \/ sfs_remove(n)
           \/ \E i \in Inodes : sfs_fclose(i)
           \/ \E i \in Inodes, length \in ReadLen : sfs_fread(i, length)
           \/ \E i \in Inodes, loc \in SeekTo : sfs_fseek(i, loc)
           \/ UNCHANGED vars
    BY <1>4 DEF sfs_getnextfilename, sfs_getfilesize, sfs_remove, sfs_fclose, sfs_fread,
                sfs_fseek, Refuse, vars, blocks
<1> QED BY <1>1, <1>2, <1>3, <1>4 DEF Next

(* A call keeps the store tidy, if it keeps the directory.                 *)
LEMMA StoreKeeps ==
    ASSUME Direct, StoreInv, [Next]_vars, DirInv'
    PROVE  StoreInv'
<1>0. intact'
    <2>1. \A i \in Inodes : ~HasIndirect(i)
        BY TidyInUse DEF StoreInv
    <2>2. CASE UNCHANGED vars
        BY <2>2 DEF StoreInv, vars, blocks
    <2> QED BY <2>1, <2>2, StrayStep DEF StoreInv
<1>1. TypeOK' /\ OneOwner' /\ DirInv' /\ known' /\ intact'
    <2>1. known'
        BY NextKnown DEF StoreInv
    <2> QED BY <1>0, <2>1, NextType, NextOwned DEF StoreInv
<1>2. CASE mksfs_fresh \/ mksfs_old
    <2>1. \A i \in Inodes : inode_table'[i] = EmptyInode
        BY <1>2 DEF mksfs_fresh, mksfs_old, OverwrittenReadBack, StoreInv
    <2>2. up' /\ MAX_BLOCK' = NUM_BLOCKS
        BY <1>2 DEF mksfs_fresh, mksfs_old, StoreInv
    <2> QED BY <1>1, <2>1, <2>2, EmptyTidy, StoreNext
<1>3. CASE \E n \in AnyName : sfs_fopen(n)
    <2> PICK n \in AnyName : sfs_fopen(n)
        BY <1>3
    <2>1. up' = up /\ MAX_BLOCK' = MAX_BLOCK
        <3>1. up' = up
            <4>1. \A s \in Inodes : rootDir[s].num \in Inodes
                BY DEF StoreInv, DirInv
            <4> QED BY <4>1, OpenKeeps
        <3> QED BY <3>1 DEF sfs_fopen, OpenOld, OpenNew, Refuse, blocks
    <2> QED BY <1>1, <2>1, OpenTidy, StoreNext DEF StoreInv
<1>4. CASE \E i \in Inodes : sfs_fclose(i)
    <2> PICK i \in Inodes : sfs_fclose(i)
        BY <1>4
    <2>1. up' = up /\ MAX_BLOCK' = MAX_BLOCK
        BY DEF sfs_fclose, Refuse, blocks
    <2> QED BY <1>1, <2>1, CloseTidy, StoreNext DEF StoreInv
<1>5. CASE \E i \in Inodes, buf \in Buf : sfs_fwrite(i, buf)
    BY <1>1, <1>5, WriteKeeps, StoreNext DEF StoreInv
<1>6. CASE \E i \in Inodes, length \in ReadLen : sfs_fread(i, length)
    <2> PICK i \in Inodes, length \in ReadLen : sfs_fread(i, length)
        BY <1>6
    <2>1. up' /\ inode_table' = inode_table /\ MAX_BLOCK' = MAX_BLOCK
        BY ReadCases DEF sfs_fread, Refuse, tables, blocks
    <2> QED BY <1>1, <2>1, SameTidy, StoreNext DEF StoreInv
<1>7. CASE \E n \in Name : sfs_getfilesize(n)
    <2> PICK n \in Name : sfs_getfilesize(n)
        BY <1>7
    <2>1. inode_table' = inode_table /\ MAX_BLOCK' = MAX_BLOCK
        BY DEF sfs_getfilesize, tables, blocks
    <2>2. up' = up
        <3>1. SlotsNamed(n) # {} => rootDir[First(SlotsNamed(n))].num \in Inodes
            BY FoundSlot DEF StoreInv, DirInv, SlotsNamed
        <3> QED BY <3>1 DEF sfs_getfilesize
    <2> QED BY <1>1, <2>1, <2>2, SameTidy, StoreNext DEF StoreInv
<1>8. CASE \/ sfs_getnextfilename
           \/ \E n \in Name : sfs_remove(n)
           \/ \E i \in Inodes, loc \in SeekTo : sfs_fseek(i, loc)
           \/ UNCHANGED vars
    <2>1. up' = up /\ inode_table' = inode_table /\ MAX_BLOCK' = MAX_BLOCK
        BY <1>8 DEF sfs_getnextfilename, sfs_remove, sfs_fseek, vars, tables, blocks
    <2> QED BY <1>1, <2>1, SameTidy, StoreNext DEF StoreInv
<1>9. ~sfs_unknown
    BY DEF sfs_unknown, StoreInv
<1> QED BY <1>2, <1>3, <1>4, <1>5, <1>6, <1>7, <1>8, <1>9 DEF Next

LEMMA StoreStep ==
    ASSUME Direct
    PROVE  StoreInv /\ [Next]_vars /\ [ComesBack]_vars => StoreInv'
BY StoreKeeps, DirStep DEF StoreInv

LEMMA StoreInit == Init => StoreInv
<1> SUFFICES ASSUME Init PROVE StoreInv
    OBVIOUS
<1>1. inode_table = [i \in Inodes |-> EmptyInode]
    BY DEF Init
<1>2. OneOwner
    BY <1>1, EmptyOwned
<1>3. \A i \in Inodes : Tidy(inode_table[i], 0)
    BY <1>1, EmptyTidy
<1> QED BY <1>2, <1>3, InitType, DirInit DEF StoreInv, Init

(* Files within their direct pointers: each owns the blocks before its     *)
(* first zero pointer, which hold all its words.                           *)
THEOREM FilesStayTidy ==
    ASSUME Direct PROVE Spec /\ DirectoryComesBack => []StoreInv
<1>1. StoreInv /\ [Next]_vars /\ [ComesBack]_vars => StoreInv'
    BY StoreStep
<1> QED BY <1>1, StoreInit, PTL DEF Spec, DirectoryComesBack

-----------------------------------------------------------------------------
(* The store of files, as FileStore sees it.                               *)

Names    == [i \in Inodes |-> FileName(i)]
Contents == [i \in Inodes |-> Content(i)]
Opens    == [i \in Inodes |-> inode_table[i].mode = Opened]

(* What it takes to see a store of files.                                  *)
Viewable == TypeOK /\ DirInv

LEMMA StoreViewable == (StoreInv => Viewable) /\ (StoreInv' => Viewable')
BY DEF StoreInv, Viewable

LEMMA ContentType ==
    ASSUME TypeOK, NEW i \in Inodes
    PROVE  /\ inode_table[i].size \in Nat /\ Len(Content(i)) = inode_table[i].size
           /\ Content(i) \in Seq(Word)
<1>1. inode_table[i].size \in Nat
    BY DEF TypeOK, inode_t
<1>2. ASSUME NEW k \in 1 .. inode_table[i].size, NEW blk
      PROVE  ReadWord(blk, k - 1) \in Word
    <2>1. k - 1 \in Nat
        BY <1>1
    <2>2. (k - 1) % BLOCK_SIZE \in Offsets /\ Reachable \subseteq DataBlocks
        BY <2>1, DivMod DEF Reachable
    <2> QED BY <2>2 DEF ReadWord, TypeOK, Word
<1>3. Content(i) \in [1 .. inode_table[i].size -> Word]
    BY <1>2 DEF Content
<1> QED BY <1>1, <1>3

LEMMA ContentTypeNext ==
    TypeOK' => \A i \in Inodes : /\ inode_table'[i].size \in Nat
                                 /\ Len(Content(i)') = inode_table'[i].size
                                 /\ Content(i)' \in Seq(Word)
<1>1. TypeOK => \A i \in Inodes : /\ inode_table[i].size \in Nat
                                  /\ Len(Content(i)) = inode_table[i].size
                                  /\ Content(i) \in Seq(Word)
    BY ContentType
<1>2. (TypeOK => \A i \in Inodes : /\ inode_table[i].size \in Nat
                                   /\ Len(Content(i)) = inode_table[i].size
                                   /\ Content(i) \in Seq(Word))'
    BY <1>1, PTL
<1> QED BY <1>2 DEF Inodes, Word

LEMMA Seen ==
    ASSUME Viewable, NEW i \in Inodes
    PROVE  /\ Names[i] = rootDir[i].name
           /\ Contents[i] = Content(i)
           /\ Opens[i] = (inode_table[i].mode = Opened)
           /\ inode_table[i].size \in Nat /\ Len(Contents[i]) = inode_table[i].size
           /\ Contents[i] \in Seq(Word)
BY NameIs, ContentType DEF Viewable, Names, Contents, Opens

LEMMA SeenNext ==
    ASSUME Viewable', NEW i \in Inodes
    PROVE  /\ Names'[i] = rootDir'[i].name
           /\ Contents'[i] = Content(i)'
           /\ Opens'[i] = (inode_table'[i].mode = Opened)
           /\ inode_table'[i].size \in Nat /\ Len(Contents'[i]) = inode_table'[i].size
           /\ Contents'[i] \in Seq(Word)
<1>1. Names'[i] = rootDir'[i].name
    BY NameIsNext DEF Viewable, Names, Inodes
<1>2. Contents'[i] = Content(i)'
    BY DEF Contents, Inodes
<1>3. Opens'[i] = (inode_table'[i].mode = Opened)
    BY DEF Opens, Inodes
<1> QED BY <1>1, <1>2, <1>3, ContentTypeNext DEF Viewable

LEMMA View ==
    ASSUME StoreInv, NEW i \in Inodes
    PROVE  /\ Names[i] = rootDir[i].name
           /\ Contents[i] = WordsOf(inode_table[i], disk)
           /\ Opens[i] = (inode_table[i].mode = Opened)
           /\ inode_table[i].size \in Nat /\ Len(Contents[i]) = inode_table[i].size
           /\ Contents[i] \in Seq(Word)
BY Seen, StoreViewable, ContentIs

LEMMA ViewNext ==
    ASSUME StoreInv', NEW i \in Inodes
    PROVE  /\ Names'[i] = rootDir'[i].name
           /\ Contents'[i] = WordsOf(inode_table'[i], disk')
           /\ Opens'[i] = (inode_table'[i].mode = Opened)
           /\ inode_table'[i].size \in Nat /\ Len(Contents'[i]) = inode_table'[i].size
BY SeenNext, StoreViewable, ContentIsNext

LEMMA ViewDomains ==
    /\ Names = [i \in Inodes |-> Names[i]] /\ Names' = [i \in Inodes |-> Names'[i]]
    /\ Contents = [i \in Inodes |-> Contents[i]] /\ Contents' = [i \in Inodes |-> Contents'[i]]
    /\ Opens = [i \in Inodes |-> Opens[i]] /\ Opens' = [i \in Inodes |-> Opens'[i]]
BY DEF Names, Contents, Opens, Inodes

(* What a step shows when it keeps every name, or word, or mode.           *)
LEMMA SameNames ==
    ASSUME Viewable, Viewable', \A i \in Inodes : rootDir'[i].name = rootDir[i].name
    PROVE  Names' = Names
<1>1. \A i \in Inodes : Names'[i] = Names[i]
    BY Seen, SeenNext
<1> QED BY <1>1, ViewDomains

(* The words of a file are those its inode and its blocks lead to.         *)
SameBlocks(i) ==
    /\ disk' = disk /\ MAX_BLOCK' = MAX_BLOCK
    /\ inode_table'[i].size = inode_table[i].size
    /\ inode_table'[i].data_ptrs = inode_table[i].data_ptrs
    /\ inode_table'[i].indirectPointer = inode_table[i].indirectPointer

LEMMA SameContent ==
    ASSUME NEW i \in Inodes, SameBlocks(i)
    PROVE  Content(i)' = Content(i)
<1>1. Reachable' = Reachable /\ numIndPtrs(i)' = numIndPtrs(i)
          /\ HasIndirect(i)' = HasIndirect(i) /\ DirectInUse(i)' = DirectInUse(i)
    BY DEF SameBlocks, Reachable, DataBlocks, numIndPtrs, HasIndirect, DirectInUse, DIRECT_SIZE
<1>2. ASSUME NEW q PROVE FileBlock(i, q)' = FileBlock(i, q)
    BY <1>1 DEF FileBlock, Loaded, SameBlocks
<1>3. ASSUME NEW blk, NEW p PROVE ReadWord(blk, p)' = ReadWord(blk, p)
    BY <1>1 DEF ReadWord, SameBlocks
<1> QED BY <1>2, <1>3 DEF Content, SameBlocks

LEMMA SameContents ==
    ASSUME \A i \in Inodes : SameBlocks(i)
    PROVE  Contents' = Contents
BY SameContent DEF Contents, Inodes

LEMMA SameOpens ==
    ASSUME Viewable, Viewable',
           \A i \in Inodes : inode_table'[i].mode = inode_table[i].mode
    PROVE  Opens' = Opens
<1>1. \A i \in Inodes : Opens'[i] = Opens[i]
    BY Seen, SeenNext
<1> QED BY <1>1, ViewDomains

LEMMA SameView ==
    ASSUME Viewable, Viewable', UNCHANGED <<inode_table, rootDir, disk, MAX_BLOCK>>
    PROVE  UNCHANGED <<Names, Contents, Opens>>
<1>1. \A i \in Inodes : SameBlocks(i)
    BY DEF SameBlocks
<1> QED BY <1>1, SameNames, SameContents, SameOpens

(* A step that changes the mode of one inode.                              *)
LEMMA ModeView ==
    ASSUME Viewable, Viewable', NEW i \in Inodes, NEW c, UNCHANGED <<disk, MAX_BLOCK>>,
           inode_table' = [inode_table EXCEPT ![i].mode = c]
    PROVE  /\ Contents' = Contents
           /\ Opens' = [Opens EXCEPT ![i] = (c = Opened)]
<1>1. \A j \in Inodes : /\ inode_table'[j].size = inode_table[j].size
                        /\ inode_table'[j].data_ptrs = inode_table[j].data_ptrs
                        /\ inode_table'[j].indirectPointer = inode_table[j].indirectPointer
                        /\ inode_table'[j].mode = IF j = i THEN c ELSE inode_table[j].mode
    BY DEF Viewable, TypeOK, inode_t
<1>2. Contents' = Contents
    BY <1>1, SameContents DEF SameBlocks
<1>3. \A j \in Inodes : Opens'[j] = IF j = i THEN (c = Opened) ELSE Opens[j]
    BY <1>1, Seen, SeenNext
<1>4. Opens' = [Opens EXCEPT ![i] = (c = Opened)]
    BY <1>3, ViewDomains
<1> QED BY <1>2, <1>4

-----------------------------------------------------------------------------
(* Every call is a step of the store.                                      *)

LEMMA FormatStep ==
    ASSUME Viewable, Viewable', intact, ComesBack, mksfs_fresh \/ mksfs_old
    PROVE  FS!Format
<1>1. \A i \in Inodes : inode_table'[i] = EmptyInode
    BY DEF mksfs_fresh, mksfs_old, OverwrittenReadBack
<1>2. \A s \in Inodes : rootDir'[s].name = NoName
    BY EmptyDirInv DEF mksfs_fresh, ComesBack
<1>3. EmptyInode.size = 0 /\ EmptyInode.mode # Opened
    BY DEF EmptyInode, Opened, Closed
<1>4. ASSUME NEW i \in Inodes
      PROVE  Names'[i] = NoName /\ Contents'[i] = <<>> /\ Opens'[i] = FALSE
    <2>1. Names'[i] = NoName
        BY <1>2, SeenNext
    <2>2. Contents'[i] = <<>>
        <3>1. inode_table'[i].size = 0
            BY <1>1, <1>3
        <3>2. Len(Contents'[i]) = 0 /\ Contents'[i] \in Seq(Word)
            BY <3>1, SeenNext
        <3> QED BY <3>2, EmptySeq
    <2>3. Opens'[i] = FALSE
        <3>1. (inode_table'[i].mode = Opened) = FALSE
            BY <1>1, <1>3
        <3>2. Opens'[i] = (inode_table'[i].mode = Opened)
            BY SeenNext
        <3> QED BY <3>1, <3>2
    <2> QED BY <2>1, <2>2, <2>3
<1>5. /\ Names' = [i \in Inodes |-> NoName]
      /\ Contents' = [i \in Inodes |-> <<>>]
      /\ Opens' = [i \in Inodes |-> FALSE]
    BY <1>4, ViewDomains
<1>6. /\ fd_table' = fd_table \/ fd_table' = [i \in Inodes |-> 0]
      /\ Reply(0, <<>>)
    BY DEF mksfs_fresh, mksfs_old
<1> QED BY <1>5, <1>6 DEF FS!Format, FS!Reply, Reply, Names, Contents, Opens

LEMMA RefuseStep ==
    ASSUME Viewable, Viewable', Reply(-1, <<>>),
           UNCHANGED <<inode_table, rootDir, disk, MAX_BLOCK, fd_table>>
    PROVE  FS!Refuse
<1>1. UNCHANGED <<Names, Contents, Opens>>
    BY SameView
<1> QED BY <1>1 DEF FS!Refuse, FS!Reply, Reply, Names, Contents, Opens

LEMMA CloseStep ==
    ASSUME Viewable, Viewable', NEW i \in Inodes, sfs_fclose(i)
    PROVE  FS!Close(i)
<1>1. CASE Refuse /\ inode_table[i].mode = Closed
    <2>1. ~Opens[i]
        <3>1. (inode_table[i].mode = Opened) = FALSE
            BY <1>1 DEF Opened, Closed
        <3> QED BY <3>1, Seen
    <2>2. FS!Refuse
        BY <1>1, RefuseStep DEF Refuse, tables, blocks
    <2> QED BY <2>1, <2>2 DEF FS!Close, Opens
<1>2. CASE /\ inode_table[i].mode # Closed
           /\ inode_table' = [inode_table EXCEPT ![i].mode = Closed]
           /\ Reply(0, <<>>) /\ UNCHANGED <<fd_table, rootDir, disk, MAX_BLOCK>>
    <2>1. /\ Contents' = Contents /\ Names' = Names
          /\ Opens' = [Opens EXCEPT ![i] = FALSE]
        <3>1. (Closed = Opened) = FALSE
            BY DEF Closed, Opened
        <3> QED BY <1>2, <3>1, ModeView, SameNames
    <2>2. Opens[i]
        BY <1>2, Seen DEF Viewable, TypeOK, inode_t
    <2> QED BY <1>2, <2>1, <2>2 DEF FS!Close, FS!Reply, Reply, Names, Contents, Opens
<1> QED BY <1>1, <1>2 DEF sfs_fclose, blocks

LEMMA SeekStep ==
    ASSUME Viewable, Viewable', NEW i \in Inodes, NEW loc \in SeekTo, sfs_fseek(i, loc)
    PROVE  FS!Seek(i, loc)
<1>1. UNCHANGED <<Names, Contents, Opens>>
    BY SameView DEF sfs_fseek, blocks
<1>2. fd_table' = [fd_table EXCEPT ![i] = loc] /\ Reply(0, <<>>)
    BY DEF sfs_fseek
<1> QED BY <1>1, <1>2 DEF FS!Seek, FS!Reply, Reply, Names, Contents, Opens

LEMMA ListStep ==
    ASSUME Viewable, Viewable', sfs_getnextfilename
    PROVE  FS!List
<1> DEFINE p == IF rootDir_ptr = NumInodes - 1 THEN -1 ELSE rootDir_ptr
           fname == IF p = -1 THEN Unspec ELSE rootDir[p].name
<1>1. UNCHANGED <<Names, Contents, Opens>>
    BY SameView DEF sfs_getnextfilename, blocks
<1>2. ret'.val \in Nat /\ UNCHANGED fd_table
    BY SizeAssumption DEF sfs_getnextfilename, Reply, Viewable, TypeOK
<1>3. ret'.data = <<fname>>
    BY DEF sfs_getnextfilename, Reply
<1>4. fname \in {Unspec} \cup {Names[i] : i \in Inodes}
    <2>1. CASE p = -1
        BY <2>1
    <2>2. CASE p # -1
        <3>1. p \in Inodes
            BY <2>2, SizeAssumption DEF Viewable, TypeOK, Inodes
        <3> HIDE DEF p
        <3>2. fname = Names[p]
            BY <2>2, <3>1, Seen
        <3> QED BY <3>1, <3>2
    <2> QED BY <2>1, <2>2
<1> HIDE DEF fname
<1> QED BY <1>1, <1>2, <1>3, <1>4 DEF FS!List, Names, Contents, Opens

(* The slot a name is found in has the number of its inode.                *)
LEMMA NamedSlot ==
    ASSUME Viewable, NEW n, SlotsNamed(n) # {}
    PROVE  /\ First(SlotsNamed(n)) \in Inodes
           /\ rootDir[First(SlotsNamed(n))].num = First(SlotsNamed(n))
           /\ Names[First(SlotsNamed(n))] = n
<1> DEFINE s == First(SlotsNamed(n))
<1>1. s \in SlotsNamed(n)
    BY FirstLemma DEF SlotsNamed, Inodes
<1> HIDE DEF s
<1>2. s \in Inodes /\ rootDir[s].name = n
    BY <1>1 DEF SlotsNamed
<1>3. rootDir[s].num = s /\ Names[s] = rootDir[s].name
    BY <1>2, Seen DEF Viewable, DirInv
<1> QED BY <1>2, <1>3 DEF s

LEMMA SizeStep ==
    ASSUME Viewable, Viewable', NEW n \in Name, sfs_getfilesize(n)
    PROVE  FS!Size(n)
<1>0. UNCHANGED <<Names, Contents, Opens>> /\ UNCHANGED <<inode_table, rootDir, disk, MAX_BLOCK, fd_table>>
    BY SameView DEF sfs_getfilesize, tables, blocks
<1>1. CASE SlotsNamed(n) = {} /\ Reply(-1, <<>>)
    <2>1. \A i \in Inodes : Names[i] # n
        BY <1>1, Seen DEF SlotsNamed
    <2>2. FS!Refuse
        BY <1>0, <1>1, RefuseStep
    <2> QED BY <2>1, <2>2 DEF FS!Size, Names
<1>2. CASE SlotsNamed(n) # {}
    <2> DEFINE i == First(SlotsNamed(n))
    <2>1. i \in Inodes /\ rootDir[i].num = i /\ Names[i] = n
        BY <1>2, NamedSlot
    <2>2. Reply(inode_table[i].size, <<>>)
        BY <1>2, <2>1 DEF sfs_getfilesize
    <2> HIDE DEF i
    <2>3. Reply(Len(Contents[i]), <<>>)
        BY <2>1, <2>2, Seen
    <2> QED BY <1>0, <2>1, <2>3 DEF FS!Size, FS!Reply, Reply, Names, Contents, Opens
<1> QED BY <1>1, <1>2 DEF sfs_getfilesize

LEMMA OpenStep ==
    ASSUME Viewable, Viewable', NEW n \in AnyName, sfs_fopen(n)
    PROVE  FS!Open(n)
<1>1. CASE Refuse /\ (n \notin Name \/ Candidates(n) = {})
    <2>1. ASSUME n \in Name PROVE \A h \in Inodes : Names[h] \notin {n, NoName}
        BY <1>1, <2>1, Seen DEF Candidates, SlotsNamed, EmptySlots
    <2>2. FS!Refuse
        BY <1>1, RefuseStep DEF Refuse, tables, blocks
    <2> QED BY <2>1, <2>2 DEF FS!Open, Names
<1>2. ASSUME NEW s \in Inodes, NEW i \in Inodes, OpenedOld(n, s, i) PROVE FS!Open(n)
    <2>0. n \in Name /\ Names[i] = n /\ OpenOld(i)
        BY <1>2, Seen DEF OpenedOld, SlotsNamed, Viewable, DirInv
    <2>1. /\ inode_table' = [inode_table EXCEPT ![i].mode = Opened]
          /\ disk' = disk /\ MAX_BLOCK' = MAX_BLOCK /\ rootDir' = rootDir
          /\ Reply(i, <<>>)
        BY <2>0 DEF OpenOld, blocks
    <2>2. Contents' = Contents /\ Opens' = [Opens EXCEPT ![i] = TRUE] /\ Names' = Names
        <3>1. (Opened = Opened) = TRUE
            OBVIOUS
        <3> QED BY <2>1, <3>1, ModeView, SameNames
    <2>3. fd_table' = [fd_table EXCEPT ![i] = Len(Contents[i])]
        BY <2>0, Seen DEF OpenOld
    <2>4. FS!OpenAtEnd(n)
        BY <2>0, <2>1, <2>2, <2>3 DEF FS!OpenAtEnd, FS!Reply, Reply, Names, Contents, Opens
    <2> QED BY <2>0, <2>4 DEF FS!Open
<1>3. ASSUME NEW i \in Inodes, OpenedNew(n, i, i) PROVE FS!Open(n)
    <2>2. i \in Inodes /\ rootDir[i].name = NoName /\ rootDir[i].num = i
        BY <1>3 DEF OpenedNew, EmptySlots, Viewable, DirInv
    <2>3. /\ rootDir' = [rootDir EXCEPT ![i].name = n]
          /\ inode_table' = [inode_table EXCEPT ![i].size = 0, ![i].mode = Opened]
          /\ Reply(i, <<>>) /\ UNCHANGED <<disk, MAX_BLOCK, fd_table>>
        BY <1>3, <2>2 DEF OpenedNew, OpenNew, blocks
    <2>4. \A j \in Inodes : /\ rootDir'[j].name = IF j = i THEN n ELSE rootDir[j].name
                            /\ j = i => /\ inode_table'[j].size = 0
                                        /\ (inode_table'[j].mode = Opened) = TRUE
                            /\ j # i => inode_table'[j] = inode_table[j]
        BY <2>2, <2>3 DEF Viewable, TypeOK, inode_t, directory_entry
    <2>5. Names' = [Names EXCEPT ![i] = n]
        <3>1. \A j \in Inodes : Names'[j] = IF j = i THEN n ELSE Names[j]
            BY <2>4, Seen, SeenNext
        <3> QED BY <3>1, ViewDomains
    <2>6. Contents' = [Contents EXCEPT ![i] = <<>>]
        <3>1. \A j \in Inodes : Contents'[j] = IF j = i THEN <<>> ELSE Contents[j]
            <4> TAKE j \in Inodes
            <4>1. CASE j = i
                <5>1. Len(Contents'[j]) = 0 /\ Contents'[j] \in Seq(Word)
                    BY <2>4, <4>1, SeenNext
                <5> QED BY <4>1, <5>1, EmptySeq
            <4>2. CASE j # i
                <5>1. SameBlocks(j)
                    BY <2>3, <2>4, <4>2 DEF SameBlocks
                <5> QED BY <4>2, <5>1, Seen, SeenNext, SameContent
            <4> QED BY <4>1, <4>2
        <3> QED BY <3>1, ViewDomains
    <2>7. Opens' = [Opens EXCEPT ![i] = TRUE]
        <3>1. \A j \in Inodes : Opens'[j] = IF j = i THEN TRUE ELSE Opens[j]
            <4> TAKE j \in Inodes
            <4>1. Opens'[j] = (inode_table'[j].mode = Opened)
                      /\ Opens[j] = (inode_table[j].mode = Opened)
                BY Seen, SeenNext
            <4>2. CASE j = i
                BY <2>4, <4>1, <4>2
            <4>3. CASE j # i
                BY <2>4, <4>1, <4>3
            <4> QED BY <4>2, <4>3
        <3> QED BY <3>1, ViewDomains
    <2>8. Names[i] = NoName /\ \A g \in Inodes : Names[g] # n
        BY <1>3, <2>2, Seen DEF OpenedNew, SlotsNamed
    <2>9. FS!Create(n)
        BY <2>2, <2>3, <2>5, <2>6, <2>7, <2>8
        DEF FS!Create, FS!Reply, Reply, Names, Contents, Opens
    <2> QED BY <1>3, <2>9 DEF OpenedNew, FS!Open
<1>4. ASSUME NEW s \in Inodes, NEW i \in Inodes, OpenedNew(n, s, i) PROVE s = i
    BY <1>4 DEF OpenedNew, Viewable, DirInv
<1>5. ~ \E s \in Inodes : rootDir[s].num \notin Inodes
    BY DEF Viewable, DirInv
<1>6. CASE Refused(n)
    BY <1>1, <1>6 DEF Refused
<1> QED BY <1>2, <1>3, <1>4, <1>5, <1>6, OpenSplit

(* A word of a file is the word sfs_fread finds at its place.              *)
LEMMA WordRead ==
    ASSUME StoreInv, NEW i \in Inodes, NEW t \in Nat, t < inode_table[i].size, NEW blk,
           blk[t \div BLOCK_SIZE] = Place(inode_table[i], t)
    PROVE  ReadWord(blk, t) = WordsOf(inode_table[i], disk)[t + 1]
<1> DEFINE ino == inode_table[i]
<1>1. PICK m : Tidy(ino, m)
    BY DEF StoreInv
<1>2. ino.size \in Nat /\ ino.size <= m * BLOCK_SIZE /\ m * BLOCK_SIZE \in Nat
    BY <1>1, SizeAssumption DEF Tidy, inode_t
<1>3. Place(ino, t) \in DataBlocks
    <2>1. t < m * BLOCK_SIZE
        BY <1>2
    <2> QED BY <1>1, <2>1, PlaceLemma
<1>4. ReadWord(blk, t) = disk[Place(ino, t)][t % BLOCK_SIZE]
    <2>1. Reachable = DataBlocks
        BY AllReachable DEF StoreInv
    <2> HIDE DEF ino
    <2> QED BY <1>3, <2>1 DEF ReadWord, ino
<1>5. t + 1 \in 1 .. ino.size /\ t + 1 - 1 = t
    BY <1>2
<1>6. disk \in Disks
    BY DEF StoreInv, TypeOK, Disks
<1>7. WordsOf(ino, disk)[t + 1] = disk[Place(ino, t + 1 - 1)][(t + 1 - 1) % BLOCK_SIZE]
    BY <1>1, <1>5, <1>6, WordsAreWords
<1> QED BY <1>4, <1>5, <1>7

(* The blocks that a transfer of the words p .. e-1 touches.               *)
LEMMA TouchedBy ==
    ASSUME NEW p \in Nat, NEW e \in Nat, NEW r \in p .. e - 1
    PROVE  r \div BLOCK_SIZE \in Touched(p, e)
<1>1. r \in Nat /\ p <= r /\ r <= e - 1 /\ p < e /\ e - 1 \in Nat
    OBVIOUS
<1>2. /\ r \div BLOCK_SIZE \in Nat
      /\ p \div BLOCK_SIZE <= r \div BLOCK_SIZE
      /\ r \div BLOCK_SIZE <= (e - 1) \div BLOCK_SIZE
      /\ p \div BLOCK_SIZE \in Nat /\ (e - 1) \div BLOCK_SIZE \in Nat
    BY <1>1, BlockOrder, DivMod
<1>3. Touched(p, e) = p \div BLOCK_SIZE .. (e - 1) \div BLOCK_SIZE
    BY <1>1 DEF Touched
<1> QED BY <1>1, <1>2, <1>3

LEMMA TouchedBelow ==
    ASSUME NEW p \in Nat, NEW e \in Nat, NEW m \in Nat, e <= m * BLOCK_SIZE,
           NEW q \in Touched(p, e)
    PROVE  q \in 0 .. m - 1
<1>1. p < e /\ q \in p \div BLOCK_SIZE .. (e - 1) \div BLOCK_SIZE
    BY DEF Touched
<1>2. e - 1 \in Nat /\ p \div BLOCK_SIZE \in Nat /\ (e - 1) \div BLOCK_SIZE \in Nat
    BY <1>1, DivMod
<1>3. (e - 1) \div BLOCK_SIZE < m
    <2>1. e - 1 < m * BLOCK_SIZE
        <3>1. m * BLOCK_SIZE \in Nat
            BY SizeAssumption
        <3> QED BY <1>2, <3>1
    <2> QED BY <1>2, <2>1, BlockBelow
<1> QED BY <1>1, <1>2, <1>3

(* What sfs_fread has in blockNums: the pointers of its inode.             *)
LoadedForRead(i, p, e) == [q \in Touched(p, e) |-> Loaded(i, q, numIndPtrs(i))]

LEMMA ReadBlocks ==
    ASSUME StoreInv, NEW i \in Inodes, NEW p \in Nat, NEW e \in Nat,
           e <= inode_table[i].size, NEW blk \in blockNums(LoadedForRead(i, p, e))
    PROVE  Finds(blk, inode_table[i], p, e)
<1> DEFINE load == LoadedForRead(i, p, e)
           ino == inode_table[i]
<1>1. PICK m : Tidy(ino, m)
    BY DEF StoreInv
<1>2. ino.size \in Nat /\ ino.size <= m * BLOCK_SIZE /\ m * BLOCK_SIZE \in Nat
          /\ m \in Nat /\ m <= NDIRECT /\ NDIRECT \in Nat
    BY <1>1, SizeAssumption DEF Tidy, inode_t
<1>3. ASSUME NEW q \in Touched(p, e)
      PROVE  q \in 0 .. NDIRECT - 1 /\ q < m
    <2>1. e <= m * BLOCK_SIZE
        BY <1>2
    <2>2. q \in 0 .. m - 1
        BY <1>2, <2>1, TouchedBelow
    <2> QED BY <1>2, <2>2
<1>4. ASSUME NEW q \in Touched(p, e)
      PROVE  load[q] = ino.data_ptrs[q] /\ load[q] # Unspec
    <2>1. q \in 0 .. NDIRECT - 1 /\ q < m
        BY <1>3
    <2>2. load[q] = Loaded(i, q, numIndPtrs(i))
        BY DEF LoadedForRead
    <2>3. load[q] = ino.data_ptrs[q]
        BY <1>1, <2>1, <2>2, TidyLoaded
    <2>4. ino.data_ptrs[q] \in DataBlocks
        BY <1>1, <2>1 DEF Tidy
    <2> QED BY <2>3, <2>4, NameAssumption, SizeAssumption DEF DataBlocks
<1>5. \A q \in Touched(p, e) : blk[q] = ino.data_ptrs[q]
    <2>1. DOMAIN load = Touched(p, e)
        BY DEF LoadedForRead
    <2> HIDE DEF load, ino
    <2>2. blk \in blockNums(load)
        BY DEF load
    <2>3. \A q \in DOMAIN load : blk[q] = load[q]
        BY <1>4, <2>1, <2>2, NoJunk
    <2> QED BY <1>4, <2>1, <2>3
<1> QED BY <1>5, TouchedBy DEF Finds, Place

(* A read that is not refused brings the words from the position on.       *)
ReadBrings(i, length) ==
    /\ inode_table[i].mode # Closed /\ fd_table[i] + length <= inode_table[i].size
    /\ fd_table' = [fd_table EXCEPT ![i] = fd_table[i] + length]
    /\ UNCHANGED <<inode_table, rootDir, disk, MAX_BLOCK>>
    /\ Reply(length, [k \in 1 .. length |-> Contents[i][fd_table[i] + k]])

LEMMA ReadAnswer ==
    ASSUME StoreInv, NEW i \in Inodes, NEW length \in ReadLen,
           sfs_fread(i, length)
    PROVE  \/ ReadBrings(i, length)
           \/ /\ Refuse
              /\ inode_table[i].mode = Closed \/ inode_table[i].size < fd_table[i] + length
<1> DEFINE p == fd_table[i]
           e == p + length
           C == Contents[i]
<1>1. CASE Refuse /\ (inode_table[i].mode = Closed \/ inode_table[i].size < e)
    BY <1>1
<1>2. CASE ~ (Refuse /\ (inode_table[i].mode = Closed \/ inode_table[i].size < e))
    <2>1. /\ inode_table[i].mode # Closed /\ ~ (inode_table[i].size < e)
          /\ fd_table' = [fd_table EXCEPT ![i] = e]
          /\ UNCHANGED <<inode_table, rootDir, disk, MAX_BLOCK>>
        BY <1>2, ReadCases DEF sfs_fread, StoreInv, blocks
    <2>2. PICK blk \in blockNums(LoadedForRead(i, p, e)) :
              Reply(length, [k \in 1 .. length |-> ReadWord(blk, p + k - 1)])
        BY <1>2, ReadCases DEF sfs_fread, StoreInv, LoadedForRead
    <2>3. /\ p \in Nat /\ length \in Nat /\ e \in Nat /\ e - p = length
          /\ inode_table[i].size \in Nat /\ e <= inode_table[i].size
          /\ Len(C) = inode_table[i].size /\ C = WordsOf(inode_table[i], disk)
          /\ C \in Seq(Word)
        <3>1. p \in Nat /\ length \in Nat
            BY ClientAssumption DEF StoreInv, TypeOK
        <3>2. /\ inode_table[i].size \in Nat
              /\ Len(C) = inode_table[i].size /\ C = WordsOf(inode_table[i], disk)
              /\ C \in Seq(Word)
            BY View
        <3> HIDE DEF p, C
        <3> QED BY <2>1, <3>1, <3>2
    <2>4. Finds(blk, inode_table[i], p, e)
        BY <2>2, <2>3, ReadBlocks
    <2>5. ASSUME NEW k \in 1 .. length
          PROVE  ReadWord(blk, p + k - 1) = C[p + k]
        <3> DEFINE t == p + k - 1
        <3> HIDE DEF p, e, C
        <3>1. t \in Nat /\ t \in p .. e - 1 /\ t < inode_table[i].size /\ t + 1 = p + k
            <4>1. /\ p \in Nat /\ length \in Nat /\ e \in Nat /\ e - p = length
                  /\ inode_table[i].size \in Nat /\ e <= inode_table[i].size
                BY <2>3
            <4>2. k \in Nat /\ 1 <= k /\ k <= length
                BY <4>1
            <4> QED BY <4>1, <4>2
        <3>2. blk[t \div BLOCK_SIZE] = Place(inode_table[i], t)
            BY <2>4, <3>1 DEF Finds
        <3> HIDE DEF t
        <3>3. ReadWord(blk, t) = WordsOf(inode_table[i], disk)[t + 1]
            BY <3>1, <3>2, WordRead
        <3> QED BY <2>3, <3>1, <3>3 DEF t
    <2>6. Reply(length, [k \in 1 .. length |-> C[p + k]])
        <3>1. [k \in 1 .. length |-> ReadWord(blk, p + k - 1)] = [k \in 1 .. length |-> C[p + k]]
            <4> HIDE DEF p, e, C
            <4> QED BY <2>5
        <3> HIDE DEF p, e, C
        <3> QED BY <2>2, <3>1
    <2> QED BY <2>1, <2>3, <2>6 DEF ReadBrings
<1> QED BY <1>1, <1>2

LEMMA BringsStep ==
    ASSUME Viewable, Viewable', NEW i \in Inodes, NEW length \in ReadLen,
           ReadBrings(i, length)
    PROVE  FS!Read(i, length)
<1> DEFINE p == fd_table[i]
           e == p + length
           C == Contents[i]
<1>1. /\ inode_table[i].mode # Closed
      /\ fd_table' = [fd_table EXCEPT ![i] = e]
      /\ UNCHANGED <<inode_table, rootDir, disk, MAX_BLOCK>>
    BY DEF ReadBrings
<1>2. /\ p \in Nat /\ length \in Nat /\ e \in Nat /\ e - p = length
      /\ e <= Len(C) /\ C \in Seq(Word)
    <2>1. p \in Nat /\ length \in Nat
        BY ClientAssumption DEF Viewable, TypeOK
    <2>2. Len(C) = inode_table[i].size /\ C \in Seq(Word) /\ e <= inode_table[i].size
        BY Seen DEF ReadBrings
    <2> HIDE DEF p, C
    <2> QED BY <2>1, <2>2
<1>3. [k \in 1 .. length |-> C[p + k]] = SubSeq(C, p + 1, e)
    <2> DEFINE got == [k \in 1 .. length |-> C[p + k]]
    <2>1. \A k \in p + 1 .. e : C[k] \in Word
        <3> HIDE DEF p, e, C
        <3> QED BY <1>2
    <2>2. /\ SubSeq(C, p + 1, e) \in Seq(Word)
          /\ Len(SubSeq(C, p + 1, e)) = length
          /\ \A k \in 1 .. length : SubSeq(C, p + 1, e)[k] = C[p + k]
        <3> HIDE DEF p, e, C
        <3>1. p + 1 \in Int /\ e \in Int /\ e - (p + 1) + 1 = length
            BY <1>2
        <3>2. /\ SubSeq(C, p + 1, e) \in Seq(Word)
              /\ Len(SubSeq(C, p + 1, e)) = IF p + 1 <= e THEN e - (p + 1) + 1 ELSE 0
              /\ \A k \in 1 .. e - (p + 1) + 1 : SubSeq(C, p + 1, e)[k] = C[p + 1 + k - 1]
            BY <2>1, <3>1, SubSeqProperties
        <3>3. \A k \in 1 .. length : p + 1 + k - 1 = p + k
            BY <1>2
        <3>4. length = 0 <=> ~ (p + 1 <= e)
            BY <1>2
        <3> QED BY <3>1, <3>2, <3>3, <3>4
    <2>3. \A k \in 1 .. length : C[p + k] \in Word
        <3> HIDE DEF p, e, C
        <3> QED BY <1>2
    <2>4. got \in Seq(Word) /\ Len(got) = length
              /\ \A k \in 1 .. length : got[k] = C[p + k]
        <3> HIDE DEF p, e, C
        <3>1. \A k \in 1 .. length : got[k] = C[p + k]
            BY DEF got
        <3>2. got \in [1 .. length -> Word] /\ length \in Nat
            BY <1>2, <2>3
        <3> HIDE DEF got
        <3>3. got \in Seq(Word) /\ Len(got) = length
            BY <3>2
        <3> QED BY <3>1, <3>3
    <2> HIDE DEF got, p, e, C
    <2>5. got = SubSeq(C, p + 1, e)
        BY <2>2, <2>4, SeqEqual
    <2> QED BY <2>5 DEF got
<1>4. Reply(length, SubSeq(C, p + 1, e)) /\ e <= Len(C)
    BY <1>2, <1>3 DEF ReadBrings
<1>5. UNCHANGED <<Names, Contents, Opens>>
    BY <1>1, SameView
<1>6. Opens[i]
    <2>1. inode_table[i].mode = Opened
        BY <1>1 DEF Viewable, TypeOK, inode_t
    <2> QED BY <2>1, Seen
<1> QED BY <1>1, <1>4, <1>5, <1>6 DEF FS!Read, FS!Reply, Reply, Names, Contents, Opens

(* A refused read: the file is closed, or too short.                       *)
LEMMA ShortStep ==
    ASSUME Viewable, Viewable', NEW i \in Inodes, NEW length \in ReadLen,
           Reply(-1, <<>>), UNCHANGED <<inode_table, rootDir, disk, MAX_BLOCK, fd_table>>,
           inode_table[i].mode = Closed \/ inode_table[i].size < fd_table[i] + length
    PROVE  FS!Read(i, length)
<1>1. FS!Refuse
    BY RefuseStep
<1>2. ~Opens[i] \/ fd_table[i] + length > Len(Contents[i])
    <2>1. CASE inode_table[i].mode = Closed
        <3>1. (inode_table[i].mode = Opened) = FALSE
            BY <2>1 DEF Opened, Closed
        <3> QED BY <3>1, Seen
    <2>2. CASE inode_table[i].size < fd_table[i] + length
        <3>1. Len(Contents[i]) = inode_table[i].size
            BY Seen
        <3>2. inode_table[i].size \in Nat /\ fd_table[i] \in Nat /\ length \in Nat
            BY ClientAssumption DEF Viewable, TypeOK, inode_t
        <3> QED BY <2>2, <3>1, <3>2
    <2> QED BY <2>1, <2>2
<1> QED BY <1>1, <1>2 DEF FS!Read, Contents, Opens

LEMMA ReadStep ==
    ASSUME StoreInv, StoreInv', NEW i \in Inodes, NEW length \in ReadLen,
           sfs_fread(i, length)
    PROVE  FS!Read(i, length)
<1>0. Viewable /\ Viewable'
    BY StoreViewable
<1>1. CASE /\ Refuse
           /\ inode_table[i].mode = Closed \/ inode_table[i].size < fd_table[i] + length
    BY <1>0, <1>1, ShortStep DEF Refuse, tables, blocks
<1>2. CASE ReadBrings(i, length)
    BY <1>0, <1>2, BringsStep
<1> QED BY <1>1, <1>2, ReadAnswer

LEMMA WriteStep ==
    ASSUME Direct, StoreInv, StoreInv', NEW i \in Inodes, NEW buf \in Buf,
           sfs_fwrite(i, buf)
    PROVE  FS!Write(i, buf)
<1>0. Viewable /\ Viewable'
    BY StoreViewable
<1>1. CASE Refuse
    BY <1>0, <1>1, RefuseStep DEF FS!Write, Refuse, tables, blocks
<1>2. CASE sfs_fwrite_full(i, fd_table[i] + Len(buf))
    BY <1>0, <1>2, RefuseStep DEF FS!Write, sfs_fwrite_full, tables
<1>3. ASSUME inode_table[i].mode # Closed, NEW s, NEW blk,
             Writing(i, buf, fd_table[i], fd_table[i] + Len(buf), s, blk)
      PROVE  FS!WriteDone(i, buf)
    <2> DEFINE p == fd_table[i]
               e == p + Len(buf)
    <2>1. PICK m : Tidy(inode_table[i], m)
        BY DEF StoreInv
    <2>2. inode_table'[i] \in inode_t
        BY DEF StoreInv, TypeOK, Inodes
    <2>3. inode_table'[i].size = IF e > inode_table[i].size THEN e ELSE inode_table[i].size
        BY <1>3, <2>1, <2>2, WriteTidy
    <2>4. /\ \A k \in p + 1 .. e : WordsOf(inode_table'[i], disk')[k] = buf[k - p]
          /\ \A k \in 1 .. inode_table[i].size : k \notin p + 1 .. e =>
                WordsOf(inode_table'[i], disk')[k] = WordsOf(inode_table[i], disk)[k]
          /\ \A j \in Inodes \ {i} :
                WordsOf(inode_table'[j], disk') = WordsOf(inode_table[j], disk)
        BY <1>3, WriteWords
    <2>5. /\ fd_table' = [fd_table EXCEPT ![i] = e]
          /\ Reply(Len(buf), <<>>) /\ rootDir' = rootDir
        BY <1>3 DEF Writing, sfs_fwrite_using
    <2>6. /\ Contents[i] = WordsOf(inode_table[i], disk)
          /\ Len(Contents[i]) = inode_table[i].size
          /\ Contents'[i] = WordsOf(inode_table'[i], disk')
          /\ Len(Contents'[i]) = inode_table'[i].size
        BY View, ViewNext
    <2>7. /\ Len(Contents'[i]) = IF e > Len(Contents[i]) THEN e ELSE Len(Contents[i])
          /\ \A k \in p + 1 .. e : Contents'[i][k] = buf[k - p]
          /\ \A k \in 1 .. Len(Contents[i]) :
                k \notin p + 1 .. e => Contents'[i][k] = Contents[i][k]
        <3> HIDE DEF p, e
        <3> QED BY <2>3, <2>4, <2>6
    <2>8. \A j \in Inodes \ {i} : Contents'[j] = Contents[j]
        BY <2>4, View, ViewNext
    <2>9. Names' = Names
        BY <1>0, <2>5, SameNames
    <2>10. \A j \in Inodes : inode_table'[j].mode = inode_table[j].mode
        <3>1. \A j \in Inodes \ {i} : inode_table'[j] = inode_table[j]
            BY <1>3, <2>1, <2>2, WriteTidy
        <3>2. inode_table'[i].mode = inode_table[i].mode
            BY <1>3 DEF Writing, sfs_fwrite_using, StoreInv, TypeOK, inode_t
        <3> QED BY <3>1, <3>2
    <2>11. Opens' = Opens
        BY <1>0, <2>10, SameOpens
    <2>12. Opens[i]
        <3>1. inode_table[i].mode = Opened
            BY <1>3 DEF StoreInv, TypeOK, inode_t
        <3> QED BY <3>1, View
    <2> QED BY <2>5, <2>7, <2>8, <2>9, <2>11, <2>12
            DEF FS!WriteDone, FS!Reply, Reply, Names, Contents, Opens
<1> QED BY <1>1, <1>2, <1>3, WriteCases DEF FS!Write

(* A write that is refused leaves the words of the file as they were; its  *)
(* file was closed, it would not fit, or the disk is full.                 *)
LEMMA WriteRefused ==
    ASSUME Direct, StoreInv, StoreInv', NEW i \in Inodes, NEW buf \in Buf,
           sfs_fwrite(i, buf), ret'.val = -1
    PROVE  /\ Contents'[i] = Contents[i]
           /\ \/ inode_table[i].mode = Closed
              \/ fd_table[i] + Len(buf) > MAX_FILE
              \/ free_bit_map' = {}
<1> DEFINE e == fd_table[i] + Len(buf)
<1>1. ~sfs_fwrite_done(i, buf)
    <2> SUFFICES ASSUME sfs_fwrite_done(i, buf) PROVE FALSE
        OBVIOUS
    <2>1. Reply(Len(buf), <<>>)
        BY DEF sfs_fwrite_done, sfs_fwrite_using
    <2>2. Len(buf) \in Nat
        BY ClientAssumption
    <2> QED BY <2>1, <2>2 DEF Reply
<1>2. ~WrapsAround(i)
    BY TidyInUse DEF StoreInv, WrapsAround
<1>3. CASE Refuse /\ (e > MAX_FILE \/ inode_table[i].mode = Closed)
    <2>1. Contents' = Contents
        BY <1>3, SameContents DEF Refuse, tables, blocks, SameBlocks
    <2> QED BY <1>3, <2>1
<1>4. CASE sfs_fwrite_full(i, e)
    <2>1. Contents' = Contents
        BY <1>4, SameContents DEF sfs_fwrite_full, tables, SameBlocks
    <2> QED BY <1>4, <2>1 DEF sfs_fwrite_full
<1> QED BY <1>1, <1>2, <1>3, <1>4 DEF sfs_fwrite

(* Each call does what FileStore promises for its arguments.               *)
LEMMA StoreCalls ==
    ASSUME Direct, StoreInv, StoreInv', ComesBack
    PROVE  AsCalled
<1>0. Viewable /\ Viewable' /\ intact
    BY StoreViewable DEF StoreInv
<1>1. mksfs_fresh \/ mksfs_old => FS!Format
    BY <1>0, FormatStep
<1>2. sfs_getnextfilename => FS!List
    BY <1>0, ListStep
<1>3. \A n \in AnyName : sfs_fopen(n) => FS!Open(n)
    BY <1>0, OpenStep
<1>4. \A n \in Name : sfs_getfilesize(n) => FS!Size(n)
    BY <1>0, SizeStep
<1>5. \A i \in Inodes : sfs_fclose(i) => FS!Close(i)
    BY <1>0, CloseStep
<1>6. \A i \in Inodes, loc \in SeekTo : sfs_fseek(i, loc) => FS!Seek(i, loc)
    BY <1>0, SeekStep
<1>7. \A i \in Inodes, length \in ReadLen : sfs_fread(i, length) => FS!Read(i, length)
    BY ReadStep
<1>8. \A i \in Inodes, buf \in Buf : sfs_fwrite(i, buf) => FS!Write(i, buf)
    BY WriteStep
<1> QED BY <1>1, <1>2, <1>3, <1>4, <1>5, <1>6, <1>7, <1>8 DEF AsCalled, CalledFor

(* Calls that do are calls of FileStore.                                   *)
LEMMA CallsAreNext ==
    ASSUME Next, known, CalledFor,
           \A i \in Inodes, buf \in Buf : sfs_fwrite(i, buf) => FS!Write(i, buf)
    PROVE  FS!Next \/ \E n \in Name : sfs_remove(n)
<1>1. CASE mksfs_fresh \/ mksfs_old \/ sfs_getnextfilename
    BY <1>1 DEF CalledFor, FS!Next
<1>2. ASSUME NEW n \in AnyName, sfs_fopen(n) PROVE FS!Next
    <2>1. FS!Open(n) /\ n \in Name \cup {NoName, JunkName}
        BY <1>2 DEF CalledFor, AnyName
    <2> QED BY <2>1 DEF FS!Next
<1>3. ASSUME NEW n \in Name, sfs_getfilesize(n) PROVE FS!Next
    BY <1>3 DEF CalledFor, FS!Next
<1>4. ASSUME NEW i \in Inodes, sfs_fclose(i) PROVE FS!Next
    BY <1>4 DEF CalledFor, FS!Next
<1>5. ASSUME NEW i \in Inodes, NEW length \in ReadLen, sfs_fread(i, length) PROVE FS!Next
    BY <1>5 DEF CalledFor, FS!Next
<1>6. ASSUME NEW i \in Inodes, NEW loc \in SeekTo, sfs_fseek(i, loc) PROVE FS!Next
    BY <1>6 DEF CalledFor, FS!Next
<1>7. ASSUME NEW i \in Inodes, NEW buf \in Buf, sfs_fwrite(i, buf) PROVE FS!Next
    BY <1>7 DEF FS!Next
<1>8. ~sfs_unknown
    BY DEF sfs_unknown
<1> QED BY <1>1, <1>2, <1>3, <1>4, <1>5, <1>6, <1>7, <1>8 DEF Next

LEMMA StoreRefines ==
    ASSUME Direct
    PROVE  StoreInv /\ StoreInv' /\ [Next]_vars /\ [ComesBack]_vars =>
              [(FS!Next /\ AsCalled) \/ \E n \in Name : sfs_remove(n)]_vars
<1> SUFFICES ASSUME StoreInv, StoreInv', Next, ComesBack
             PROVE  (FS!Next /\ AsCalled) \/ \E n \in Name : sfs_remove(n)
    OBVIOUS
<1>1. AsCalled
    BY StoreCalls
<1>2. known
    BY DEF StoreInv
<1> QED BY <1>1, <1>2, CallsAreNext DEF AsCalled

LEMMA StoreStarts ==
    ASSUME StoreInv, Init
    PROVE  FS!Init
<1>1. \A i \in Inodes : /\ inode_table[i].size = 0 /\ (inode_table[i].mode = Opened) = FALSE
                        /\ rootDir[i].name = NoName
    BY EmptyDirInv DEF Init, EmptyInode, Opened, Closed
<1>2. ASSUME NEW i \in Inodes
      PROVE  Names[i] = NoName /\ Contents[i] = <<>> /\ Opens[i] = FALSE
    <2>1. WordsOf(inode_table[i], disk) = <<>>
        BY <1>1, NoWords
    <2>2. Contents[i] = <<>> /\ Names[i] = NoName
        BY <1>1, <2>1, View
    <2>3. Opens[i] = (inode_table[i].mode = Opened)
        BY View
    <2> QED BY <1>1, <2>2, <2>3
<1>3. /\ Names = [i \in Inodes |-> NoName]
      /\ Contents = [i \in Inodes |-> <<>>]
      /\ Opens = [i \in Inodes |-> FALSE]
    BY <1>2, ViewDomains
<1> QED BY <1>3 DEF Init, FS!Init, Names, Contents, Opens

(* Clients that keep to the direct pointers get a store of files from the  *)
(* calls of sfs_api.c, sfs_remove aside: each does to the file it is given *)
(* what FileStore says, answers with it and leaves the other files alone,  *)
(* whatever else is created, written and refused on the disk they share.   *)
THEOREM FilesAreAStore ==
    ASSUME Direct PROVE Spec /\ DirectoryComesBack => ImplementsFileStore
<1>1. StoreInv /\ [Next]_vars /\ [ComesBack]_vars => StoreInv'
    BY StoreStep
<1>2. StoreInv /\ StoreInv' /\ [Next]_vars /\ [ComesBack]_vars =>
          [(FS!Next /\ AsCalled) \/ \E n \in Name : sfs_remove(n)]_vars
    BY StoreRefines
<1>3. Init => FS!Init
    BY StoreInit, StoreStarts
<1> QED BY <1>1, <1>2, <1>3, StoreInit, PTL DEF Spec, DirectoryComesBack, ImplementsFileStore

-----------------------------------------------------------------------------
(* The blocks of such files.                                               *)

LEMMA TidyApart == StoreInv => FilesApart
<1> SUFFICES ASSUME StoreInv, NEW i \in Inodes, NEW q \in 0 .. numBlocks(i) - 1
             PROVE  /\ FileBlock(i, q) \in DataBlocks \ free_bit_map
                    /\ \A j \in Inodes :
                        /\ FileBlock(i, q) # inode_table[j].indirectPointer
                        /\ \A r \in 0 .. numBlocks(j) - 1 :
                              FileBlock(i, q) = FileBlock(j, r) => <<i, q>> = <<j, r>>
    BY DEF FilesApart
<1>1. ASSUME NEW j \in Inodes, NEW r \in 0 .. numBlocks(j) - 1
      PROVE  /\ FileBlock(j, r) = inode_table[j].data_ptrs[r] /\ r \in 0 .. NDIRECT - 1
             /\ FileBlock(j, r) \in DataBlocks
    <2> PICK m : Tidy(inode_table[j], m)
        BY DEF StoreInv
    <2>1. numBlocks(j) = m /\ m \in 0 .. NDIRECT /\ NDIRECT \in Nat
        BY TidyInUse, SizeAssumption DEF Tidy
    <2>2. r \in 0 .. NDIRECT - 1 /\ r < m
        BY <2>1
    <2>3. FileBlock(j, r) = inode_table[j].data_ptrs[r]
        BY <2>2, TidyLoaded DEF FileBlock
    <2> QED BY <2>2, <2>3 DEF Tidy
<1>2. FileBlock(i, q) # 0
    BY <1>1, SizeAssumption DEF DataBlocks
<1>3. FileBlock(i, q) \notin free_bit_map
    <2>1. q # NDIRECT /\ q \in 0 .. NDIRECT
        BY <1>1, SizeAssumption
    <2>2. Pointer(<<i, q>>) = FileBlock(i, q) /\ <<i, q>> \in PointerAt
        BY <1>1, <2>1 DEF Pointer, PointerAt
    <2> QED BY <1>2, <2>2 DEF StoreInv, OneOwner
<1>4. ASSUME NEW j \in Inodes PROVE inode_table[j].indirectPointer = 0
    BY DEF StoreInv, Tidy
<1>5. ASSUME NEW j \in Inodes, NEW r \in 0 .. numBlocks(j) - 1,
             FileBlock(i, q) = FileBlock(j, r)
      PROVE  <<i, q>> = <<j, r>>
    <2>1. /\ q \in 0 .. NDIRECT - 1 /\ r \in 0 .. NDIRECT - 1
          /\ inode_table[i].data_ptrs[q] # 0
          /\ inode_table[j].data_ptrs[r] = inode_table[i].data_ptrs[q]
        BY <1>1, <1>2, <1>5
    <2>2. j = i /\ r = q
        BY <2>1, PointersApart DEF StoreInv
    <2> QED BY <2>2
<1> QED BY <1>1, <1>2, <1>3, <1>4, <1>5

(* No block serves two files, or two places of one, and none of a file can *)
(* be allocated, while files keep to their direct pointers.                *)
THEOREM DirectFilesApart ==
    ASSUME Direct PROVE Spec /\ DirectoryComesBack => []FilesApart
<1>1. Spec /\ DirectoryComesBack => []StoreInv
    BY FilesStayTidy
<1> QED BY <1>1, TidyApart, PTL

Held(b) ==
    \/ b \in free_bit_map
    \/ \E i \in Inodes, k \in 0 .. NDIRECT - 1 : inode_table[i].data_ptrs[k] = b

LEMMA AccountedIsHeld ==
    ASSUME StoreInv, NEW b \in Accounted, b # 0
    PROVE  Held(b)
<1>1. CASE b \in free_bit_map
    BY <1>1 DEF Held
<1>2. ASSUME NEW i \in Inodes, NEW k \in 0 .. NDIRECT, b = Pointer(<<i, k>>)
      PROVE  Held(b)
    <2>1. inode_table[i].indirectPointer = 0
        BY DEF StoreInv, Tidy
    <2>2. k # NDIRECT /\ b = inode_table[i].data_ptrs[k]
        BY <1>2, <2>1 DEF Pointer
    <2>3. k \in 0 .. NDIRECT - 1
        BY <2>2, SizeAssumption
    <2> QED BY <2>2, <2>3 DEF Held
<1>3. ASSUME NEW i \in Inodes, NEW q \in 0 .. numBlocks(i) - 1, b = FileBlock(i, q)
      PROVE  Held(b)
    <2> PICK m : Tidy(inode_table[i], m)
        BY DEF StoreInv
    <2>1. numBlocks(i) = m /\ m \in 0 .. NDIRECT /\ NDIRECT \in Nat
        BY TidyInUse, SizeAssumption DEF Tidy
    <2>2. q \in 0 .. NDIRECT - 1 /\ q < m
        BY <2>1
    <2>3. b = inode_table[i].data_ptrs[q]
        BY <1>3, <2>2, TidyLoaded DEF FileBlock
    <2> QED BY <2>2, <2>3 DEF Held
<1> QED BY <1>1, <1>2, <1>3 DEF Accounted, BlocksOf

LEMMA HeldIsAccounted ==
    ASSUME NEW b,
           \/ b \in free_bit_map'
           \/ \E i \in Inodes, k \in 0 .. NDIRECT - 1 : inode_table'[i].data_ptrs[k] = b
    PROVE  b \in Accounted'
<1>1. CASE b \in free_bit_map'
    BY <1>1 DEF Accounted
<1>2. ASSUME NEW i \in Inodes, NEW k \in 0 .. NDIRECT - 1, inode_table'[i].data_ptrs[k] = b
      PROVE  b \in Accounted'
    <2>1. k # NDIRECT /\ k \in 0 .. NDIRECT
        BY SizeAssumption
    <2>2. Pointer(<<i, k>>)' = b
        BY <1>2, <2>1 DEF Pointer
    <2> QED BY <2>1, <2>2 DEF Accounted, BlocksOf, Inodes
<1> QED BY <1>1, <1>2

LEMMA SameHeld ==
    ASSUME NEW b, Held(b), free_bit_map' = free_bit_map,
           \A i \in Inodes : inode_table'[i].data_ptrs = inode_table[i].data_ptrs
    PROVE  b \in Accounted'
BY HeldIsAccounted DEF Held

LEMMA WriteHeld ==
    ASSUME Direct, StoreInv, TypeOK', NEW i \in Inodes, NEW buf, NEW p, NEW e, NEW s,
           NEW blk, Writing(i, buf, p, e, s, blk), NEW b, Held(b), b # 0
    PROVE  b \in Accounted'
<1>1. PICK m : Tidy(inode_table[i], m)
    BY DEF StoreInv
<1>2. inode_table'[i] \in inode_t
    BY DEF TypeOK, Inodes
<1>3. PICK n \in Nat : Longer(inode_table[i], inode_table'[i], s, m, n, e)
    BY <1>1, <1>2, WriteTidy
<1>4. \A j \in Inodes \ {i} : inode_table'[j] = inode_table[j]
    BY <1>1, <1>2, WriteTidy
<1>5. /\ Tidy(inode_table'[i], m + n) /\ DOMAIN s = 0 .. n - 1
      /\ \A k \in 0 .. NDIRECT - 1 :
            inode_table'[i].data_ptrs[k] =
                IF m <= k /\ k < m + n THEN s[k - m] ELSE inode_table[i].data_ptrs[k]
    BY <1>3 DEF Longer
<1>6. m \in Nat /\ n \in Nat /\ NDIRECT \in Nat /\ m + n <= NDIRECT
    BY <1>1, <1>5, SizeAssumption DEF Tidy
<1>7. CASE b \in Taken(s)
    <2> PICK j \in 0 .. n - 1 : b = s[j]
        BY <1>5, <1>7 DEF Taken
    <2> DEFINE k == m + j
    <2>1. k \in 0 .. NDIRECT - 1 /\ m <= k /\ k < m + n /\ k - m = j
        BY <1>6
    <2> HIDE DEF k
    <2>2. inode_table'[i].data_ptrs[k] = b
        BY <1>5, <2>1
    <2> QED BY <2>1, <2>2, HeldIsAccounted
<1>8. CASE b \in free_bit_map /\ b \notin Taken(s)
    <2>1. /\ inode_table'[i].indirectPointer = IndirectAfter(i, numNewBlocks(i, e), s)
          /\ free_bit_map' = (free_bit_map \ Taken(s))
                \ (IF NeedsIndirect(i, numNewBlocks(i, e))
                   THEN {IndirectAfter(i, numNewBlocks(i, e), s)} ELSE {})
        <3>1. sfs_fwrite_using(i, buf, s, blk) /\ e = fd_table[i] + Len(buf)
            BY DEF Writing
        <3> QED BY <3>1 DEF sfs_fwrite_using, StoreInv, TypeOK, inode_t
    <2>2. inode_table'[i].indirectPointer = 0
        BY <1>5 DEF Tidy
    <2> QED BY <1>8, <2>1, <2>2, HeldIsAccounted
<1>9. ASSUME NEW j \in Inodes, NEW k \in 0 .. NDIRECT - 1, inode_table[j].data_ptrs[k] = b
      PROVE  b \in Accounted'
    <2>1. CASE j = i
        <3>1. k < m
            BY <1>1, <1>9, <2>1 DEF Tidy
        <3>2. inode_table'[i].data_ptrs[k] = b
            BY <1>5, <1>6, <1>9, <2>1, <3>1
        <3> QED BY <3>2, HeldIsAccounted
    <2>2. CASE j # i
        BY <1>4, <1>9, <2>2, HeldIsAccounted
    <2> QED BY <2>1, <2>2
<1> QED BY <1>7, <1>8, <1>9 DEF Held

LEMMA BlocksStep ==
    ASSUME Direct, StoreInv, StoreInv', [Next]_vars,
           ~mksfs_fresh, ~mksfs_old, ret'.val # -1
    PROVE  Accounted \ {0} \subseteq Accounted'
<1> SUFFICES ASSUME NEW b \in Accounted, b # 0 PROVE b \in Accounted'
    OBVIOUS
<1>0. Held(b) /\ TypeOK'
    BY AccountedIsHeld DEF StoreInv
<1> USE <1>0
<1>1. ~Refuse /\ \A d : ~Reply(-1, d)
    BY DEF Refuse, Reply
<1>2. CASE \E n \in AnyName : sfs_fopen(n)
    <2> PICK n \in AnyName : sfs_fopen(n)
        BY <1>2
    <2>1. free_bit_map' = free_bit_map
        BY <1>1 DEF sfs_fopen, OpenOld, OpenNew, blocks
    <2>2. \A i \in Inodes : inode_table'[i].data_ptrs = inode_table[i].data_ptrs
        <3>1. CASE inode_table' = inode_table
            BY <3>1
        <3>2. ASSUME NEW s \in Inodes, NEW i \in Inodes, OldFile(n, s, i) \/ NewFile(n, s, i)
              PROVE  \A j \in Inodes : inode_table'[j].data_ptrs = inode_table[j].data_ptrs
            <4>1. CASE OldFile(n, s, i)
                BY <4>1 DEF OldFile, StoreInv, TypeOK, inode_t
            <4>2. CASE NewFile(n, s, i)
                BY <4>2 DEF NewFile, StoreInv, TypeOK, inode_t
            <4> QED BY <3>2, <4>1, <4>2
        <3> QED BY <3>1, <3>2, OpenKeeps
    <2> QED BY <2>1, <2>2, SameHeld
<1>3. CASE \E i \in Inodes : sfs_fclose(i)
    <2> PICK i \in Inodes : sfs_fclose(i)
        BY <1>3
    <2>1. free_bit_map' = free_bit_map
        BY <1>1 DEF sfs_fclose, blocks
    <2>2. \A j \in Inodes : inode_table'[j].data_ptrs = inode_table[j].data_ptrs
        <3>1. inode_table' = [inode_table EXCEPT ![i].mode = Closed]
            BY <1>1 DEF sfs_fclose
        <3> QED BY <3>1 DEF StoreInv, TypeOK, inode_t
    <2> QED BY <2>1, <2>2, SameHeld
<1>4. CASE \E i \in Inodes, buf \in Buf : sfs_fwrite(i, buf)
    <2> PICK i \in Inodes, buf \in Buf : sfs_fwrite(i, buf)
        BY <1>4
    <2>1. ~sfs_fwrite_full(i, fd_table[i] + Len(buf))
        BY <1>1 DEF sfs_fwrite_full
    <2>2. PICK s, blk : Writing(i, buf, fd_table[i], fd_table[i] + Len(buf), s, blk)
        BY <1>1, <2>1, WriteCases
    <2> QED BY <2>2, WriteHeld
<1>5. CASE \/ \E i \in Inodes, length \in ReadLen : sfs_fread(i, length)
           \/ sfs_getnextfilename
           \/ \E n \in Name : sfs_getfilesize(n) \/ sfs_remove(n)
           \/ \E i \in Inodes, loc \in SeekTo : sfs_fseek(i, loc)
           \/ UNCHANGED vars
    <2>1. free_bit_map' = free_bit_map /\ inode_table' = inode_table
        BY <1>5 DEF sfs_fread, sfs_getnextfilename, sfs_getfilesize, sfs_remove, sfs_fseek,
                    Refuse, vars, tables, blocks
    <2> QED BY <2>1, SameHeld
<1>6. ~sfs_unknown
    BY DEF sfs_unknown, StoreInv
<1> QED BY <1>2, <1>3, <1>4, <1>5, <1>6 DEF Next

(* While files keep to their direct pointers, no call that succeeds loses  *)
(* a block, whatever was refused before.                                   *)
THEOREM DirectBlocksAreKept ==
    ASSUME Direct PROVE Spec /\ DirectoryComesBack => NoBlockLost
<1>1. StoreInv /\ StoreInv' /\ [Next]_vars
        => [mksfs_fresh \/ mksfs_old \/ ret'.val = -1
              \/ Accounted \ {0} \subseteq Accounted']_vars
    BY BlocksStep
<1>2. Spec /\ DirectoryComesBack => []StoreInv
    BY FilesStayTidy
<1> QED BY <1>1, <1>2, PTL DEF Spec, NoBlockLost
=============================================================================
