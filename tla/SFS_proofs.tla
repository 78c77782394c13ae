----------------------------- MODULE SFS_proofs -----------------------------
(***************************************************************************)
(* Theorems about SFS, for every size of the tables and the disk, every    *)
(* client and every content of uninitialised memory: the variables keep    *)
(* their types, no block has two owners, none is without a name, and where *)
(* metadata can be overwritten and the process end.                        *)
(***************************************************************************)
EXTENDS SFS, WellFoundedInduction, TLAPS

-----------------------------------------------------------------------------
(* Least and greatest elements.                                            *)

(* First is the least element of a set of naturals that has one.           *)
LEMMA FirstLemma ==
    ASSUME NEW S \in SUBSET Nat, S # {}
    PROVE  First(S) \in S /\ \A t \in S : First(S) <= t
<1> DEFINE LT == {ss \in Nat \X Nat : ss[1] < ss[2]}
<1>1. IsWellFoundedOn(LT, Nat)
    BY NatLessThanWellFounded DEF OpToRel
<1>2. PICK x \in S : \A y \in S : ~ (<<y, x>> \in LT)
    <2> HIDE DEF LT
    <2> QED BY <1>1, WFMin
<1>3. ASSUME NEW y \in S PROVE x <= y
    <2>1. x \in Nat /\ y \in Nat
        OBVIOUS
    <2>2. y < x => <<y, x>> \in LT
        BY <2>1
    <2> QED BY <1>2, <2>1, <2>2
<1> QED BY <1>3 DEF First

(* Last is the greatest element of a set of integers below a bound.        *)
LEMMA LastLemma ==
    ASSUME NEW a \in Int, NEW b \in Int, NEW S \in SUBSET (a .. b), S # {}
    PROVE  Last(S) \in S
<1> DEFINE T == {b - s : s \in S}
<1>1. T \in SUBSET Nat /\ T # {}
    <2>1. \A s \in S : b - s \in Nat
        OBVIOUS
    <2>2. PICK s \in S : TRUE
        OBVIOUS
    <2>3. b - s \in T
        OBVIOUS
    <2> QED BY <2>1, <2>3
<1>2. First(T) \in T /\ \A t \in T : First(T) <= t
    <2> HIDE DEF T
    <2> QED BY <1>1, FirstLemma
<1>3. PICK s \in S : First(T) = b - s
    BY <1>2
<1>4. ASSUME NEW t \in S PROVE t <= s
    <2>1. t \in Int /\ s \in Int /\ b - t \in T
        OBVIOUS
    <2>2. b - s <= b - t
        BY <1>2, <1>3, <2>1
    <2> QED BY <2>1, <2>2
<1> QED BY <1>4 DEF Last
-----------------------------------------------------------------------------
(* Types.                                                                  *)

(* mksfs(1) leaves free blocks only behind the metadata.                   *)
LEMMA FreshMapLemma ==
    FreshMap(0 .. NUM_BLOCKS - 1) \subseteq DataBlocks
BY SizeAssumption DEF FreshMap, Metadata, DataBlocks

LEMMA InitType == Init => TypeOK
<1> SUFFICES ASSUME Init PROVE TypeOK
    OBVIOUS
<1>1. inode_table \in [Inodes -> inode_t]
    BY DEF Init, EmptyInode, inode_t
<1>2. /\ fd_table \in [Inodes -> Nat]
      /\ disk \in [DataBlocks -> [Offsets -> Word]]
    BY DEF Init, Word
<1>6. rootDir \in [Inodes -> directory_entry]
    BY DEF Init, EmptyDir, EmptySlot, Inodes, AnyName, directory_entry
<1>3. rootDir_ptr \in -1 .. NumInodes - 1
    BY SizeAssumption DEF Init
<1>4. diskMap \subseteq DataBlocks /\ free_bit_map \subseteq DataBlocks \cup Overrun
    BY FreshMapLemma DEF Init
<1>5. /\ intact \in BOOLEAN /\ known \in BOOLEAN /\ up \in BOOLEAN
      /\ ret.val \in Word /\ MAX_BLOCK \in Nat
    BY SizeAssumption DEF Init, Word
<1> QED BY <1>1, <1>2, <1>3, <1>4, <1>5, <1>6 DEF TypeOK

(* A slot that the search finds is a slot.                                 *)
LEMMA FoundSlot ==
    ASSUME NEW S \in SUBSET Inodes, S # {}
    PROVE  First(S) \in S /\ First(S) \in Inodes
<1>1. S \in SUBSET Nat
    BY DEF Inodes
<1> QED BY <1>1, FirstLemma

(* What sfs_fopen does: it refuses, opens the file of the first slot with  *)
(* the name, takes the first empty slot, or follows a number of no inode.  *)
Refused(n) == (n \notin Name \/ Candidates(n) = {}) /\ Refuse /\ UNCHANGED up

OpenedOld(n, s, i) ==
    /\ n \in Name /\ s \in SlotsNamed(n) /\ i = rootDir[s].num
    /\ OpenOld(i) /\ UNCHANGED up

OpenedNew(n, s, i) ==
    /\ n \in Name /\ SlotsNamed(n) = {} /\ s \in EmptySlots /\ i = rootDir[s].num
    /\ OpenNew(n, s) /\ UNCHANGED up

Ended == up' = FALSE /\ UNCHANGED <<tables, blocks, ret>>

LEMMA OpenSplit ==
    ASSUME NEW n \in AnyName, sfs_fopen(n)
    PROVE  \/ Refused(n)
           \/ \E s, i \in Inodes : OpenedOld(n, s, i) \/ OpenedNew(n, s, i)
           \/ n \in Name /\ Ended /\ \E s \in Inodes : rootDir[s].num \notin Inodes
<1>0. Candidates(n) \in SUBSET Inodes
    BY DEF Candidates, SlotsNamed, EmptySlots
<1>1. CASE (n \notin Name \/ Candidates(n) = {}) /\ Refuse /\ UNCHANGED up
    BY <1>1 DEF Refused
<1>2. CASE /\ n \in Name /\ Ended
           /\ Candidates(n) # {} /\ rootDir[First(Candidates(n))].num \notin Inodes
    <2>1. First(Candidates(n)) \in Inodes
        BY <1>0, <1>2, FoundSlot
    <2> QED BY <1>2, <2>1
<1>3. CASE /\ n \in Name /\ Candidates(n) # {} /\ rootDir[First(Candidates(n))].num \in Inodes
           /\ IF SlotsNamed(n) # {} THEN OpenOld(rootDir[First(Candidates(n))].num)
              ELSE OpenNew(n, First(Candidates(n)))
           /\ UNCHANGED up
    <2> DEFINE s == First(Candidates(n))
               i == rootDir[s].num
    <2>2. s \in Candidates(n) /\ s \in Inodes /\ i \in Inodes
        BY <1>0, <1>3, FoundSlot
    <2>3. CASE SlotsNamed(n) # {}
        BY <1>3, <2>2, <2>3 DEF OpenedOld, Candidates
    <2>4. CASE SlotsNamed(n) = {}
        BY <1>3, <2>2, <2>4 DEF OpenedNew, Candidates
    <2> QED BY <2>3, <2>4
<1> QED BY <1>1, <1>2, <1>3 DEF sfs_fopen, Ended

(* The assignments to an inode keep its type.                              *)
LEMMA InodeType ==
    ASSUME NEW ino \in inode_t
    PROVE  /\ \A c \in {Opened, Closed} : [ino EXCEPT !.mode = c] \in inode_t
           /\ [ino EXCEPT !.size = 0, !.mode = Opened] \in inode_t
           /\ \A z \in Nat, d \in [0 .. NDIRECT - 1 -> Nat], q \in Nat :
                 [ino EXCEPT !.size = z, !.data_ptrs = d, !.indirectPointer = q] \in inode_t
<1>1. \A c \in {Opened, Closed} : [ino EXCEPT !.mode = c] \in inode_t
    BY DEF inode_t
<1>2. [ino EXCEPT !.size = 0, !.mode = Opened] \in inode_t
    BY DEF inode_t
<1>3. ASSUME NEW z \in Nat, NEW d \in [0 .. NDIRECT - 1 -> Nat], NEW q \in Nat
      PROVE  [ino EXCEPT !.size = z, !.data_ptrs = d, !.indirectPointer = q] \in inode_t
    BY DEF inode_t
<1> QED BY <1>1, <1>2, <1>3

(* One inode of the table replaced by another.                             *)
LEMMA TableType ==
    ASSUME NEW table \in [Inodes -> inode_t], NEW i \in Inodes, NEW ino \in inode_t
    PROVE  [table EXCEPT ![i] = ino] \in [Inodes -> inode_t]
OBVIOUS

(* Opening a file keeps the types.                                         *)
LEMMA OpenType ==
    ASSUME TypeOK, NEW n \in AnyName, sfs_fopen(n)
    PROVE  TypeOK'
<1>1. CASE Refused(n)
    BY <1>1 DEF TypeOK, Refused, Refuse, Reply, Word, tables, blocks
<1>2. ASSUME NEW s \in Inodes, NEW i \in Inodes, OpenedOld(n, s, i)
      PROVE  TypeOK'
    <2>1. inode_table \in [Inodes -> inode_t] /\ inode_table[i] \in inode_t
        BY DEF TypeOK
    <2>2. inode_table[i].size \in Nat
        BY <2>1 DEF inode_t
    <2>3. inode_table' = [inode_table EXCEPT ![i] = [inode_table[i] EXCEPT !.mode = Opened]]
        BY <1>2 DEF OpenedOld, OpenOld
    <2>4. inode_table' \in [Inodes -> inode_t]
        BY <2>1, <2>3, InodeType, TableType
    <2>5. fd_table' \in [Inodes -> Nat]
        BY <1>2, <2>2 DEF TypeOK, OpenedOld, OpenOld
    <2>6. ret'.val \in Word
        BY <1>2 DEF OpenedOld, OpenOld, Reply, Inodes, Word
    <2> QED BY <1>2, <2>4, <2>5, <2>6 DEF TypeOK, OpenedOld, OpenOld, blocks
<1>3. ASSUME NEW s \in Inodes, NEW i \in Inodes, OpenedNew(n, s, i)
      PROVE  TypeOK'
    <2>1. rootDir' \in [Inodes -> directory_entry]
        <3>1. [rootDir[s] EXCEPT !.name = n] \in directory_entry
            BY DEF TypeOK, directory_entry
        <3>2. rootDir' = [rootDir EXCEPT ![s] = [rootDir[s] EXCEPT !.name = n]]
            BY <1>3 DEF OpenedNew, OpenNew
        <3> QED BY <3>1, <3>2 DEF TypeOK
    <2>2. inode_table' \in [Inodes -> inode_t]
        <3>1. inode_table \in [Inodes -> inode_t] /\ inode_table[i] \in inode_t
            BY DEF TypeOK
        <3>2. inode_table' = [inode_table EXCEPT ![i] = [inode_table[i] EXCEPT
                                                            !.size = 0, !.mode = Opened]]
            BY <1>3 DEF OpenedNew, OpenNew
        <3> QED BY <3>1, <3>2, InodeType, TableType
    <2>3. ret'.val \in Word
        BY <1>3 DEF OpenedNew, OpenNew, Reply, Inodes, Word
    <2> QED BY <1>3, <2>1, <2>2, <2>3 DEF TypeOK, OpenedNew, OpenNew, blocks
<1>4. CASE Ended
    BY <1>4 DEF TypeOK, Ended, tables, blocks
<1> QED BY <1>1, <1>2, <1>3, <1>4, OpenSplit

(* The numbers of the blocks a write takes.                                *)
LEMMA AllocationsType ==
    ASSUME TypeOK, NEW n, NEW s \in Allocations(n)
    PROVE  /\ free_bit_map \in SUBSET Nat
           /\ \A k \in DOMAIN s : s[k] \in free_bit_map
<1>1. DataBlocks \cup Overrun \in SUBSET Nat
    BY SizeAssumption DEF DataBlocks, PastTheMap
<1> QED BY <1>1 DEF TypeOK, Allocations

(* A write keeps the types.  The blocks it takes were free, so they are    *)
(* numbers; the words it stores are pointers or come from the buffer.      *)
LEMMA IndirectWordsType ==
    ASSUME TypeOK, NEW i \in Inodes, NEW n, NEW ind, NEW s \in Allocations(n),
           ind \in DataBlocks
    PROVE  IndirectWords(i, ind, s) \in [Offsets -> Word]
<1>1. \A k \in DOMAIN s : s[k] \in Int
    BY AllocationsType
<1>2. \A o \in Offsets : disk[ind][o] \in Word
    BY DEF TypeOK
<1> QED BY <1>1, <1>2 DEF IndirectWords, Word

LEMMA WithPointersType ==
    ASSUME TypeOK, NEW i \in Inodes, NEW n, NEW ind, NEW s \in Allocations(n)
    PROVE  WithPointers(i, n, ind, s) \in [DataBlocks -> [Offsets -> Word]]
BY IndirectWordsType DEF WithPointers, TypeOK

(* write_helper stores words of the buffer and keeps the others.           *)
LEMMA WriteHelperType ==
    ASSUME NEW d \in [DataBlocks -> [Offsets -> Word]], NEW buf \in Buf,
           NEW blk, NEW p \in Nat
    PROVE  write_helper(d, buf, blk, p) \in [DataBlocks -> [Offsets -> Word]]
<1> DEFINE At(b, o) == {r \in p .. p + Len(buf) - 1 :
                           blk[r \div BLOCK_SIZE] = b /\ r % BLOCK_SIZE = o}
           W(b, o) == IF b \notin Reachable \/ At(b, o) = {} THEN d[b][o]
                      ELSE buf[Last(At(b, o)) - p + 1]
<1>1. buf \in Seq(Int) /\ Len(buf) \in Nat
    BY ClientAssumption
<1>2. ASSUME NEW b \in DataBlocks, NEW o \in Offsets PROVE W(b, o) \in Word
    <2>1. CASE b \notin Reachable \/ At(b, o) = {}
        BY <2>1
    <2>2. CASE b \in Reachable /\ At(b, o) # {}
        <3>1. At(b, o) \in SUBSET (p .. p + Len(buf) - 1)
            OBVIOUS
        <3>2. Last(At(b, o)) \in p .. p + Len(buf) - 1
            <4> DEFINE S == At(b, o)
                       e == p + Len(buf) - 1
            <4>1. p \in Int /\ e \in Int /\ S \in SUBSET (p .. e) /\ S # {}
                BY <1>1, <2>2, <3>1
            <4> HIDE DEF S, e
            <4>2. Last(S) \in S
                BY <4>1, LastLemma
            <4>3. Last(S) \in p .. e
                BY <4>1, <4>2
            <4> QED BY <4>3 DEF S, e
        <3> DEFINE r == Last(At(b, o))
        <3>3. buf[r - p + 1] \in Int
            <4> HIDE DEF r
            <4>1. r \in p .. p + Len(buf) - 1
                BY <3>2 DEF r
            <4>2. r - p + 1 \in 1 .. Len(buf)
                BY <1>1, <4>1
            <4> QED BY <1>1, <4>2
        <3> QED BY <2>2, <3>3 DEF Word
    <2> QED BY <2>1, <2>2
<1>3. write_helper(d, buf, blk, p) = [b \in DataBlocks |-> [o \in Offsets |-> W(b, o)]]
    BY DEF write_helper
<1> HIDE DEF W
<1> QED BY <1>2, <1>3

LEMMA GetIndexType ==
    ASSUME NEW S \in SUBSET Nat
    PROVE  get_index(S) = 0 \/ get_index(S) \in S
BY FirstLemma DEF get_index

(* Closing, seeking, reading and listing keep the types.                   *)
LEMMA CloseType == ASSUME TypeOK, NEW i \in Inodes, sfs_fclose(i) PROVE TypeOK'
<1>0. up' = up
    BY DEF sfs_fclose
<1>1. CASE Refuse
    BY <1>0, <1>1 DEF TypeOK, Refuse, Reply, Word, tables, blocks
<1>2. CASE /\ inode_table' = [inode_table EXCEPT ![i].mode = Closed]
           /\ Reply(0, <<>>)
           /\ UNCHANGED <<fd_table, rootDir, rootDir_ptr, blocks>>
    <2>1. inode_table \in [Inodes -> inode_t] /\ inode_table[i] \in inode_t
        BY DEF TypeOK
    <2>2. inode_table' = [inode_table EXCEPT ![i] = [inode_table[i] EXCEPT !.mode = Closed]]
        BY <1>2
    <2>3. inode_table' \in [Inodes -> inode_t]
        BY <2>1, <2>2, InodeType, TableType
    <2> QED BY <1>0, <1>2, <2>3 DEF TypeOK, Reply, Word, blocks
<1> QED BY <1>1, <1>2 DEF sfs_fclose

LEMMA SeekType ==
    ASSUME TypeOK, NEW i \in Inodes, NEW loc \in SeekTo, sfs_fseek(i, loc)
    PROVE  TypeOK'
BY ClientAssumption DEF TypeOK, sfs_fseek, Reply, Word, blocks

LEMMA ReadType ==
    ASSUME TypeOK, NEW i \in Inodes, NEW length \in ReadLen, sfs_fread(i, length)
    PROVE  TypeOK'
<1>1. length \in Nat /\ fd_table[i] + length \in Nat
    BY ClientAssumption DEF TypeOK
<1>2. fd_table' \in [Inodes -> Nat]
    BY <1>1 DEF TypeOK, sfs_fread, Refuse, tables
<1>3. ret'.val \in Word
    <2>1. CASE Reply(-1, <<>>)
        BY <2>1 DEF Reply, Word
    <2>2. CASE ret' = ret
        BY <2>2 DEF TypeOK
    <2>3. CASE \E d : Reply(length, d)
        BY <1>1, <2>3 DEF Reply, Word
    <2> QED BY <2>1, <2>2, <2>3, Zenon DEF sfs_fread, Refuse
<1>4. up' \in BOOLEAN
    BY DEF TypeOK, sfs_fread
<1> QED BY <1>2, <1>3, <1>4 DEF TypeOK, sfs_fread, Refuse, tables, blocks

LEMMA ListType == ASSUME TypeOK, sfs_getnextfilename PROVE TypeOK'
<1>1. rootDir_ptr' \in -1 .. NumInodes - 1 /\ ret'.val \in Word
    BY SizeAssumption DEF TypeOK, sfs_getnextfilename, Reply, Word
<1> QED BY <1>1 DEF TypeOK, sfs_getnextfilename, blocks

LEMMA SizeType ==
    ASSUME TypeOK, NEW n \in Name, sfs_getfilesize(n) PROVE TypeOK'
<1>1. ret'.val \in Word /\ up' \in BOOLEAN
    <2>1. CASE Reply(-1, <<>>) /\ UNCHANGED up
        BY <2>1 DEF Reply, Word, TypeOK
    <2>2. CASE \E i \in Inodes : Reply(inode_table[i].size, <<>>) /\ UNCHANGED up
        BY <2>2 DEF Reply, Word, TypeOK, inode_t
    <2>3. CASE Reply(Unspec, <<>>) /\ UNCHANGED up
        BY <2>3 DEF Reply, Word, TypeOK
    <2>4. CASE up' = FALSE /\ UNCHANGED ret
        BY <2>4 DEF TypeOK
    <2> QED BY <2>1, <2>2, <2>3, <2>4 DEF sfs_getfilesize
<1> QED BY <1>1 DEF TypeOK, sfs_getfilesize, tables, blocks

LEMMA RemoveType ==
    ASSUME TypeOK, NEW n \in Name, sfs_remove(n) PROVE TypeOK'
BY DEF TypeOK, sfs_remove, Reply, Word, tables, blocks

(* mksfs keeps the types, whatever the uninitialised entries hold.         *)
LEMMA FreshType == ASSUME TypeOK, mksfs_fresh PROVE TypeOK'
<1>1. inode_table' \in [Inodes -> inode_t]
    BY DEF mksfs_fresh, EmptyInode, inode_t
<1>2. rootDir' \in [Inodes -> directory_entry]
    BY DEF mksfs_fresh, EmptyDir, EmptySlot, Inodes, directory_entry, AnyName
<1>3. /\ free_bit_map' \subseteq DataBlocks \cup Overrun
      /\ diskMap' \subseteq DataBlocks
    <2>1. CASE free_bit_map' = FreshMap(free_bit_map)
        BY <2>1 DEF TypeOK, mksfs_fresh, FreshMap
    <2>2. CASE \E bits \in SUBSET (0 .. NUM_BLOCKS - 1 \cup Overrun) :
                  free_bit_map' = FreshMap(bits)
        BY <2>2, SizeAssumption DEF mksfs_fresh, FreshMap, DataBlocks, Metadata, PastTheMap
    <2> QED BY <2>1, <2>2 DEF mksfs_fresh
<1>4. rootDir_ptr' \in -1 .. NumInodes - 1
    BY DEF TypeOK, mksfs_fresh
<1>5. fd_table' \in [Inodes -> Nat] /\ disk' \in [DataBlocks -> [Offsets -> Word]]
    BY DEF mksfs_fresh, Word
<1>6. /\ intact' \in BOOLEAN /\ known' \in BOOLEAN /\ MAX_BLOCK' \in Nat
      /\ up' \in BOOLEAN /\ ret'.val \in Word
    BY SizeAssumption DEF TypeOK, mksfs_fresh, Reply, Word
<1> QED BY <1>1, <1>2, <1>3, <1>4, <1>5, <1>6 DEF TypeOK

LEMMA OldType == ASSUME TypeOK, mksfs_old PROVE TypeOK'
<1>1. inode_table' \in [Inodes -> inode_t]
    BY DEF TypeOK, mksfs_old, OverwrittenReadBack, EmptyInode, inode_t
<1>2. rootDir' \in [Inodes -> directory_entry]
    <2>1. ASSUME NEW s \in Inodes PROVE EmptySlot(s) \in directory_entry
        BY DEF EmptySlot, Inodes, directory_entry, AnyName
    <2>2. {EmptySlot(s) : s \in Inodes} \cup LeftOver \subseteq directory_entry
        BY <2>1, SizeAssumption DEF directory_entry
    <2>3. DirectoriesReadBack \subseteq [Inodes -> directory_entry]
        BY <2>2 DEF DirectoriesReadBack
    <2> QED BY <2>3 DEF TypeOK, mksfs_old, OverwrittenReadBack
<1>3. free_bit_map' \subseteq DataBlocks \cup Overrun
    BY SizeAssumption DEF TypeOK, mksfs_old, OverwrittenReadBack, DataBlocks, PastTheMap
<1>4. known' \in BOOLEAN
    BY DEF TypeOK, mksfs_old, OverwrittenReadBack
<1>5. MAX_BLOCK' \in Nat /\ ret'.val \in Word
    BY SizeAssumption DEF mksfs_old, Reply, Word
<1> QED BY <1>1, <1>2, <1>3, <1>4, <1>5 DEF TypeOK, mksfs_old

(* A write that succeeds keeps the types.                                  *)
LEMMA WriteDoneType ==
    ASSUME TypeOK, NEW i \in Inodes, NEW buf \in Buf, up' = up,
           NEW s \in Allocations(numNewBlocks(i, fd_table[i] + Len(buf))),
           NEW blk, sfs_fwrite_using(i, buf, s, blk)
    PROVE  TypeOK'
<1> DEFINE p == fd_table[i]
           e == p + Len(buf)
           n == numNewBlocks(i, e)
           ind == IndirectAfter(i, n, s)
           size == IF e > inode_table[i].size THEN e ELSE inode_table[i].size
<1>1. p \in Nat /\ e \in Nat /\ Len(buf) \in Nat
    BY ClientAssumption DEF TypeOK
<1>2. ind \in Nat
    <2>1. free_bit_map \ Taken(s) \in SUBSET Nat
        BY AllocationsType
    <2>2. get_index(free_bit_map \ Taken(s)) \in Nat
        BY <2>1, GetIndexType
    <2> QED BY <2>2 DEF IndirectAfter, TypeOK, inode_t
<1>3. DirectPtrs(i, s) \in [0 .. NDIRECT - 1 -> Nat]
    <2>1. \A k \in DOMAIN s : s[k] \in Nat
        BY AllocationsType
    <2>2. inode_table[i].data_ptrs \in [0 .. NDIRECT - 1 -> Nat]
        BY DEF TypeOK, inode_t
    <2> QED BY <2>1, <2>2 DEF DirectPtrs
<1>4. disk' \in [DataBlocks -> [Offsets -> Word]]
    <2>1. WithPointers(i, n, ind, s) \in [DataBlocks -> [Offsets -> Word]]
        BY WithPointersType
    <2>2. disk' = write_helper(WithPointers(i, n, ind, s), buf, blk, p)
        BY DEF sfs_fwrite_using
    <2> QED BY <1>1, <2>1, <2>2, WriteHelperType
<1>5. inode_table' \in [Inodes -> inode_t]
    <2>1. [inode_table[i] EXCEPT !.size = size, !.data_ptrs = DirectPtrs(i, s),
                                 !.indirectPointer = ind] \in inode_t
        <3>1. inode_table[i] \in inode_t
            BY DEF TypeOK
        <3>2. size \in Nat
            BY <1>1, <3>1 DEF inode_t
        <3> HIDE DEF size, ind
        <3> QED BY <1>2, <1>3, <3>1, <3>2, InodeType
    <2>2. inode_table' = [inode_table EXCEPT ![i] =
              [inode_table[i] EXCEPT !.size = size, !.data_ptrs = DirectPtrs(i, s),
                                     !.indirectPointer = ind]]
        BY DEF sfs_fwrite_using, TypeOK, inode_t
    <2>3. inode_table \in [Inodes -> inode_t]
        BY DEF TypeOK
    <2> QED BY <2>1, <2>2, <2>3, TableType
<1>6. fd_table' \in [Inodes -> Nat]
    BY <1>1 DEF sfs_fwrite_using, TypeOK
<1>7. free_bit_map' \subseteq DataBlocks \cup Overrun
    BY DEF sfs_fwrite_using, TypeOK
<1>8. ret'.val \in Word
    BY <1>1 DEF sfs_fwrite_using, Reply, Word
<1>9. intact' \in BOOLEAN
    BY DEF sfs_fwrite_using
<1>10. UNCHANGED <<rootDir, rootDir_ptr, diskMap, known, MAX_BLOCK>>
    BY DEF sfs_fwrite_using
<1> QED BY <1>4, <1>5, <1>6, <1>7, <1>8, <1>9, <1>10 DEF TypeOK

(* So does one that is refused, finds the disk full or ends the process.   *)
LEMMA WriteType ==
    ASSUME TypeOK, NEW i \in Inodes, NEW buf \in Buf, sfs_fwrite(i, buf)
    PROVE  TypeOK'
<1>1. CASE Refuse /\ UNCHANGED up
    BY <1>1 DEF TypeOK, Refuse, Reply, Word, tables, blocks
<1>2. CASE up' = FALSE /\ UNCHANGED <<tables, blocks, ret>>
    BY <1>2 DEF TypeOK, tables, blocks
<1>3. CASE sfs_fwrite_full(i, fd_table[i] + Len(buf)) /\ UNCHANGED up
    BY <1>3 DEF TypeOK, sfs_fwrite_full, Reply, Word, tables
<1>4. CASE sfs_fwrite_done(i, buf) /\ UNCHANGED up
    BY <1>4, WriteDoneType DEF sfs_fwrite_done
<1> QED BY <1>1, <1>2, <1>3, <1>4 DEF sfs_fwrite

LEMMA NextType == TypeOK /\ [Next]_vars => TypeOK'
<1> SUFFICES ASSUME TypeOK, [Next]_vars PROVE TypeOK'
    OBVIOUS
<1>1. CASE mksfs_fresh \/ mksfs_old
    BY <1>1, FreshType, OldType
<1>2. CASE sfs_getnextfilename
    BY <1>2, ListType
<1>3. CASE \E n \in AnyName : sfs_fopen(n)
    BY <1>3, OpenType
<1>4. CASE \E n \in Name : sfs_getfilesize(n)
    BY <1>4, SizeType
<1>5. CASE \E n \in Name : sfs_remove(n)
    BY <1>5, RemoveType
<1>6. CASE \E i \in Inodes : sfs_fclose(i)
    BY <1>6, CloseType
<1>7. CASE \E i \in Inodes, length \in ReadLen : sfs_fread(i, length)
    BY <1>7, ReadType
<1>8. CASE \E i \in Inodes, loc \in SeekTo : sfs_fseek(i, loc)
    BY <1>8, SeekType
<1>9. CASE \E i \in Inodes, buf \in Buf : sfs_fwrite(i, buf)
    BY <1>9, WriteType
<1>10. CASE UNCHANGED vars
    BY <1>10 DEF TypeOK, vars, tables, blocks
<1>11. CASE sfs_unknown
    BY <1>11 DEF TypeOK, sfs_unknown, tables, blocks
<1> QED BY <1>1, <1>2, <1>3, <1>4, <1>5, <1>6, <1>7, <1>8, <1>9, <1>10, <1>11 DEF Next

(* Whatever the sizes, the clients and the memory, every table keeps its   *)
(* type: no call leaves a pointer, a bit, a position or a slot outside     *)
(* the range the next call relies on.  A mksfs(0) that reads overwritten   *)
(* metadata ends what is said of the tables, until the next mksfs(1).      *)
THEOREM TypeCorrect == Spec => []TypeOK
BY InitType, NextType, PTL DEF Spec

-----------------------------------------------------------------------------
(* One owner for every block.                                              *)

(* Formatting and reading back leave no pointer at all.                    *)
LEMMA EmptyOwned ==
    ASSUME inode_table = [i \in Inodes |-> EmptyInode]
    PROVE  OneOwner
<1> SUFFICES ASSUME NEW x \in PointerAt PROVE Pointer(x) = 0
    BY DEF OneOwner
<1>1. x[1] \in Inodes /\ x[2] \in 0 .. NDIRECT
    BY DEF PointerAt
<1> QED BY <1>1, SizeAssumption DEF Pointer, EmptyInode

(* A step that keeps the pointers and frees nothing keeps the owners.      *)
LEMMA SamePointers ==
    ASSUME OneOwner, free_bit_map' \subseteq free_bit_map,
           \A x \in PointerAt : Pointer(x)' = Pointer(x)
    PROVE  OneOwner'
BY DEF OneOwner, PointerAt, Inodes, Metadata

LEMMA SameInodes ==
    ASSUME OneOwner, free_bit_map' \subseteq free_bit_map, inode_table' = inode_table
    PROVE  OneOwner'
BY SamePointers DEF Pointer

(* Opening and closing change the mode and the size alone.                 *)
LEMMA ModeOrSize ==
    ASSUME TypeOK, OneOwner, UNCHANGED free_bit_map, NEW i \in Inodes, NEW m, NEW z,
           inode_table' = [inode_table EXCEPT ![i].mode = m, ![i].size = z]
    PROVE  OneOwner'
<1>1. ASSUME NEW x \in PointerAt PROVE Pointer(x)' = Pointer(x)
    BY DEF Pointer, TypeOK, inode_t, PointerAt
<1> QED BY <1>1, SamePointers

LEMMA OpenOwned ==
    ASSUME TypeOK, OneOwner, NEW n \in AnyName, sfs_fopen(n)
    PROVE  OneOwner'
<1>1. CASE Refused(n) \/ Ended
    BY <1>1, SameInodes DEF Refused, Refuse, Ended, tables, blocks
<1>2. ASSUME NEW s \in Inodes, NEW i \in Inodes, OpenedOld(n, s, i)
      PROVE  OneOwner'
    <2>1. /\ inode_table' = [inode_table EXCEPT ![i].mode = Opened,
                                                ![i].size = inode_table[i].size]
          /\ UNCHANGED free_bit_map
        BY <1>2 DEF OpenedOld, OpenOld, TypeOK, inode_t, blocks
    <2> QED BY <2>1, ModeOrSize
<1>3. ASSUME NEW s \in Inodes, NEW i \in Inodes, OpenedNew(n, s, i)
      PROVE  OneOwner'
    <2>1. /\ inode_table' = [inode_table EXCEPT ![i].mode = Opened, ![i].size = 0]
          /\ UNCHANGED free_bit_map
        BY <1>3 DEF OpenedNew, OpenNew, TypeOK, inode_t, blocks
    <2> QED BY <2>1, ModeOrSize
<1> QED BY <1>1, <1>2, <1>3, OpenSplit

LEMMA CloseOwned ==
    ASSUME TypeOK, OneOwner, NEW i \in Inodes, sfs_fclose(i)
    PROVE  OneOwner'
<1>1. CASE Refuse
    BY <1>1, SameInodes DEF Refuse, tables, blocks
<1>2. CASE ~Refuse
    <2>1. /\ inode_table' = [inode_table EXCEPT ![i].mode = Closed,
                                                ![i].size = inode_table[i].size]
          /\ UNCHANGED free_bit_map
        BY <1>2 DEF sfs_fclose, TypeOK, inode_t, blocks
    <2> QED BY <2>1, ModeOrSize
<1> QED BY <1>1, <1>2

(* The first direct pointer that is not in use.                            *)
LEMMA DirectInUseType ==
    ASSUME NEW i \in Inodes PROVE DirectInUse(i) \in Nat
<1> DEFINE S == {k \in 0 .. NDIRECT :
                    k = NDIRECT \/ inode_table[i].data_ptrs[k] = 0}
<1>1. S \in SUBSET Nat /\ NDIRECT \in S
    BY SizeAssumption
<1>2. First(S) \in S
    <2> HIDE DEF S
    <2> QED BY <1>1, FirstLemma
<1> QED BY <1>1, <1>2 DEF DirectInUse

(* get_index gives n different free blocks to n calls.                     *)
LEMMA AllocationsInjective ==
    ASSUME NEW n, NEW s \in Allocations(n), NEW j \in DOMAIN s, NEW k \in DOMAIN s,
           s[j] = s[k]
    PROVE  j = k
BY DEF Allocations

(* A write that succeeds: an old pointer was not free and stays so; a new  *)
(* one was free, is not any more, and is like no other.                    *)
LEMMA WriteDoneOwned ==
    ASSUME TypeOK, OneOwner, NEW i \in Inodes, NEW buf \in Buf,
           NEW s \in Allocations(numNewBlocks(i, fd_table[i] + Len(buf))),
           NEW blk, sfs_fwrite_using(i, buf, s, blk)
    PROVE  OneOwner'
<1> DEFINE n == numNewBlocks(i, fd_table[i] + Len(buf))
           old == numBlocks(i)
           left == free_bit_map \ Taken(s)
           ind == IndirectAfter(i, n, s)
           P(x) == Pointer(x)
           New(x) == x[1] = i /\ P(x)' \in free_bit_map
<1>1. /\ free_bit_map \in SUBSET Nat
      /\ \A k \in DOMAIN s : s[k] \in free_bit_map /\ s[k] \notin left
    BY AllocationsType DEF Taken
<1>2. free_bit_map' = left \ (IF NeedsIndirect(i, n) THEN {ind} ELSE {})
    BY DEF sfs_fwrite_using
<1>3. ASSUME NEW x \in PointerAt, x[1] # i PROVE P(x)' = P(x)
    BY <1>3 DEF sfs_fwrite_using, Pointer, PointerAt, TypeOK, inode_t
<1>4. ASSUME NEW k \in 0 .. NDIRECT - 1
      PROVE  P(<<i, k>>)' = DirectPtrs(i, s)[k]
    <2>1. k # NDIRECT
        BY SizeAssumption
    <2> QED BY <2>1 DEF sfs_fwrite_using, Pointer, TypeOK, inode_t
<1>5. P(<<i, NDIRECT>>)' = ind
    BY DEF sfs_fwrite_using, Pointer, TypeOK, inode_t
<1>6. ASSUME NEW k \in 0 .. NDIRECT - 1
      PROVE  \/ P(<<i, k>>)' = P(<<i, k>>)
             \/ old \in Nat /\ k - old \in DOMAIN s /\ P(<<i, k>>)' = s[k - old]
    <2>1. k # NDIRECT
        BY SizeAssumption
    <2>2. ~HasIndirect(i) => old \in Nat
        BY DirectInUseType DEF numBlocks
    <2> QED BY <1>4, <2>1, <2>2 DEF DirectPtrs, Pointer
<1>7. \/ ind = P(<<i, NDIRECT>>) /\ free_bit_map' = left
      \/ (ind = 0 \/ ind \in left) /\ ind \notin free_bit_map'
    <2>1. CASE NeedsIndirect(i, n)
        BY <1>1, <1>2, <2>1, GetIndexType DEF IndirectAfter
    <2>2. CASE ~NeedsIndirect(i, n)
        BY <1>2, <2>2 DEF IndirectAfter, Pointer
    <2> QED BY <2>1, <2>2
<1>8. ASSUME NEW x \in PointerAt, P(x)' # 0
      PROVE  \/ P(x)' = P(x)
             \/ New(x) /\ P(x)' \notin free_bit_map'
    <2>1. PICK j \in Inodes, k \in 0 .. NDIRECT : x = <<j, k>>
        BY DEF PointerAt
    <2>2. CASE j # i
        BY <1>3, <2>1, <2>2
    <2>3. CASE j = i /\ k \in 0 .. NDIRECT - 1
        BY <1>1, <1>2, <1>6, <2>1, <2>3
    <2>4. CASE j = i /\ k = NDIRECT
        BY <1>5, <1>7, <1>8, <2>1, <2>4
    <2> QED BY <2>1, <2>2, <2>3, <2>4, SizeAssumption
<1>9. ASSUME NEW x \in PointerAt, NEW y \in PointerAt, New(x), New(y), P(x)' = P(y)',
             P(x)' # 0
      PROVE  x = y
    <2>0. \A z \in PointerAt : P(z) # 0 => P(z) \notin free_bit_map
        BY DEF OneOwner
    <2>1. PICK k \in 0 .. NDIRECT, l \in 0 .. NDIRECT : x = <<i, k>> /\ y = <<i, l>>
        BY <1>9 DEF PointerAt
    <2>2. CASE k # NDIRECT /\ l # NDIRECT
        <3>1. k \in 0 .. NDIRECT - 1 /\ l \in 0 .. NDIRECT - 1
            BY <2>2, SizeAssumption
        <3>2. /\ old \in Nat
              /\ k - old \in DOMAIN s /\ P(x)' = s[k - old]
              /\ l - old \in DOMAIN s /\ P(y)' = s[l - old]
            BY <1>6, <1>9, <2>0, <2>1, <3>1
        <3>3. k - old = l - old
            BY <1>9, <3>2, AllocationsInjective
        <3> QED BY <2>1, <3>2, <3>3
    <2>3. CASE k = NDIRECT /\ l # NDIRECT
        <3>1. l \in 0 .. NDIRECT - 1
            BY <2>3, SizeAssumption
        <3>2. l - old \in DOMAIN s /\ P(y)' = s[l - old]
            BY <1>6, <1>9, <2>0, <2>1, <3>1
        <3>3. ind \in left
            BY <1>5, <1>7, <1>9, <2>0, <2>1, <2>3
        <3> QED BY <1>1, <1>5, <1>9, <2>1, <2>3, <3>2, <3>3
    <2>4. CASE k # NDIRECT /\ l = NDIRECT
        <3>1. k \in 0 .. NDIRECT - 1
            BY <2>4, SizeAssumption
        <3>2. k - old \in DOMAIN s /\ P(x)' = s[k - old]
            BY <1>6, <1>9, <2>0, <2>1, <3>1
        <3>3. ind \in left
            BY <1>5, <1>7, <1>9, <2>0, <2>1, <2>4
        <3> QED BY <1>1, <1>5, <1>9, <2>1, <2>4, <3>2, <3>3
    <2> QED BY <2>1, <2>2, <2>3, <2>4
<1>10. ASSUME NEW x \in PointerAt, P(x)' # 0
       PROVE  P(x)' \notin free_bit_map' /\ P(x)' \notin Metadata
    <2>1. CASE P(x)' = P(x)
        BY <1>2, <1>10, <2>1 DEF OneOwner
    <2>2. CASE New(x) /\ P(x)' \notin free_bit_map'
        BY <2>2, SizeAssumption DEF TypeOK, DataBlocks, Metadata, PastTheMap
    <2> QED BY <1>8, <1>10, <2>1, <2>2
<1>11. ASSUME NEW x \in PointerAt, NEW y \in PointerAt, P(x)' # 0, P(y)' = P(x)'
       PROVE  y = x
    <2>1. CASE P(x)' = P(x) /\ P(y)' = P(y)
        BY <1>11, <2>1 DEF OneOwner
    <2>2. CASE New(x) /\ New(y)
        BY <1>9, <1>11, <2>2
    <2>3. CASE P(x)' = P(x) /\ New(y)
        BY <1>11, <2>3 DEF OneOwner
    <2>4. CASE New(x) /\ P(y)' = P(y)
        BY <1>11, <2>4 DEF OneOwner
    <2> QED BY <1>8, <1>11, <2>1, <2>2, <2>3, <2>4
<1>12. PointerAt' = PointerAt /\ Metadata' = Metadata
    BY DEF PointerAt, Inodes, Metadata
<1> QED BY <1>10, <1>11, <1>12 DEF OneOwner

LEMMA WriteOwned ==
    ASSUME TypeOK, OneOwner, NEW i \in Inodes, NEW buf \in Buf, sfs_fwrite(i, buf)
    PROVE  OneOwner'
<1>1. CASE UNCHANGED <<tables, blocks>>
    BY <1>1, SameInodes DEF tables, blocks
<1>2. CASE sfs_fwrite_full(i, fd_table[i] + Len(buf))
    BY <1>2, SameInodes DEF sfs_fwrite_full, tables
<1>3. CASE sfs_fwrite_done(i, buf)
    BY <1>3, WriteDoneOwned DEF sfs_fwrite_done
<1> QED BY <1>1, <1>2, <1>3 DEF sfs_fwrite, Refuse

LEMMA NextOwned == TypeOK /\ OneOwner /\ [Next]_vars => OneOwner'
<1> SUFFICES ASSUME TypeOK, OneOwner, [Next]_vars PROVE OneOwner'
    OBVIOUS
<1>1. CASE inode_table' = [i \in Inodes |-> EmptyInode]
    <2>1. inode_table' = [i \in Inodes |-> EmptyInode]
        BY <1>1
    <2>2. ASSUME NEW x \in PointerAt PROVE Pointer(x)' = 0
        <3>1. x[1] \in Inodes /\ x[2] \in 0 .. NDIRECT
            BY DEF PointerAt
        <3> QED BY <2>1, <3>1, SizeAssumption DEF Pointer, EmptyInode
    <2> QED BY <2>2 DEF OneOwner, PointerAt, Inodes, Metadata
<1>2. CASE sfs_getnextfilename
    BY <1>2, SameInodes DEF sfs_getnextfilename, blocks
<1>3. CASE \E n \in AnyName : sfs_fopen(n)
    BY <1>3, OpenOwned
<1>4. CASE \E n \in Name : sfs_getfilesize(n) \/ sfs_remove(n)
    BY <1>4, SameInodes DEF sfs_getfilesize, sfs_remove, tables, blocks
<1>5. CASE \E i \in Inodes : sfs_fclose(i)
    BY <1>5, CloseOwned
<1>6. CASE \E i \in Inodes, length \in ReadLen : sfs_fread(i, length)
    BY <1>6, SameInodes DEF sfs_fread, Refuse, tables, blocks
<1>7. CASE \E i \in Inodes, loc \in SeekTo : sfs_fseek(i, loc)
    BY <1>7, SameInodes DEF sfs_fseek, blocks
<1>8. CASE \E i \in Inodes, buf \in Buf : sfs_fwrite(i, buf)
    BY <1>8, WriteOwned
<1>9. CASE UNCHANGED vars
    BY <1>9, SameInodes DEF vars, tables, blocks
<1>10. CASE mksfs_fresh
    BY <1>1, <1>10 DEF mksfs_fresh
<1>11. CASE mksfs_old
    <2>1. CASE OverwrittenReadBack
        BY <2>1, SameInodes DEF OverwrittenReadBack
    <2> QED BY <1>1, <1>11, <2>1 DEF mksfs_old
<1>12. CASE sfs_unknown
    BY <1>12, SameInodes DEF sfs_unknown, tables, blocks
<1> QED BY <1>2, <1>3, <1>4, <1>5, <1>6, <1>7, <1>8, <1>9, <1>10, <1>11, <1>12 DEF Next

(* No block that an inode points to is pointed to twice, can be allocated  *)
(* again or holds metadata: with any numbers of inodes, blocks and         *)
(* pointers, after any full disk, remount or second format, and whatever   *)
(* the byte behind free_bit_map and memory that was never set hold - until *)
(* a mksfs(0) reads back metadata that a write was led to, and again after *)
(* the next mksfs(1).                                                      *)
THEOREM BlocksHaveOneOwner == Spec => []OwnedOnce
<1>1. Init => OneOwner
    BY EmptyOwned DEF Init
<1>2. OneOwner => OwnedOnce
    BY DEF OwnedOnce
<1> QED BY <1>1, <1>2, InitType, NextType, NextOwned, PTL DEF Spec

-----------------------------------------------------------------------------
(* The directory and the inodes.                                           *)

Blocked(i) == inode_table[i].mode = Opened \/ \E k \in 0 .. NDIRECT : Pointer(<<i, k>>) # 0
Reached(i) == \E s \in Inodes : rootDir[s].num = i /\ rootDir[s].name # NoName

(* A step that takes no name away, and opens or extends what has one.      *)
LEMMA NamesKept ==
    ASSUME Named,
           \A s \in Inodes : /\ rootDir'[s].num = rootDir[s].num
                             /\ rootDir[s].name # NoName => rootDir'[s].name # NoName,
           \A i \in Inodes : Blocked(i)' => Blocked(i) \/ Reached(i)'
    PROVE  Named'
<1>1. \A i \in Inodes : Reached(i) => Reached(i)'
    BY DEF Reached
<1> QED BY <1>1 DEF Named, Blocked, Reached

LEMMA NamesSame ==
    ASSUME Named, rootDir' = rootDir, inode_table' = inode_table
    PROVE  Named'
BY DEF Named, Pointer

(* What sfs_fopen leaves of the directory, and of the inodes.              *)
OldFile(n, s, i) ==
    /\ i = rootDir[s].num /\ rootDir[s].name = n /\ rootDir' = rootDir
    /\ inode_table' = [inode_table EXCEPT ![i].mode = Opened]

NewFile(n, s, i) ==
    /\ i = rootDir[s].num /\ rootDir[s].name = NoName /\ SlotsNamed(n) = {}
    /\ rootDir' = [rootDir EXCEPT ![s].name = n]
    /\ inode_table' = [inode_table EXCEPT ![i].size = 0, ![i].mode = Opened]

LEMMA OpenKeeps ==
    ASSUME NEW n \in AnyName, sfs_fopen(n)
    PROVE  \/ UNCHANGED <<inode_table, rootDir, up>>
           \/ /\ n \in Name /\ UNCHANGED <<inode_table, rootDir>>
              /\ Ended /\ \E s \in Inodes : rootDir[s].num \notin Inodes
           \/ /\ n \in Name /\ UNCHANGED up
              /\ \E s, i \in Inodes : OldFile(n, s, i) \/ NewFile(n, s, i)
<1>1. CASE Refused(n)
    BY <1>1 DEF Refused, Refuse, tables
<1>4. CASE n \in Name /\ Ended /\ \E s \in Inodes : rootDir[s].num \notin Inodes
    BY <1>4 DEF Ended, tables
<1>2. ASSUME NEW s \in Inodes, NEW i \in Inodes, OpenedOld(n, s, i)
      PROVE  n \in Name /\ UNCHANGED up /\ OldFile(n, s, i)
    BY <1>2 DEF OpenedOld, OpenOld, OldFile, SlotsNamed
<1>3. ASSUME NEW s \in Inodes, NEW i \in Inodes, OpenedNew(n, s, i)
      PROVE  n \in Name /\ UNCHANGED up /\ NewFile(n, s, i)
    BY <1>3 DEF OpenedNew, OpenNew, NewFile, EmptySlots
<1> QED BY <1>1, <1>2, <1>3, <1>4, OpenSplit

LEMMA OpenNamed ==
    ASSUME TypeOK, Named, NEW n \in AnyName, sfs_fopen(n)
    PROVE  Named'
<1>1. CASE UNCHANGED <<inode_table, rootDir>>
    BY <1>1, NamesSame
<1>2. ASSUME n \in Name, NEW s \in Inodes, NEW i \in Inodes,
             OldFile(n, s, i) \/ NewFile(n, s, i)
      PROVE  Named'
    <2>1. n # NoName /\ i = rootDir[s].num
        BY <1>2, NameAssumption DEF OldFile, NewFile
    <2>2. /\ \A r \in Inodes : /\ rootDir'[r].num = rootDir[r].num
                               /\ rootDir[r].name # NoName => rootDir'[r].name # NoName
          /\ rootDir'[s].name # NoName
        <3>1. CASE OldFile(n, s, i)
            BY <2>1, <3>1 DEF OldFile
        <3>2. CASE NewFile(n, s, i)
            BY <2>1, <3>2 DEF NewFile, TypeOK, directory_entry
        <3> QED BY <1>2, <3>1, <3>2
    <2>3. Reached(i)'
        BY <2>1, <2>2 DEF Reached
    <2>4. \A j \in Inodes : j # i => inode_table'[j] = inode_table[j]
        BY <1>2 DEF OldFile, NewFile, TypeOK
    <2>5. ASSUME NEW j \in Inodes, Blocked(j)' PROVE Blocked(j) \/ Reached(j)'
        <3>1. CASE j = i
            BY <2>3, <3>1
        <3>2. CASE j # i
            BY <2>4, <2>5, <3>2 DEF Blocked, Pointer
        <3> QED BY <3>1, <3>2
    <2> QED BY <2>2, <2>5, NamesKept
<1> QED BY <1>1, <1>2, OpenKeeps

(* A write: only an open file is extended.                                 *)
LEMMA WriteNamed ==
    ASSUME TypeOK, Named, NEW i \in Inodes, NEW buf \in Buf, sfs_fwrite(i, buf)
    PROVE  Named'
<1>1. CASE UNCHANGED <<inode_table, rootDir>>
    BY <1>1, NamesSame
<1>2. CASE sfs_fwrite_done(i, buf) /\ inode_table[i].mode # Closed
    <2>1. PICK s, blk : sfs_fwrite_using(i, buf, s, blk)
        BY <1>2 DEF sfs_fwrite_done
    <2>2. rootDir' = rootDir
        BY <2>1 DEF sfs_fwrite_using
    <2>3. \A j \in Inodes \ {i} : inode_table'[j] = inode_table[j]
        BY <2>1 DEF sfs_fwrite_using, TypeOK
    <2>4. Blocked(i)
        BY <1>2 DEF Blocked, TypeOK, inode_t
    <2>5. \A j \in Inodes : Blocked(j)' => Blocked(j)
        BY <2>3, <2>4 DEF Blocked, Pointer
    <2> QED BY <2>2, <2>5, NamesKept
<1> QED BY <1>1, <1>2 DEF sfs_fwrite, sfs_fwrite_full, Refuse, tables

LEMMA NothingBlocked ==
    ASSUME NEW table, table = [i \in Inodes |-> EmptyInode], NEW i \in Inodes
    PROVE  /\ table[i].mode # Opened
           /\ table[i].indirectPointer = 0
           /\ \A k \in 0 .. NDIRECT : k # NDIRECT => table[i].data_ptrs[k] = 0
<1>1. table[i] = EmptyInode
    OBVIOUS
<1>2. ASSUME NEW k \in 0 .. NDIRECT, k # NDIRECT PROVE k \in 0 .. NDIRECT - 1
    BY <1>2, SizeAssumption
<1>3. table[i].mode = 1 /\ table[i].indirectPointer = 0
    BY <1>1 DEF EmptyInode, Closed
<1>4. table[i].data_ptrs = [k \in 0 .. NDIRECT - 1 |-> 0]
    BY <1>1 DEF EmptyInode
<1>5. \A k \in 0 .. NDIRECT : k # NDIRECT => table[i].data_ptrs[k] = 0
    BY <1>2, <1>4
<1> QED BY <1>3, <1>5 DEF Opened

LEMMA NamesStep == TypeOK /\ Named /\ [Next]_vars => Named'
<1> SUFFICES ASSUME TypeOK, Named, [Next]_vars PROVE Named'
    OBVIOUS
<1>1. CASE inode_table' = [i \in Inodes |-> EmptyInode]
    <2>1. inode_table' = [i \in Inodes |-> EmptyInode]
        BY <1>1
    <2>2. \A i \in Inodes : ~Blocked(i)'
        BY <2>1, NothingBlocked DEF Blocked, Pointer
    <2> QED BY <2>2 DEF Named, Blocked
<1>2. CASE \E n \in AnyName : sfs_fopen(n)
    BY <1>2, OpenNamed
<1>3. CASE \E i \in Inodes, buf \in Buf : sfs_fwrite(i, buf)
    BY <1>3, WriteNamed
<1>4. CASE \E i \in Inodes : sfs_fclose(i)
    <2> PICK i \in Inodes : sfs_fclose(i)
        BY <1>4
    <2>1. CASE Refuse
        BY <2>1, NamesSame DEF Refuse, tables
    <2>2. CASE rootDir' = rootDir /\ inode_table' = [inode_table EXCEPT ![i].mode = Closed]
        <3>1. \A j \in Inodes : /\ inode_table'[j].mode = Opened => inode_table[j].mode = Opened
                                /\ inode_table'[j].data_ptrs = inode_table[j].data_ptrs
                                /\ inode_table'[j].indirectPointer = inode_table[j].indirectPointer
            BY <2>2 DEF TypeOK, inode_t, Opened, Closed
        <3>2. \A j \in Inodes : Blocked(j)' => Blocked(j)
            BY <3>1 DEF Blocked, Pointer
        <3> QED BY <2>2, <3>2, NamesKept
    <2> QED BY <2>1, <2>2 DEF sfs_fclose
<1>5. CASE \/ sfs_getnextfilename
           \/ \E n \in Name : sfs_getfilesize(n) \/ sfs_remove(n)
           \/ \E i \in Inodes, length \in ReadLen : sfs_fread(i, length)
           \/ \E i \in Inodes, loc \in SeekTo : sfs_fseek(i, loc)
           \/ sfs_unknown
           \/ UNCHANGED vars
    BY <1>5, NamesSame DEF sfs_getnextfilename, sfs_getfilesize, sfs_remove, sfs_fread, sfs_fseek,
                           sfs_unknown, Refuse, vars, tables
<1>6. CASE mksfs_fresh
    BY <1>1, <1>6 DEF mksfs_fresh
<1>7. CASE mksfs_old
    <2>1. CASE OverwrittenReadBack
        BY <2>1, NamesSame DEF OverwrittenReadBack
    <2> QED BY <1>1, <1>7, <2>1 DEF mksfs_old
<1> QED BY <1>2, <1>3, <1>4, <1>5, <1>6, <1>7 DEF Next

LEMMA NamesInit == Init => Named
<1> SUFFICES ASSUME Init PROVE Named
    OBVIOUS
<1>1. inode_table = [i \in Inodes |-> EmptyInode]
    BY DEF Init
<1>2. \A i \in Inodes : ~Blocked(i)
    BY <1>1, NothingBlocked DEF Blocked, Pointer
<1> QED BY <1>2 DEF Named, Blocked

(* No block and no open file without a name, whatever the entries past    *)
(* the directory's two blocks come back as - until a mksfs(0) reads back   *)
(* metadata that a write was led to, and again after the next mksfs(1).    *)
THEOREM BlocksAreNamed == Spec => []BlocksHaveAName
<1>1. Named => BlocksHaveAName
    BY DEF BlocksHaveAName
<1> QED BY <1>1, InitType, NextType, NamesInit, NamesStep, PTL DEF Spec

-----------------------------------------------------------------------------
(* While the directory comes back as mksfs(1) wrote it, every entry keeps  *)
(* its own inode.                                                          *)

(* No mksfs(0) brings back entries other than the empty ones: so it is     *)
(* until the first mksfs(0), for clients that call mksfs(1) only (the      *)
(* daemon is one), and after a mksfs(0) whose memory holds such entries.   *)
ComesBack == mksfs_old => rootDir' = EmptyDir

DirectoryComesBack == [][ComesBack]_vars

DirInv ==
    \A s \in Inodes :
        /\ rootDir[s].num = s
        /\ \A t \in Inodes : s # t =>
              rootDir[s].name = NoName \/ rootDir[s].name # rootDir[t].name

LEMMA DirOneFile == DirInv => OneFilePerInode
BY DEF DirInv, OneFilePerInode

LEMMA EmptySlotFields ==
    ASSUME NEW e, NEW s, e = EmptySlot(s)
    PROVE  e.num = s /\ e.name = NoName
BY DEF EmptySlot

LEMMA EmptyDirInv ==
    ASSUME NEW dir, dir = EmptyDir, NEW s \in Inodes
    PROVE  dir[s].num = s /\ dir[s].name = NoName
BY DEF EmptyDir, EmptySlot

LEMMA SameDir ==
    ASSUME DirInv, rootDir' = rootDir
    PROVE  DirInv'
BY DEF DirInv

LEMMA OpenDir ==
    ASSUME TypeOK, DirInv, NEW n \in AnyName, sfs_fopen(n)
    PROVE  DirInv'
<1>1. CASE rootDir' = rootDir
    BY <1>1, SameDir
<1>2. ASSUME NEW s \in Inodes, NEW i \in Inodes, NewFile(n, s, i)
      PROVE  DirInv'
    <2>1. /\ \A t \in Inodes : rootDir'[t].num = rootDir[t].num
          /\ \A t \in Inodes : rootDir'[t].name = IF t = s THEN n ELSE rootDir[t].name
        BY <1>2 DEF NewFile, TypeOK, directory_entry
    <2>2. \A t \in Inodes : rootDir[t].name # n
        BY <1>2 DEF NewFile, SlotsNamed
    <2> QED BY <2>1, <2>2 DEF DirInv
<1>3. ASSUME NEW s \in Inodes, NEW i \in Inodes, OldFile(n, s, i)
      PROVE  DirInv'
    BY <1>1, <1>3 DEF OldFile
<1> QED BY <1>1, <1>2, <1>3, OpenKeeps

LEMMA DirStep == TypeOK /\ DirInv /\ [Next]_vars /\ [ComesBack]_vars => DirInv'
<1> SUFFICES ASSUME TypeOK, DirInv, [Next]_vars, [ComesBack]_vars PROVE DirInv'
    OBVIOUS
<1>1. CASE rootDir' = EmptyDir
    <2>1. \A s \in Inodes : rootDir'[s].num = s /\ rootDir'[s].name = NoName
        BY <1>1, EmptyDirInv
    <2> QED BY <2>1 DEF DirInv
<1>2. CASE \E n \in AnyName : sfs_fopen(n)
    BY <1>2, OpenDir
<1>3. CASE \E i \in Inodes, buf \in Buf : sfs_fwrite(i, buf)
    <2> PICK i \in Inodes, buf \in Buf : sfs_fwrite(i, buf)
        BY <1>3
    <2>1. CASE sfs_fwrite_done(i, buf)
        <3> PICK s, blk : sfs_fwrite_using(i, buf, s, blk)
            BY <2>1 DEF sfs_fwrite_done
        <3>1. rootDir' = rootDir
            BY DEF sfs_fwrite_using
        <3> QED BY <3>1, SameDir
    <2>2. CASE ~sfs_fwrite_done(i, buf)
        BY <2>2, SameDir DEF sfs_fwrite, sfs_fwrite_full, Refuse, tables
    <2> QED BY <2>1, <2>2
<1>4. CASE \/ sfs_getnextfilename
           \/ \E n \in Name : sfs_getfilesize(n) \/ sfs_remove(n)
           \/ \E i \in Inodes : sfs_fclose(i)
           \/ \E i \in Inodes, length \in ReadLen : sfs_fread(i, length)
           \/ \E i \in Inodes, loc \in SeekTo : sfs_fseek(i, loc)
           \/ sfs_unknown
           \/ UNCHANGED vars
    BY <1>4, SameDir DEF sfs_getnextfilename, sfs_getfilesize, sfs_remove, sfs_fclose, sfs_fread,
                         sfs_fseek, sfs_unknown, Refuse, vars, tables
<1>5. CASE mksfs_fresh
    BY <1>1, <1>5 DEF mksfs_fresh
<1>6. CASE mksfs_old /\ ~UNCHANGED vars
    BY <1>1, <1>6 DEF ComesBack
<1> QED BY <1>2, <1>3, <1>4, <1>5, <1>6 DEF Next

LEMMA DirInit == Init => DirInv
BY EmptyDirInv DEF Init, DirInv

(* No two names lead to one inode and no name stands twice, after any     *)
(* calls, with any numbers of inodes and blocks, until a mksfs(0) brings   *)
(* back a directory other than the empty one it wrote.                     *)
THEOREM FilesAreOneToOne == Spec /\ DirectoryComesBack => []OneFilePerInode
BY DirStep, InitType, NextType, DirInit, DirOneFile, PTL DEF Spec, DirectoryComesBack

-----------------------------------------------------------------------------
(* The difference that wraps around: a file with an indirect block is at   *)
(* least as long as its direct part, unless two entries share an inode.    *)

LongEnough == \A i \in Inodes : HasIndirect(i) => inode_table[i].size >= DIRECT_SIZE

CrashInv == known => Damaged \/ (up /\ LongEnough)

LEMMA CeilDivBeyond ==
    ASSUME NEW a \in Int, NEW b \in Nat \ {0}, NEW k \in Int, CeilDiv(a, b) > k
    PROVE  a > k * b
<1> DEFINE q == CeilDiv(a, b)
<1>1. q \in Int /\ b * q <= a + b - 1
    BY DEF CeilDiv
<1> HIDE DEF q
<1>2. q >= k + 1
    BY <1>1 DEF q
<1>3. b * (k + 1) <= b * q
    BY <1>1, <1>2
<1>4. b * (k + 1) = k * b + b
    OBVIOUS
<1> QED BY <1>1, <1>3, <1>4

LEMMA DirectInUseBound ==
    ASSUME NEW i \in Inodes PROVE DirectInUse(i) \in 0 .. NDIRECT
<1> DEFINE S == {k \in 0 .. NDIRECT :
                    k = NDIRECT \/ inode_table[i].data_ptrs[k] = 0}
<1>1. S \in SUBSET Nat /\ NDIRECT \in S /\ S \subseteq 0 .. NDIRECT
    BY SizeAssumption
<1>2. First(S) \in S
    <2> HIDE DEF S
    <2> QED BY <1>1, FirstLemma
<1> QED BY <1>1, <1>2 DEF DirectInUse

(* An indirect block is made only for a write that ends behind the direct  *)
(* part.                                                                   *)
LEMMA NeedsLength ==
    ASSUME NEW i \in Inodes, NEW e \in Nat, NeedsIndirect(i, numNewBlocks(i, e))
    PROVE  e > DIRECT_SIZE
<1> DEFINE old == numBlocks(i)
           a == e - old * BLOCK_SIZE
<1>1. old \in 0 .. NDIRECT
    BY DirectInUseBound DEF NeedsIndirect, numBlocks
<1>2. numNewBlocks(i, e) > NDIRECT - old
    BY DEF NeedsIndirect
<1>3. old \in Int /\ NDIRECT - old \in Nat /\ a \in Int /\ BLOCK_SIZE \in Nat \ {0} /\ NDIRECT \in Nat
    BY <1>1, SizeAssumption
<1>4. CeilDiv(a, BLOCK_SIZE) > NDIRECT - old
    BY <1>2, <1>3 DEF numNewBlocks
<1> HIDE DEF a
<1>5. a > (NDIRECT - old) * BLOCK_SIZE
    BY <1>3, <1>4, CeilDivBeyond
<1> HIDE DEF old
<1>6. e - old * BLOCK_SIZE > (NDIRECT - old) * BLOCK_SIZE
    BY <1>5 DEF a
<1>7. (NDIRECT - old) * BLOCK_SIZE = NDIRECT * BLOCK_SIZE - old * BLOCK_SIZE
    BY <1>3
<1>8. old * BLOCK_SIZE \in Int /\ NDIRECT * BLOCK_SIZE \in Int
    BY <1>3
<1> QED BY <1>6, <1>7, <1>8 DEF DIRECT_SIZE

(* What keeps the numbers of the directory keeps its damage.               *)
LEMMA DamageStays ==
    ASSUME Damaged, \A s \in Inodes : rootDir'[s].num = rootDir[s].num
    PROVE  Damaged'
BY DEF Damaged, Inodes

LEMMA DamageIsEnough == Damaged' => CrashInv'
BY DEF CrashInv

LEMMA SameLengths ==
    ASSUME CrashInv, UNCHANGED <<up, known, rootDir>>,
           \A i \in Inodes : /\ inode_table'[i].indirectPointer = inode_table[i].indirectPointer
                             /\ inode_table'[i].size = inode_table[i].size
    PROVE  CrashInv'
<1>1. LongEnough => LongEnough'
    BY DEF LongEnough, HasIndirect, DIRECT_SIZE
<1> QED BY <1>1, DamageStays DEF CrashInv

(* A process that ends after a step that only reads leaves the damage.     *)
LEMMA EndsDamaged ==
    ASSUME known => Damaged, UNCHANGED <<known, rootDir>>
    PROVE  CrashInv'
BY DamageStays DEF CrashInv

LEMMA OpenCrash ==
    ASSUME TypeOK, Named, CrashInv, NEW n \in AnyName, sfs_fopen(n)
    PROVE  CrashInv'
<1>0. known' = known /\ known
    BY DEF sfs_fopen, Runs, Refuse, OpenOld, OpenNew, blocks
<1>1. CASE UNCHANGED <<inode_table, rootDir, up>>
    BY <1>0, <1>1, SameLengths
<1>4. CASE UNCHANGED rootDir /\ \E s \in Inodes : rootDir[s].num \notin Inodes
    BY <1>0, <1>4, EndsDamaged DEF Damaged
<1>2. ASSUME UNCHANGED up, NEW s \in Inodes, NEW i \in Inodes, OldFile(n, s, i)
      PROVE  CrashInv'
    <2>1. rootDir' = rootDir
        BY <1>2 DEF OldFile
    <2>2. \A j \in Inodes : /\ inode_table'[j].indirectPointer = inode_table[j].indirectPointer
                            /\ inode_table'[j].size = inode_table[j].size
        BY <1>2 DEF OldFile, TypeOK, inode_t
    <2>3. LongEnough => LongEnough'
        BY <2>2 DEF LongEnough, HasIndirect, DIRECT_SIZE
    <2> QED BY <1>0, <1>2, <2>1, <2>3, DamageStays DEF CrashInv
<1>3. ASSUME UNCHANGED up, NEW s \in Inodes, NEW i \in Inodes, NewFile(n, s, i)
      PROVE  CrashInv'
    <2>0. i = rootDir[s].num /\ rootDir[s].name = NoName
        BY <1>3 DEF NewFile
    <2>1. \A r \in Inodes : rootDir'[r].num = rootDir[r].num
        BY <1>3 DEF NewFile, TypeOK, directory_entry
    <2>2. CASE Damaged
        <3>1. Damaged'
            BY <2>1, <2>2, DamageStays, Zenon
        <3> QED BY <3>1, DamageIsEnough
    <2>3. CASE ~Damaged /\ up /\ LongEnough
        <3>1. ~HasIndirect(i)
            <4>1. HasIndirect(i) => Pointer(<<i, NDIRECT>>) # 0
                BY DEF HasIndirect, Pointer
            <4>2. HasIndirect(i) => \E t \in Inodes : rootDir[t].num = i /\ rootDir[t].name # NoName
                BY <4>1, SizeAssumption DEF Named
            <4> QED BY <2>0, <2>3, <4>2 DEF Damaged
        <3>2. \A j \in Inodes : /\ inode_table'[j].indirectPointer = inode_table[j].indirectPointer
                                /\ j # i => inode_table'[j].size = inode_table[j].size
            BY <1>3 DEF NewFile, TypeOK, inode_t
        <3>3. ASSUME NEW j \in Inodes, HasIndirect(j)' PROVE inode_table'[j].size >= DIRECT_SIZE
            <4>1. HasIndirect(j) /\ j # i
                BY <3>1, <3>2, <3>3 DEF HasIndirect
            <4> QED BY <2>3, <3>2, <4>1 DEF LongEnough
        <3>4. LongEnough' /\ up'
            BY <1>3, <2>3, <3>3 DEF LongEnough, Inodes, DIRECT_SIZE
        <3> QED BY <3>4 DEF CrashInv
    <2> QED BY <1>0, <2>2, <2>3 DEF CrashInv
<1> QED BY <1>1, <1>2, <1>3, <1>4, OpenKeeps

(* A write: if it makes an indirect block the file is longer than its      *)
(* direct part, and no write makes a file shorter.                         *)
LEMMA WriteCrash ==
    ASSUME TypeOK, CrashInv, NEW i \in Inodes, NEW buf \in Buf, sfs_fwrite(i, buf)
    PROVE  CrashInv'
<1> DEFINE e == fd_table[i] + Len(buf)
<1>0. e \in Nat
    BY ClientAssumption DEF TypeOK
<1>1. CASE Refuse /\ UNCHANGED up
    BY <1>1, SameLengths DEF Refuse, tables, blocks
<1>2. CASE sfs_fwrite_full(i, e) /\ UNCHANGED up
    BY <1>2, SameLengths DEF sfs_fwrite_full, tables
<1>3. CASE WrapsAround(i) /\ UNCHANGED <<tables, blocks>>
    <2>1. ~LongEnough
        BY <1>3, SizeAssumption DEF WrapsAround, LongEnough, DIRECT_SIZE, TypeOK, inode_t
    <2> QED BY <1>3, <2>1, EndsDamaged DEF CrashInv, tables, blocks
<1>4. CASE sfs_fwrite_done(i, buf) /\ ~WrapsAround(i) /\ UNCHANGED up
    <2>1. PICK s, blk : sfs_fwrite_using(i, buf, s, blk)
        BY <1>4 DEF sfs_fwrite_done
    <2>2. rootDir' = rootDir /\ known' = known
        BY <2>1 DEF sfs_fwrite_using
    <2> DEFINE n == numNewBlocks(i, e)
    <2>3. /\ inode_table'[i].size = IF e > inode_table[i].size THEN e ELSE inode_table[i].size
          /\ inode_table'[i].indirectPointer = IndirectAfter(i, n, s)
        BY <2>1 DEF sfs_fwrite_using, TypeOK, inode_t
    <2>4. \A j \in Inodes : j # i => inode_table'[j] = inode_table[j]
        BY <2>1 DEF sfs_fwrite_using, TypeOK
    <2>5. inode_table[i].size \in Nat /\ DIRECT_SIZE \in Nat
        BY SizeAssumption DEF TypeOK, inode_t, DIRECT_SIZE
    <2>6. NeedsIndirect(i, n) => e > DIRECT_SIZE
        BY <1>0, NeedsLength
    <2>7. HasIndirect(i)' => NeedsIndirect(i, n) \/ HasIndirect(i)
        BY <2>3 DEF HasIndirect, IndirectAfter
    <2>8. HasIndirect(i) => inode_table[i].size >= DIRECT_SIZE
        BY <1>4, <2>5 DEF WrapsAround
    <2> HIDE DEF e
    <2>9. HasIndirect(i)' => inode_table'[i].size >= DIRECT_SIZE
        BY <1>0, <2>3, <2>5, <2>6, <2>7, <2>8
    <2>10. LongEnough => LongEnough'
        BY <2>4, <2>9 DEF LongEnough, HasIndirect, DIRECT_SIZE
    <2> QED BY <1>4, <2>2, <2>10, DamageStays DEF CrashInv
<1> QED BY <1>1, <1>2, <1>3, <1>4 DEF sfs_fwrite

LEMMA CrashStep == TypeOK /\ Named /\ CrashInv /\ [Next]_vars => CrashInv'
<1> SUFFICES ASSUME TypeOK, Named, CrashInv, [Next]_vars PROVE CrashInv'
    OBVIOUS
<1>1. CASE inode_table' = [i \in Inodes |-> EmptyInode] /\ up'
    <2>1. inode_table' = [i \in Inodes |-> EmptyInode] /\ up'
        BY <1>1
    <2>2. \A i \in Inodes : ~HasIndirect(i)'
        BY <2>1, NothingBlocked DEF HasIndirect
    <2> QED BY <2>1, <2>2 DEF CrashInv, LongEnough
<1>2. CASE \E n \in AnyName : sfs_fopen(n)
    BY <1>2, OpenCrash
<1>3. CASE \E i \in Inodes, buf \in Buf : sfs_fwrite(i, buf)
    BY <1>3, WriteCrash
<1>4. CASE \E i \in Inodes : sfs_fclose(i)
    <2> PICK i \in Inodes : sfs_fclose(i)
        BY <1>4
    <2>1. UNCHANGED <<rootDir, up, known>>
        BY DEF sfs_fclose, Refuse, tables, blocks
    <2>2. \/ inode_table' = inode_table
          \/ inode_table' = [inode_table EXCEPT ![i].mode = Closed]
        BY DEF sfs_fclose, Refuse, tables
    <2>3. \A j \in Inodes : /\ inode_table'[j].indirectPointer = inode_table[j].indirectPointer
                            /\ inode_table'[j].size = inode_table[j].size
        <3>1. CASE inode_table' = inode_table
            BY <3>1
        <3>2. CASE inode_table' = [inode_table EXCEPT ![i].mode = Closed]
            BY <3>2 DEF TypeOK, inode_t
        <3> QED BY <2>2, <3>1, <3>2
    <2> QED BY <2>1, <2>3, SameLengths
<1>5. CASE \E i \in Inodes, length \in ReadLen : sfs_fread(i, length)
    <2> PICK i \in Inodes, length \in ReadLen : sfs_fread(i, length)
        BY <1>5
    <2>1. UNCHANGED <<rootDir, inode_table, known>>
        BY DEF sfs_fread, Refuse, tables, blocks
    <2>2. up' = up \/ WrapsAround(i)
        BY DEF sfs_fread
    <2>3. CASE up' = up
        BY <2>1, <2>3, SameLengths
    <2>4. CASE WrapsAround(i)
        <3>1. ~LongEnough
            BY <2>4, SizeAssumption DEF WrapsAround, LongEnough, DIRECT_SIZE, TypeOK, inode_t
        <3> QED BY <2>1, <3>1, EndsDamaged DEF CrashInv
    <2> QED BY <2>2, <2>3, <2>4
<1>6. CASE \E n \in Name : sfs_getfilesize(n)
    <2> PICK n \in Name : sfs_getfilesize(n)
        BY <1>6
    <2> DEFINE i == rootDir[First(SlotsNamed(n))].num
    <2>1. UNCHANGED <<rootDir, inode_table, known>>
        BY DEF sfs_getfilesize, tables, blocks
    <2>2. CASE UNCHANGED up
        BY <2>1, <2>2, SameLengths
    <2>3. CASE SlotsNamed(n) # {} /\ i \notin Inodes
        <3>1. First(SlotsNamed(n)) \in Inodes
            BY <2>3, FoundSlot DEF SlotsNamed
        <3>2. Damaged
            BY <2>3, <3>1 DEF Damaged
        <3> QED BY <2>1, <3>2, EndsDamaged
    <2> QED BY <2>2, <2>3 DEF sfs_getfilesize
<1>7. CASE \/ sfs_getnextfilename
           \/ \E n \in Name : sfs_remove(n)
           \/ \E i \in Inodes, loc \in SeekTo : sfs_fseek(i, loc)
           \/ UNCHANGED vars
    BY <1>7, SameLengths DEF sfs_getnextfilename, sfs_remove, sfs_fseek, vars, tables, blocks
<1>8. CASE mksfs_fresh \/ (mksfs_old /\ ~OverwrittenReadBack)
    BY <1>1, <1>8 DEF mksfs_fresh, mksfs_old, Runs
<1>9. CASE (mksfs_old /\ OverwrittenReadBack) \/ sfs_unknown
    BY <1>9 DEF OverwrittenReadBack, sfs_unknown, CrashInv, blocks
<1> QED BY <1>2, <1>3, <1>4, <1>5, <1>6, <1>7, <1>8, <1>9 DEF Next

LEMMA CrashInit == Init => CrashInv
<1> SUFFICES ASSUME Init PROVE CrashInv
    OBVIOUS
<1>1. inode_table = [i \in Inodes |-> EmptyInode] /\ up
    BY DEF Init
<1>2. \A i \in Inodes : ~HasIndirect(i)
    BY <1>1, NothingBlocked DEF HasIndirect
<1> QED BY <1>1, <1>2 DEF CrashInv, LongEnough

(* Known tables end the process, or make it write outside of them, only    *)
(* with a damaged directory, one with two entries of one inode or with an  *)
(* entry of none.                                                          *)
THEOREM CrashNeedsDamage == Spec => []CrashNeedsADamagedDirectory
<1>1. CrashInv => CrashNeedsADamagedDirectory
    BY DEF CrashInv, CrashNeedsADamagedDirectory
<1> QED BY <1>1, InitType, NextType, NamesInit, NamesStep, CrashInit, CrashStep, PTL DEF Spec
-----------------------------------------------------------------------------
(* Blocks and offsets.                                                     *)

LEMMA DivMod ==
    ASSUME NEW r \in Nat
    PROVE  /\ r \div BLOCK_SIZE \in Nat /\ r % BLOCK_SIZE \in Offsets
           /\ r = BLOCK_SIZE * (r \div BLOCK_SIZE) + (r % BLOCK_SIZE)
BY SizeAssumption DEF Offsets

LEMMA SamePlace ==
    ASSUME NEW r \in Nat, NEW t \in Nat,
           r \div BLOCK_SIZE = t \div BLOCK_SIZE, r % BLOCK_SIZE = t % BLOCK_SIZE
    PROVE  r = t
BY DivMod

LEMMA BlockBelow ==
    ASSUME NEW r \in Nat, NEW m \in Nat, r < m * BLOCK_SIZE
    PROVE  r \div BLOCK_SIZE < m
<1> DEFINE q == r \div BLOCK_SIZE
<1>1. q \in Nat /\ BLOCK_SIZE * q <= r /\ BLOCK_SIZE \in Nat \ {0}
    BY DivMod, SizeAssumption DEF Offsets
<1> HIDE DEF q
<1>2. ASSUME q >= m PROVE FALSE
    <2>1. BLOCK_SIZE * q >= BLOCK_SIZE * m
        BY <1>1, <1>2
    <2> QED BY <1>1, <2>1
<1>3. q < m
    BY <1>1, <1>2
<1> QED BY <1>3 DEF q

LEMMA BlockOrder ==
    ASSUME NEW r \in Nat, NEW t \in Nat, r <= t
    PROVE  r \div BLOCK_SIZE <= t \div BLOCK_SIZE
<1> DEFINE q == t \div BLOCK_SIZE
<1>1. q \in Nat /\ t < BLOCK_SIZE * q + BLOCK_SIZE /\ BLOCK_SIZE \in Nat \ {0}
    BY DivMod, SizeAssumption DEF Offsets
<1> HIDE DEF q
<1>2. q + 1 \in Nat /\ (q + 1) * BLOCK_SIZE = BLOCK_SIZE * q + BLOCK_SIZE
    BY <1>1
<1>3. r < (q + 1) * BLOCK_SIZE
    BY <1>1, <1>2
<1>4. r \div BLOCK_SIZE < q + 1
    BY <1>2, <1>3, BlockBelow
<1>5. r \div BLOCK_SIZE \in Nat
    BY DivMod
<1>6. r \div BLOCK_SIZE <= q
    BY <1>1, <1>4, <1>5
<1> QED BY <1>6 DEF q

(* CeilDiv blocks are enough.                                              *)
LEMMA CeilDivEnough ==
    ASSUME NEW a \in Nat
    PROVE  /\ CeilDiv(a, BLOCK_SIZE) \in Nat
           /\ a <= CeilDiv(a, BLOCK_SIZE) * BLOCK_SIZE
<1> DEFINE b == BLOCK_SIZE
           q == (a + b - 1) \div b
<1>1. b \in Nat \ {0} /\ a + b - 1 \in Nat
    BY SizeAssumption
<1>2. q \in Nat /\ (a + b - 1) % b \in 0 .. b - 1
          /\ a + b - 1 = b * q + ((a + b - 1) % b)
    BY <1>1, DivMod DEF Offsets
<1>3. q = CeilDiv(a, BLOCK_SIZE)
    BY DEF CeilDiv
<1> HIDE DEF q, b
<1>4. a <= b * q /\ b * q = q * b
    BY <1>1, <1>2
<1> QED BY <1>2, <1>3, <1>4 DEF b

-----------------------------------------------------------------------------
(* Metadata is overwritten through an indirect block only.                 *)

(* The blocks of a write without one: those in use are pointed to, the     *)
(* others were free.                                                       *)
LEMMA DirectWrites ==
    ASSUME TypeOK, OneOwner, NEW i \in Inodes, NEW buf \in Buf, ~HasIndirect(i),
           NEW s \in Allocations(numNewBlocks(i, fd_table[i] + Len(buf))),
           NEW q \in Touched(fd_table[i], fd_table[i] + Len(buf))
    PROVE  LET w == IF q >= numBlocks(i) THEN s[q - numBlocks(i)]
                    ELSE Loaded(i, q, CopiedForWrite(i))
           IN  w # Unspec /\ w \notin Metadata \ {0}
<1> DEFINE p == fd_table[i]
           e == p + Len(buf)
           old == numBlocks(i)
           n == numNewBlocks(i, e)
<1>1. p \in Nat /\ Len(buf) \in Nat /\ e \in Nat
    BY ClientAssumption DEF TypeOK
<1>2. old = DirectInUse(i) /\ old \in 0 .. NDIRECT
    BY DirectInUseBound DEF numBlocks
<1>3. p < e /\ q \in p \div BLOCK_SIZE .. (e - 1) \div BLOCK_SIZE
    BY <1>1 DEF Touched
<1>4. p \div BLOCK_SIZE \in Nat /\ (e - 1) \div BLOCK_SIZE \in Nat
    <2>1. e - 1 \in Nat
        BY <1>1, <1>3
    <2> HIDE DEF p, e
    <2> QED BY <1>1, <2>1, DivMod
<1>5. q \in Nat /\ q <= (e - 1) \div BLOCK_SIZE
    <2> DEFINE a == p \div BLOCK_SIZE
               b == (e - 1) \div BLOCK_SIZE
    <2>1. a \in Nat /\ b \in Nat /\ q \in a .. b
        BY <1>3, <1>4
    <2> HIDE DEF a, b
    <2> QED BY <2>1 DEF b
<1>6. CASE q >= old
    <2>1. q - old \in DOMAIN s
        <3>1. e - 1 \in Nat /\ old \in Nat
            BY <1>1, <1>2, <1>3
        <3>2. n \in Nat /\ e <= (old + n) * BLOCK_SIZE
            <4> DEFINE a == e - old * BLOCK_SIZE
            <4>1. old * BLOCK_SIZE \in Nat /\ a \in Int /\ BLOCK_SIZE \in Nat
                BY <1>1, <3>1, SizeAssumption
            <4>2. n = IF old * BLOCK_SIZE < e THEN CeilDiv(a, BLOCK_SIZE) ELSE 0
                BY DEF numNewBlocks
            <4> HIDE DEF n, old, e
            <4>3. n \in Nat /\ a <= n * BLOCK_SIZE
                <5>1. CASE old * BLOCK_SIZE < e
                    <6>1. a \in Nat
                        BY <1>1, <4>1, <5>1
                    <6> HIDE DEF a
                    <6> QED BY <4>2, <5>1, <6>1, CeilDivEnough
                <5>2. CASE ~ (old * BLOCK_SIZE < e)
                    BY <1>1, <4>1, <4>2, <5>2
                <5> QED BY <5>1, <5>2
            <4>4. (old + n) * BLOCK_SIZE = old * BLOCK_SIZE + n * BLOCK_SIZE
                     /\ n * BLOCK_SIZE \in Nat
                BY <3>1, <4>1, <4>3
            <4> QED BY <1>1, <4>1, <4>3, <4>4
        <3> HIDE DEF n, old, e
        <3>3. (e - 1) \div BLOCK_SIZE < old + n
            <4>1. (old + n) * BLOCK_SIZE \in Int /\ old + n \in Nat
                BY <3>1, <3>2, SizeAssumption
            <4>2. e - 1 < (old + n) * BLOCK_SIZE
                BY <1>1, <3>2, <4>1
            <4> QED BY <3>1, <4>1, <4>2, BlockBelow
        <3>4. q - old \in 0 .. n - 1
            <4> DEFINE b == (e - 1) \div BLOCK_SIZE
            <4>1. b \in Nat /\ q <= b /\ b < old + n
                BY <1>4, <1>5, <3>3 DEF e
            <4> HIDE DEF b
            <4> QED BY <1>5, <1>6, <3>1, <3>2, <4>1
        <3>5. DOMAIN s = 0 .. n - 1
            BY DEF Allocations, n, e
        <3> QED BY <3>4, <3>5
    <2>2. s[q - old] \in DataBlocks \cup Overrun
        <3>1. \A k \in DOMAIN s : s[k] \in free_bit_map
            BY AllocationsType
        <3> HIDE DEF old, n
        <3>2. s[q - old] \in free_bit_map
            BY <2>1, <3>1
        <3> QED BY <3>2 DEF TypeOK
    <2> DEFINE w == s[q - old]
    <2>3. w # Unspec /\ w \notin Metadata \ {0}
        <3> HIDE DEF w
        <3>1. w \in DataBlocks \cup PastTheMap
            BY <2>2, SizeAssumption DEF w
        <3>2. w \in Nat /\ w >= RESERVED
            BY <3>1, SizeAssumption DEF DataBlocks, PastTheMap
        <3> QED BY <3>2, SizeAssumption, NameAssumption DEF Metadata
    <2> QED BY <1>6, <2>3
<1>7. CASE ~ (q >= old)
    <2>1. q \in 0 .. NDIRECT - 1 /\ q < old
        BY <1>2, <1>5, <1>7, SizeAssumption
    <2>2. Loaded(i, q, CopiedForWrite(i)) = inode_table[i].data_ptrs[q]
        BY <1>2, <2>1, SizeAssumption DEF Loaded
    <2>3. inode_table[i].data_ptrs[q] = Pointer(<<i, q>>) /\ <<i, q>> \in PointerAt
        BY <2>1, SizeAssumption DEF Pointer, PointerAt
    <2>4. inode_table[i].data_ptrs[q] \in Nat
        BY <2>1 DEF TypeOK, inode_t
    <2>5. inode_table[i].data_ptrs[q] \notin Metadata \ {0}
        BY <2>3 DEF OneOwner
    <2> QED BY <1>7, <2>2, <2>4, <2>5, NameAssumption
<1> QED BY <1>6, <1>7

LEMMA StrayStep ==
    TypeOK /\ OneOwner /\ [Next]_vars =>
        [intact /\ ~intact' =>
            \E i \in Inodes, buf \in Buf : HasIndirect(i) /\ sfs_fwrite(i, buf)]_vars
<1> SUFFICES ASSUME TypeOK, OneOwner, [Next]_vars, intact, ~intact'
             PROVE  \E i \in Inodes, buf \in Buf : HasIndirect(i) /\ sfs_fwrite(i, buf)
    OBVIOUS
<1>1. \E i \in Inodes, buf \in Buf : sfs_fwrite(i, buf)
    <2>1. CASE mksfs_fresh \/ mksfs_old \/ sfs_unknown
        BY <2>1 DEF mksfs_fresh, mksfs_old, sfs_unknown, blocks
    <2>2. CASE \E n \in AnyName : sfs_fopen(n)
        BY <2>2 DEF sfs_fopen, Refuse, OpenOld, OpenNew, blocks
    <2>3. CASE \/ sfs_getnextfilename
               \/ \E n \in Name : sfs_getfilesize(n) \/ sfs_remove(n)
               \/ \E i \in Inodes : sfs_fclose(i)
               \/ \E i \in Inodes, length \in ReadLen : sfs_fread(i, length)
               \/ \E i \in Inodes, loc \in SeekTo : sfs_fseek(i, loc)
               \/ UNCHANGED vars
        BY <2>3 DEF sfs_getnextfilename, sfs_getfilesize, sfs_remove, sfs_fclose, sfs_fread,
                    sfs_fseek, Refuse, vars, blocks
    <2> QED BY <2>1, <2>2, <2>3 DEF Next
<1>2. PICK i \in Inodes, buf \in Buf : sfs_fwrite(i, buf)
    BY <1>1
<1>3. HasIndirect(i)
    <2> SUFFICES ASSUME ~HasIndirect(i) PROVE FALSE
        OBVIOUS
    <2>1. sfs_fwrite_done(i, buf)
        BY <1>2 DEF sfs_fwrite, sfs_fwrite_full, Refuse, blocks
    <2> DEFINE p == fd_table[i]
               e == p + Len(buf)
               load(s) == [q \in Touched(p, e) |->
                              IF q >= numBlocks(i) THEN s[q - numBlocks(i)]
                              ELSE Loaded(i, q, CopiedForWrite(i))]
    <2>2. PICK s \in Allocations(numNewBlocks(i, e)) :
             \E blk \in blockNums(load(s)) : sfs_fwrite_using(i, buf, s, blk)
        BY <2>1 DEF sfs_fwrite_done
    <2>3. PICK blk \in blockNums(load(s)) : sfs_fwrite_using(i, buf, s, blk)
        BY <2>2
    <2>4. PICK junk : blk = Filled(load(s), junk)
        BY <2>3 DEF blockNums
    <2>5. ASSUME NEW q \in DOMAIN blk PROVE blk[q] \notin Metadata \ {0}
        <3>1. q \in Touched(p, e)
            BY <2>4, <2>5 DEF Filled
        <3>2. load(s)[q] # Unspec /\ load(s)[q] \notin Metadata \ {0}
            BY <3>1, DirectWrites
        <3> HIDE DEF load
        <3> QED BY <2>4, <2>5, <3>2 DEF Filled
    <2> QED BY <2>3, <2>5 DEF sfs_fwrite_using
<1> QED BY <1>2, <1>3

(* Whatever the client and the memory, a write leads to metadata only in a *)
(* file that has an indirect block already.                                *)
THEOREM StrayWritesNeedIndirect == Spec => StrayNeedsIndirect
<1>1. Init => OneOwner
    BY EmptyOwned DEF Init
<1> QED BY <1>1, InitType, NextType, NextOwned, StrayStep, PTL DEF Spec, StrayNeedsIndirect
==============================================================================
