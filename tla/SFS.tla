--------------------------------- MODULE SFS ---------------------------------
(***************************************************************************)
(* The simple file system of src/file_system: sfs_api.c on the emulated    *)
(* disk of disk_emu.c, one call at a time (every call holds disk_access    *)
(* from its first access to the tables to its last).                       *)
(*                                                                         *)
(* A word is one int: a pointer, or INT_SIZE bytes of a file.  Lengths and *)
(* positions are in words, so that a block, read as an indirect block,     *)
(* holds BLOCK_SIZE pointers.                                              *)
(***************************************************************************)
EXTENDS Integers, Sequences, FiniteSets

CONSTANTS
    NumInodes,    \* inodes, and directory slots (100 in the code)
    NUM_BLOCKS,   \* blocks on the disk (1024)
    RESERVED,     \* blocks 0 .. RESERVED-1 hold the metadata (35)
    BLOCK_SIZE,   \* words in a block (256)
    NDIRECT,      \* direct pointers of an inode (12)
    INT_SIZE,     \* bytes in a word (4)
    DIR_ON_DISK,  \* directory entries that fit the two blocks written (73)
    LeftOver,     \* what the entries past those, malloc's memory, may hold
    Overrun,      \* bits of the byte behind free_bit_map that may be high
    Stale,        \* what an entry of blockNums, malloc's memory, may hold
    Name,         \* legal file names
    NoName,       \* the empty name
    JunkName,     \* a name that is not legal
    Unspec,       \* a word the program does not determine
    Buf,          \* what clients write
    ReadLen,      \* how much clients read
    SeekTo,       \* where clients seek to
    MaxEnd        \* bound: clients write no further than this, save by mistake

Inodes     == 0 .. NumInodes - 1
DataBlocks == RESERVED .. NUM_BLOCKS - 1
Metadata   == 0 .. RESERVED - 1
PastTheMap == NUM_BLOCKS .. NUM_BLOCKS + 7
Offsets    == 0 .. BLOCK_SIZE - 1
Word       == Int \cup {Unspec}
AnyName    == Name \cup {NoName, JunkName}
DIRECT_SIZE == NDIRECT * BLOCK_SIZE
MAX_FILE   == (NDIRECT + BLOCK_SIZE) * BLOCK_SIZE

ASSUME SizeAssumption ==
    /\ NumInodes \in Nat \ {0}
    /\ RESERVED \in Nat \ {0}
    /\ NUM_BLOCKS \in Nat /\ RESERVED <= NUM_BLOCKS
    /\ BLOCK_SIZE \in Nat \ {0}
    /\ NDIRECT \in Nat \ {0}
    /\ INT_SIZE \in Nat \ {0}
    /\ DIR_ON_DISK \in Nat
    /\ LeftOver \subseteq [num : Int, name : AnyName]
    /\ Overrun \subseteq PastTheMap
    /\ Stale \subseteq Nat

ASSUME ClientAssumption ==
    /\ Buf \subseteq Seq(Int) \ {<<>>}
    /\ ReadLen \subseteq Nat
    /\ SeekTo \subseteq Nat
    /\ MaxEnd \in Nat

ASSUME NameAssumption ==
    /\ NoName \notin Name /\ JunkName \notin Name /\ NoName # JunkName
    /\ Unspec \notin Int

VARIABLES
    inode_table,   \* inode -> [mode, size, data_ptrs, indirectPointer]
    fd_table,      \* inode -> rwptr
    rootDir,       \* slot -> [num, name]
    rootDir_ptr,   \* where the listing of the directory stands
    free_bit_map,  \* the bits that are high, those past its end included
    disk,          \* data block -> its words
    diskMap,       \* the bit map as mksfs(1) left it on the disk
    intact,        \* no metadata block other than the superblock overwritten
    known,         \* the tables were not read back from overwritten metadata
    MAX_BLOCK,     \* how many blocks the disk emulator lets through
    up,            \* the process runs, and has written in its tables only
    ret            \* the answer to the last call, with the data it brings

tables == <<inode_table, fd_table, rootDir, rootDir_ptr>>
blocks == <<free_bit_map, disk, diskMap, intact, known, MAX_BLOCK>>
vars   == <<tables, blocks, up, ret>>

Closed == 1
Opened == 0

(* A process whose state these variables show.                             *)
Runs == up /\ known

(* The range check of read_blocks and write_blocks, for one block.         *)
Reachable == {b \in DataBlocks : b + 1 <= MAX_BLOCK}

Reply(v, d) == ret' = [val |-> v, data |-> d]
Refuse      == Reply(-1, <<>>) /\ UNCHANGED <<tables, blocks>>

CeilDiv(a, b) == (a + b - 1) \div b
First(S)      == CHOOSE s \in S : \A t \in S : s <= t
Last(S)       == CHOOSE s \in S : \A t \in S : t <= s

-----------------------------------------------------------------------------
(* The allocator.  get_index takes the lowest high bit; n calls in a row   *)
(* take the n lowest, in that order.                                       *)

Rank(S, b) == Cardinality({c \in S : c < b})

Allocations(n) ==
    {s \in [0 .. n - 1 -> free_bit_map] :
        \A j \in 0 .. n - 1 : Rank(free_bit_map, s[j]) = j}

(* Mutant: the bit of the first block is left high.                        *)
Taken_ForgetsFirst(s) == {s[j] : j \in DOMAIN s \ {0}}

Taken(s) == {s[j] : j \in DOMAIN s}

(* One call: 0 when no bit is high.                                        *)
get_index(S) == IF S = {} THEN 0 ELSE First(S)

-----------------------------------------------------------------------------
EmptyInode == [mode |-> Closed, size |-> 0,
               data_ptrs |-> [k \in 0 .. NDIRECT - 1 |-> 0],
               indirectPointer |-> 0]

EmptySlot(s) == [num |-> s, name |-> NoName]

EmptyDir == [s \in Inodes |-> EmptySlot(s)]

(* Mutant: the loop over the metadata blocks stops one short.              *)
FreshMap_OneShort(bits) == bits \ 0 .. RESERVED - 2

(* mksfs(1) clears the bits of the metadata with force_set_index.          *)
FreshMap(bits) == bits \ Metadata

Init ==
    /\ inode_table = [i \in Inodes |-> EmptyInode]
    /\ fd_table = [i \in Inodes |-> 0]
    /\ rootDir = EmptyDir
    /\ rootDir_ptr = 0
    /\ \E o \in SUBSET Overrun : free_bit_map = FreshMap(0 .. NUM_BLOCKS - 1) \cup o
    /\ disk = [b \in DataBlocks |-> [o \in Offsets |-> 0]]
    /\ diskMap = FreshMap(0 .. NUM_BLOCKS - 1)
    /\ intact = TRUE /\ known = TRUE
    /\ MAX_BLOCK = NUM_BLOCKS
    /\ up = TRUE
    /\ ret = [val |-> 0, data |-> <<>>]

(* mksfs(1) once more: a fresh disk and fresh tables, but free_bit_map and *)
(* rootDir_ptr stay as they are, also as a mksfs(0) on overwritten         *)
(* metadata, and the calls after it, have left them.                       *)
mksfs_fresh ==
    /\ up /\ UNCHANGED up
    /\ inode_table' = [i \in Inodes |-> EmptyInode]
    /\ fd_table' = [i \in Inodes |-> 0]
    /\ rootDir' = EmptyDir
    /\ \/ known /\ free_bit_map' = FreshMap(free_bit_map) /\ UNCHANGED rootDir_ptr
       \/ /\ ~known
          /\ \E bits \in SUBSET (0 .. NUM_BLOCKS - 1 \cup Overrun) :
                free_bit_map' = FreshMap(bits)
          /\ rootDir_ptr' \in -1 .. NumInodes - 1
    /\ disk' = [b \in DataBlocks |-> [o \in Offsets |-> 0]]
    /\ diskMap' = free_bit_map' \cap DataBlocks
    /\ intact' = TRUE /\ known' = TRUE
    /\ MAX_BLOCK' = NUM_BLOCKS
    /\ Reply(0, <<>>)

(* The directory as mksfs(0) reads it back.  Slot DIR_ON_DISK is cut after *)
(* its num; the ones behind it come from memory that was never set.        *)
ReadBack(s) ==
    IF s < DIR_ON_DISK THEN {EmptySlot(s)}
    ELSE {e \in LeftOver : s = DIR_ON_DISK => e.num = s}

DirectoriesReadBack ==
    {d \in [Inodes -> {EmptySlot(s) : s \in Inodes} \cup LeftOver] :
        \A s \in Inodes : d[s] \in ReadBack(s)}

(* What mksfs(0) reads of overwritten metadata is anything at all: the     *)
(* variables keep their values, which say nothing from then on.            *)
OverwrittenReadBack ==
    /\ ~intact
    /\ known' = FALSE
    /\ UNCHANGED <<inode_table, rootDir, free_bit_map>>

(* Mutant: the inodes are not read back.                                   *)
mksfs_old_KeepsInodes ==
    /\ Runs /\ UNCHANGED up
    /\ \/ /\ rootDir' \in DirectoriesReadBack
          /\ free_bit_map' = diskMap \cup (free_bit_map \cap PastTheMap)
          /\ UNCHANGED <<inode_table, known>>
       \/ OverwrittenReadBack
    /\ MAX_BLOCK' = NUM_BLOCKS
    /\ Reply(0, <<>>)
    /\ UNCHANGED <<fd_table, rootDir_ptr, disk, diskMap, intact>>

(* mksfs(0): inodes, directory and bit map as mksfs(1) wrote them, since   *)
(* no call writes them later but through a wrong block number, and then    *)
(* perhaps in blocks that are not read; fd_table and rootDir_ptr are kept. *)
mksfs_old ==
    /\ Runs /\ UNCHANGED up
    /\ \/ /\ inode_table' = [i \in Inodes |-> EmptyInode]
          /\ rootDir' \in DirectoriesReadBack
          /\ free_bit_map' = diskMap \cup (free_bit_map \cap PastTheMap)
          /\ UNCHANGED known
       \/ OverwrittenReadBack
    /\ MAX_BLOCK' = NUM_BLOCKS
    /\ Reply(0, <<>>)
    /\ UNCHANGED <<fd_table, rootDir_ptr, disk, diskMap, intact>>

(* Any call on tables that are not known; it may end the process, or write *)
(* where no table is.                                                      *)
sfs_unknown ==
    /\ up /\ ~known
    /\ up' \in BOOLEAN
    /\ UNCHANGED <<tables, blocks, ret>>

-----------------------------------------------------------------------------
(* The directory.                                                          *)

(* Mutant: the search for a name starts at slot 1.                         *)
SlotsNamed_FromOne(n) == {s \in Inodes \ {0} : rootDir[s].name = n}

SlotsNamed(n) == {s \in Inodes : rootDir[s].name = n}

EmptySlots == {s \in Inodes : rootDir[s].name = NoName}

(* Mutant: a file that is opened is emptied.                               *)
OpenOld_Truncates(i) ==
    /\ fd_table' = [fd_table EXCEPT ![i] = 0]
    /\ inode_table' = [inode_table EXCEPT ![i].mode = Opened, ![i].size = 0]
    /\ Reply(i, <<>>)
    /\ UNCHANGED <<rootDir, rootDir_ptr, blocks>>

(* A name the directory holds: the file is opened at its end.              *)
OpenOld(i) ==
    /\ fd_table' = [fd_table EXCEPT ![i] = inode_table[i].size]
    /\ inode_table' = [inode_table EXCEPT ![i].mode = Opened]
    /\ Reply(i, <<>>)
    /\ UNCHANGED <<rootDir, rootDir_ptr, blocks>>

(* Mutant: the number of the slot taken for that of the inode.             *)
OpenNew_SlotForInode(n, s) ==
    /\ rootDir' = [rootDir EXCEPT ![s].name = n]
    /\ inode_table' = [inode_table EXCEPT ![s].size = 0, ![s].mode = Opened]
    /\ Reply(s, <<>>)
    /\ UNCHANGED <<fd_table, rootDir_ptr, blocks>>

(* A new name, in slot s: the size is reset, the position and the pointers *)
(* of the inode are not.                                                   *)
OpenNew(n, s) ==
    LET i == rootDir[s].num IN
    /\ rootDir' = [rootDir EXCEPT ![s].name = n]
    /\ inode_table' = [inode_table EXCEPT ![i].size = 0, ![i].mode = Opened]
    /\ Reply(i, <<>>)
    /\ UNCHANGED <<fd_table, rootDir_ptr, blocks>>

(* The slot sfs_fopen takes: the first with the name, or the first empty.  *)
Candidates(n) == IF SlotsNamed(n) # {} THEN SlotsNamed(n) ELSE EmptySlots

(* An entry with a number that is of no inode makes it write outside the   *)
(* tables.                                                                 *)
sfs_fopen(n) ==
    LET s == First(Candidates(n)) IN
    /\ Runs
    /\ \/ /\ n \notin Name \/ Candidates(n) = {}
          /\ Refuse /\ UNCHANGED up
       \/ /\ n \in Name /\ Candidates(n) # {} /\ rootDir[s].num \in Inodes
          /\ IF SlotsNamed(n) # {} THEN OpenOld(rootDir[s].num) ELSE OpenNew(n, s)
          /\ UNCHANGED up
       \/ /\ n \in Name /\ Candidates(n) # {} /\ rootDir[s].num \notin Inodes
          /\ up' = FALSE
          /\ UNCHANGED <<tables, blocks, ret>>

sfs_fclose(i) ==
    /\ Runs /\ UNCHANGED up
    /\ \/ inode_table[i].mode = Closed /\ Refuse
       \/ /\ inode_table[i].mode # Closed
          /\ inode_table' = [inode_table EXCEPT ![i].mode = Closed]
          /\ Reply(0, <<>>)
          /\ UNCHANGED <<fd_table, rootDir, rootDir_ptr, blocks>>

(* Mutant: every slot of the directory is handed out, the empty ones too.  *)
sfs_getnextfilename_WholeTable ==
    /\ Runs /\ UNCHANGED up
    /\ rootDir_ptr' = (rootDir_ptr + 1) % NumInodes
    /\ Reply(rootDir_ptr', <<rootDir[rootDir_ptr].name>>)
    /\ UNCHANGED <<inode_table, fd_table, rootDir, blocks>>

(* The listing hands out the name at the pointer, and 0 when the next slot *)
(* is empty; the slot before the first is memory in front of the array.    *)
sfs_getnextfilename ==
    LET p == IF rootDir_ptr = NumInodes - 1 THEN -1 ELSE rootDir_ptr
        fname == IF p = -1 THEN Unspec ELSE rootDir[p].name
        last == rootDir[p + 1].name = NoName
    IN  /\ Runs /\ UNCHANGED up
        /\ rootDir_ptr' = IF last THEN p ELSE p + 1
        /\ Reply(IF last THEN 0 ELSE p + 1, <<fname>>)
        /\ UNCHANGED <<inode_table, fd_table, rootDir, blocks>>

(* The size behind a number that is of no inode is whatever memory holds,  *)
(* or the end of the process.                                              *)
sfs_getfilesize(n) ==
    LET i == rootDir[First(SlotsNamed(n))].num IN
    /\ Runs
    /\ UNCHANGED <<tables, blocks>>
    /\ \/ SlotsNamed(n) = {} /\ Reply(-1, <<>>) /\ UNCHANGED up
       \/ /\ SlotsNamed(n) # {} /\ i \in Inodes
          /\ Reply(inode_table[i].size, <<>>) /\ UNCHANGED up
       \/ /\ SlotsNamed(n) # {} /\ i \notin Inodes
          /\ \/ Reply(Unspec, <<>>) /\ UNCHANGED up
             \/ up' = FALSE /\ UNCHANGED ret

(* sfs_fseek has no return statement; what arrives is the 0 of sem_post.   *)
sfs_fseek(i, loc) ==
    /\ Runs /\ UNCHANGED up
    /\ fd_table' = [fd_table EXCEPT ![i] = loc]
    /\ Reply(0, <<>>)
    /\ UNCHANGED <<inode_table, rootDir, rootDir_ptr, blocks>>

(* Mutant: the entry is emptied, as in the body that is commented out.     *)
sfs_remove_Empties(n) ==
    /\ Runs /\ UNCHANGED up
    /\ rootDir' = [s \in Inodes |->
                      IF rootDir[s].name = n THEN EmptySlot(rootDir[s].num) ELSE rootDir[s]]
    /\ Reply(0, <<>>)
    /\ UNCHANGED <<inode_table, fd_table, rootDir_ptr, blocks>>

(* The body of sfs_remove is commented out, its return statements with it: *)
(* whatever it is called for, nothing happens and the answer is no answer. *)
sfs_remove(n) ==
    /\ Runs /\ UNCHANGED up
    /\ Reply(Unspec, <<>>)
    /\ UNCHANGED <<tables, blocks>>

-----------------------------------------------------------------------------
(* The block numbers of a file, as sfs_fread and sfs_fwrite collect them   *)
(* in blockNums.                                                           *)

HasIndirect(i) == inode_table[i].indirectPointer # 0

(* The direct pointers in use: those before the first zero.                *)
DirectInUse(i) ==
    First({k \in 0 .. NDIRECT :
              k = NDIRECT \/ inode_table[i].data_ptrs[k] = 0})

numIndPtrs(i) == CeilDiv(inode_table[i].size - DIRECT_SIZE, BLOCK_SIZE)

numBlocks(i) == IF HasIndirect(i) THEN NDIRECT + numIndPtrs(i) ELSE DirectInUse(i)

(* Mutant: the difference is taken for every file.                         *)
WrapsAround_AnyFile(i) == inode_table[i].size < DIRECT_SIZE

(* An indirect file shorter than its direct part: the unsigned difference  *)
(* wraps around, and the copy of that many entries ends the process.       *)
WrapsAround(i) == HasIndirect(i) /\ inode_table[i].size < DIRECT_SIZE

(* Entry q of blockNums, with c entries copied from the indirect block;    *)
(* Unspec when the entry was never set.                                    *)
Loaded(i, q, c) ==
    LET ind == inode_table[i].indirectPointer IN
    CASE q < NDIRECT /\ (HasIndirect(i) \/ q < DirectInUse(i)) ->
            inode_table[i].data_ptrs[q]
      [] HasIndirect(i) /\ q >= NDIRECT /\ q - NDIRECT < c /\ ind \in Reachable ->
            disk[ind][q - NDIRECT]
      [] OTHER -> Unspec

(* The blocks a transfer of the words p .. e-1 touches, and blockNums for  *)
(* them: loaded where it is known, whatever the memory held elsewhere.     *)
Touched(p, e) == IF p < e THEN p \div BLOCK_SIZE .. (e - 1) \div BLOCK_SIZE ELSE {}

Filled(load, junk) ==
    [q \in DOMAIN load |-> IF load[q] = Unspec THEN junk[q] ELSE load[q]]

blockNums(load) ==
    {Filled(load, junk) : junk \in [{q \in DOMAIN load : load[q] = Unspec} -> Stale]}

ReadWord(blk, p) ==
    IF blk[p \div BLOCK_SIZE] \in Reachable
    THEN disk[blk[p \div BLOCK_SIZE]][p % BLOCK_SIZE]
    ELSE Unspec

-----------------------------------------------------------------------------
sfs_fread(i, length) ==
    LET p == fd_table[i]
        e == p + length
        load == [q \in Touched(p, e) |-> Loaded(i, q, numIndPtrs(i))]
        refused == inode_table[i].mode = Closed \/ inode_table[i].size < e
    IN  /\ Runs
        /\ \/ refused /\ Refuse /\ UNCHANGED up
           \/ /\ ~refused /\ WrapsAround(i)
              /\ up' = FALSE
              /\ UNCHANGED <<tables, blocks, ret>>
           \/ /\ ~refused /\ ~WrapsAround(i)
              /\ \E blk \in blockNums(load) :
                    Reply(length, [k \in 1 .. length |-> ReadWord(blk, p + k - 1)])
              /\ fd_table' = [fd_table EXCEPT ![i] = e]
              /\ UNCHANGED <<inode_table, rootDir, rootDir_ptr, blocks, up>>

-----------------------------------------------------------------------------
(* The pieces of sfs_fwrite.                                               *)

(* How many entries of the indirect block are copied: memcpy is given      *)
(* numIndPtrs, a count of entries, as its count of bytes.                  *)
CopiedForWrite(i) == numIndPtrs(i) \div INT_SIZE

numNewBlocks(i, e) ==
    IF numBlocks(i) * BLOCK_SIZE < e
    THEN CeilDiv(e - numBlocks(i) * BLOCK_SIZE, BLOCK_SIZE) ELSE 0

(* Mutant: one block too many is expected to fit the inode.                *)
NeedsIndirect_OffByOne(i, n) == ~HasIndirect(i) /\ n > NDIRECT + 1 - numBlocks(i)

NeedsIndirect(i, n) == ~HasIndirect(i) /\ n > NDIRECT - numBlocks(i)

(* Mutant: the new blocks are entered from the first pointer on.           *)
DirectPtrs_FromZero(i, s) ==
    [k \in 0 .. NDIRECT - 1 |->
        IF ~HasIndirect(i) /\ k \in DOMAIN s THEN s[k]
        ELSE inode_table[i].data_ptrs[k]]

(* The direct pointers after the new blocks s are entered.                 *)
DirectPtrs(i, s) ==
    LET old == numBlocks(i) IN
    [k \in 0 .. NDIRECT - 1 |->
        IF ~HasIndirect(i) /\ k - old \in DOMAIN s THEN s[k - old]
        ELSE inode_table[i].data_ptrs[k]]

(* Mutants: the old entries are not read first; the new ones are entered   *)
(* from the start of the block.                                            *)
IndirectWords_NotRead(i, ind, s) ==
    LET old == numBlocks(i) IN
    [o \in Offsets |->
        IF NDIRECT + o - old \in DOMAIN s THEN s[NDIRECT + o - old] ELSE Unspec]

IndirectWords_FromZero(i, ind, s) ==
    LET start == IF HasIndirect(i) THEN 0 ELSE NDIRECT - numBlocks(i) IN
    [o \in Offsets |->
        IF o + start \in DOMAIN s THEN s[o + start]
        ELSE IF HasIndirect(i) THEN disk[ind][o] ELSE Unspec]

(* The words of the indirect block ind after the new blocks s are entered. *)
IndirectWords(i, ind, s) ==
    LET old == numBlocks(i) IN
    [o \in Offsets |->
        IF NDIRECT + o - old \in DOMAIN s THEN s[NDIRECT + o - old]
        ELSE IF HasIndirect(i) THEN disk[ind][o] ELSE Unspec]

(* Mutant: an indirect block is written when it is made, never again.      *)
WithPointers_OnlyNew(i, n, ind, s) ==
    IF NeedsIndirect(i, n) /\ ind \in Reachable
    THEN [disk EXCEPT ![ind] = IndirectWords(i, ind, s)]
    ELSE disk

(* The disk after the new blocks s of a file are entered in its indirect   *)
(* block ind, if it has one; ind is 0 or no block of the disk when         *)
(* get_index returned such a number.                                       *)
WithPointers(i, n, ind, s) ==
    IF (HasIndirect(i) \/ NeedsIndirect(i, n)) /\ ind \in Reachable
    THEN [disk EXCEPT ![ind] = IndirectWords(i, ind, s)]
    ELSE disk

(* Mutant: the offset within the first block is dropped.                   *)
write_helper_NoOffset(d, buf, blk, p) ==
    LET At(b, o) == {r \in p .. p + Len(buf) - 1 :
                        blk[r \div BLOCK_SIZE] = b /\ (r - p) % BLOCK_SIZE = o}
    IN  [b \in DataBlocks |-> [o \in Offsets |->
            IF At(b, o) = {} THEN d[b][o] ELSE buf[Last(At(b, o)) - p + 1]]]

(* write_helper: the words of buf go to the positions p, p+1, ... of the   *)
(* blocks blk, one block after the other; blocks the disk does not have,   *)
(* or does not let through, are not written.                               *)
write_helper(d, buf, blk, p) ==
    LET At(b, o) == {r \in p .. p + Len(buf) - 1 :
                        blk[r \div BLOCK_SIZE] = b /\ r % BLOCK_SIZE = o}
    IN  [b \in DataBlocks |-> [o \in Offsets |->
            IF b \notin Reachable \/ At(b, o) = {} THEN d[b][o]
            ELSE buf[Last(At(b, o)) - p + 1]]]

sfs_fwrite_full(i, e) ==
    /\ Reply(-1, <<>>)
    /\ free_bit_map' = {}
    /\ Allocations(numNewBlocks(i, e)) = {}
    /\ UNCHANGED <<tables, disk, diskMap, intact, known, MAX_BLOCK>>

(* The indirect block once the blocks s are taken: a new one comes after   *)
(* them, and is 0 when the disk is full.                                   *)
IndirectAfter(i, n, s) ==
    IF NeedsIndirect(i, n) THEN get_index(free_bit_map \ Taken(s))
    ELSE inode_table[i].indirectPointer

(* A write of buf that takes the blocks s and finds blk in blockNums.      *)
sfs_fwrite_using(i, buf, s, blk) ==
    LET p == fd_table[i]
        e == p + Len(buf)
        n == numNewBlocks(i, e)
        ind == IndirectAfter(i, n, s)
    IN  /\ free_bit_map' = (free_bit_map \ Taken(s))
                               \ (IF NeedsIndirect(i, n) THEN {ind} ELSE {})
        /\ disk' = write_helper(WithPointers(i, n, ind, s), buf, blk, p)
        /\ intact' = (intact /\ \A q \in DOMAIN blk :
                       blk[q] \in Metadata \ {0} => MAX_BLOCK <= blk[q])
        /\ inode_table' = [inode_table EXCEPT
              ![i].size = IF e > @ THEN e ELSE @,
              ![i].data_ptrs = DirectPtrs(i, s),
              ![i].indirectPointer = ind]
        /\ fd_table' = [fd_table EXCEPT ![i] = e]
        /\ Reply(Len(buf), <<>>)
        /\ UNCHANGED <<rootDir, rootDir_ptr, diskMap, known, MAX_BLOCK>>

sfs_fwrite_done(i, buf) ==
    LET p == fd_table[i]
        e == p + Len(buf)
        old == numBlocks(i)
        copied == CopiedForWrite(i)
        load(s) == [q \in Touched(p, e) |->
                       IF q >= old THEN s[q - old] ELSE Loaded(i, q, copied)]
    IN  \E s \in Allocations(numNewBlocks(i, e)) :
            \E blk \in blockNums(load(s)) : sfs_fwrite_using(i, buf, s, blk)

sfs_fwrite(i, buf) ==
    LET e == fd_table[i] + Len(buf)
        refused == e > MAX_FILE \/ inode_table[i].mode = Closed
    IN  /\ Runs
        /\ e <= MaxEnd \/ e > MAX_FILE
        /\ \/ refused /\ Refuse /\ UNCHANGED up
           \/ /\ ~refused /\ WrapsAround(i)
              /\ up' = FALSE
              /\ UNCHANGED <<tables, blocks, ret>>
           \/ ~refused /\ ~WrapsAround(i) /\ sfs_fwrite_full(i, e) /\ UNCHANGED up
           \/ ~refused /\ ~WrapsAround(i) /\ sfs_fwrite_done(i, buf) /\ UNCHANGED up

-----------------------------------------------------------------------------
Next ==
    \/ mksfs_fresh
    \/ mksfs_old
    \/ sfs_unknown
    \/ sfs_getnextfilename
    \/ \E n \in AnyName : sfs_fopen(n)
    \/ \E n \in Name : sfs_getfilesize(n) \/ sfs_remove(n)
    \/ \E i \in Inodes : sfs_fclose(i)
    \/ \E i \in Inodes, length \in ReadLen : sfs_fread(i, length)
    \/ \E i \in Inodes, loc \in SeekTo : sfs_fseek(i, loc)
    \/ \E i \in Inodes, buf \in Buf : sfs_fwrite(i, buf)

Spec == Init /\ [][Next]_vars

-----------------------------------------------------------------------------
(* Properties.                                                             *)

inode_t == [mode : {Opened, Closed}, size : Nat,
            data_ptrs : [0 .. NDIRECT - 1 -> Nat], indirectPointer : Nat]

directory_entry == [num : Int, name : AnyName]

(* The variables keep their types: in particular no call on known tables   *)
(* leaves a pointer, a position or a bit outside what they can hold.       *)
TypeOK ==
    /\ inode_table \in [Inodes -> inode_t]
    /\ fd_table \in [Inodes -> Nat]
    /\ rootDir \in [Inodes -> directory_entry]
    /\ rootDir_ptr \in -1 .. NumInodes - 1
    /\ free_bit_map \subseteq DataBlocks \cup Overrun
    /\ disk \in [DataBlocks -> [Offsets -> Word]]
    /\ diskMap \subseteq DataBlocks
    /\ intact \in BOOLEAN /\ known \in BOOLEAN
    /\ MAX_BLOCK \in Nat
    /\ up \in BOOLEAN
    /\ ret.val \in Word

(* The pointers the inode table holds: direct pointer k of inode i is      *)
(* <<i, k>>, its indirect pointer <<i, NDIRECT>>.                          *)
PointerAt == Inodes \X (0 .. NDIRECT)

Pointer(x) ==
    IF x[2] = NDIRECT THEN inode_table[x[1]].indirectPointer
    ELSE inode_table[x[1]].data_ptrs[x[2]]

OneOwner ==
    \A x \in PointerAt : Pointer(x) # 0 =>
        /\ Pointer(x) \notin free_bit_map
        /\ Pointer(x) \notin Metadata
        /\ \A y \in PointerAt : Pointer(y) = Pointer(x) => y = x

(* A block has one owner: whatever writes fail, disks fill up and file     *)
(* systems are read back, no block that an inode points to is given to     *)
(* another pointer or can still be allocated, and none is metadata - until *)
(* a mksfs(0) reads back metadata that a write was led to.                 *)
OwnedOnce == known => OneOwner

Named ==
    \A i \in Inodes :
        (inode_table[i].mode = Opened \/ \E k \in 0 .. NDIRECT : Pointer(<<i, k>>) # 0)
            => \E s \in Inodes : rootDir[s].num = i /\ rootDir[s].name # NoName

(* An inode that is open or has blocks is reached by a name: no file is    *)
(* written, or holds blocks, without an entry in the directory.            *)
BlocksHaveAName == known => Named

(* Two names never lead to one inode, and one name never stands twice.     *)
OneFilePerInode ==
    known => \A s, t \in Inodes : s # t =>
        /\ rootDir[s].num # rootDir[t].num
        /\ rootDir[s].name = NoName \/ rootDir[s].name # rootDir[t].name

(* Two entries share an inode, or one has the number of none.              *)
Damaged ==
    \E s \in Inodes :
        \/ rootDir[s].num \notin Inodes
        \/ \E t \in Inodes \ {s} : rootDir[s].num = rootDir[t].num

(* The program ends, or writes outside its tables, only with a damaged     *)
(* directory: the unsigned difference of sfs_fread and sfs_fwrite (lines   *)
(* 526 and 602) wraps around only in an inode that two entries share.      *)
CrashNeedsADamagedDirectory == known /\ ~up => Damaged

(* Metadata is overwritten only by a write in a file that has an indirect  *)
(* block already: no number of a direct pointer, no block just taken and   *)
(* no entry a write makes itself ever leads there.                         *)
StrayNeedsIndirect ==
    [][intact /\ ~intact' =>
          \E i \in Inodes, buf \in Buf : HasIndirect(i) /\ sfs_fwrite(i, buf)]_vars

(* The words of a file, as sfs_fread would find them.                      *)
FileBlock(i, q) == Loaded(i, q, numIndPtrs(i))

Content(i) ==
    [k \in 1 .. inode_table[i].size |->
        ReadWord([q \in {(k - 1) \div BLOCK_SIZE} |-> FileBlock(i, q)], k - 1)]

FileName(i) ==
    LET S == {s \in Inodes : rootDir[s].num = i}
    IN  IF S = {} THEN NoName ELSE rootDir[First(S)].name

FS == INSTANCE FileStore WITH
        Handle <- Inodes,
        name <- [i \in Inodes |-> FileName(i)],
        content <- [i \in Inodes |-> Content(i)],
        open <- [i \in Inodes |-> inode_table[i].mode = Opened],
        pos <- fd_table

(* Each call but a write does what FileStore promises for its arguments.   *)
CalledFor ==
    /\ mksfs_fresh \/ mksfs_old => FS!Format
    /\ sfs_getnextfilename => FS!List
    /\ \A n \in AnyName : sfs_fopen(n) => FS!Open(n)
    /\ \A n \in Name : sfs_getfilesize(n) => FS!Size(n)
    /\ \A i \in Inodes :
        /\ sfs_fclose(i) => FS!Close(i)
        /\ \A loc \in SeekTo : sfs_fseek(i, loc) => FS!Seek(i, loc)
        /\ \A length \in ReadLen : sfs_fread(i, length) => FS!Read(i, length)

(* And so does each write.                                                 *)
AsCalled ==
    CalledFor /\ \A i \in Inodes, buf \in Buf : sfs_fwrite(i, buf) => FS!Write(i, buf)

(* The file system is a store of files: every call but sfs_remove does to  *)
(* the file it is given what its caller expects, answers with it, and      *)
(* leaves the others alone.                                                *)
ImplementsFileStore ==
    /\ FS!Init
    /\ [][(FS!Next /\ AsCalled) \/ \E n \in Name : sfs_remove(n)]_vars

(* What is removed is gone (sfs_test2.c lines 414 to 421 removes every     *)
(* file and expects "empty dir").                                          *)
RemoveForgetsTheName == [][\A n \in Name : sfs_remove(n) => FS!Remove(n)]_vars

(* The blocks that are free or part of a file.                             *)
BlocksOf(i) ==
    {Pointer(<<i, k>>) : k \in 0 .. NDIRECT}
        \cup {FileBlock(i, q) : q \in 0 .. numBlocks(i) - 1}

Accounted == free_bit_map \cup UNION {BlocksOf(i) : i \in Inodes}

(* No call that succeeds loses a block: what it takes from the bit map it  *)
(* enters in an inode or an indirect block, and what a file had it keeps.  *)
NoBlockLost ==
    [][mksfs_fresh \/ mksfs_old \/ ret'.val = -1
          \/ Accounted \ {0} \subseteq Accounted']_vars

(* What the files hold, entries of indirect blocks included, is apart: no  *)
(* block serves two files or two places of one, or can still be allocated. *)
FilesApart ==
    \A i \in Inodes :
        \A q \in 0 .. numBlocks(i) - 1 :
            /\ FileBlock(i, q) \in DataBlocks \ free_bit_map
            /\ \A j \in Inodes :
                /\ FileBlock(i, q) # inode_table[j].indirectPointer
                /\ \A r \in 0 .. numBlocks(j) - 1 :
                       FileBlock(i, q) = FileBlock(j, r) => <<i, q>> = <<j, r>>

(* "points to a data block that points to other data blocks" (sfs_api.h    *)
(* line 24): a file longer than its direct part has such a block.          *)
IndirectPointsToData ==
    \A i \in Inodes :
        inode_table[i].size > DIRECT_SIZE => inode_table[i].indirectPointer \in DataBlocks

(* A call changes the content of one file at most, unless it is mksfs.     *)
OneFileChanges ==
    [][\A i, j \in Inodes :
          mksfs_fresh \/ mksfs_old \/ i = j
            \/ Content(i)' = Content(i) \/ Content(j)' = Content(j)]_vars

(* Opening an existing file system keeps its files (sfs_test.c lines 282   *)
(* to 311 reads back, after mksfs(0), what was written before).            *)
RemountKeepsFiles ==
    [][mksfs_old => \A i \in Inodes : Content(i)' = Content(i)]_vars
==============================================================================
