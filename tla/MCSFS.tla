-------------------------------- MODULE MCSFS --------------------------------
(***************************************************************************)
(* Instances of SFS for TLC: values of its constants that a configuration  *)
(* file cannot write, and the client of the indirect instance.             *)
(***************************************************************************)
EXTENDS SFSAppend, TLC

CONSTANTS JunkNum   \* what an entry past the two directory blocks may point to

NoLeftOver == {}
JunkEntries == [num : JunkNum, name : AnyName]

(* Data words that are no pointers of a checked disk, one word and a pair  *)
(* that crosses a block boundary.                                          *)
Pair == {<<91, 92>>}
OneOrTwoBlocks == {<<91, 92>>, <<93, 94, 95, 96>>}
Blocks12 == {<<4, 4>>, <<4, 4, 5, 5>>}

(* Clients that append, without the listing, which shares nothing with     *)
(* the blocks.  Bounds: mksfs(1) is called while no block is taken (the    *)
(* bits it would leave taken are those of sfs_direct and sfs_any), and     *)
(* mksfs(0) while the free blocks are still zero, so that the words of one *)
(* earlier file system, and not of several, lie about on the disk.         *)
NoTraces == \A b \in free_bit_map : disk[b] = [o \in Offsets |-> 0]

AppendsOnly ==
    Init /\ [][ /\ AppendNext
                /\ mksfs_old => NoTraces
                /\ UNCHANGED <<rootDir_ptr, diskMap>> ]_vars

(* Names are only compared.                                                *)
NameSymmetry == Permutations(Name)
==============================================================================
