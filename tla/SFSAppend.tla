------------------------------ MODULE SFSAppend ------------------------------
(***************************************************************************)
(* Clients of SFS whose files grow into their indirect blocks, by whole    *)
(* blocks.                                                                 *)
(***************************************************************************)
EXTENDS SFS

(* A client that only adds whole blocks at the end of its files, and stops *)
(* one block before the disk is full: sfs_fwrite then never needs the old  *)
(* entries of an indirect block.                                           *)
Appends(i, buf) ==
    /\ fd_table[i] = inode_table[i].size
    /\ fd_table[i] % BLOCK_SIZE = 0 /\ Len(buf) % BLOCK_SIZE = 0
    /\ Cardinality(free_bit_map) > numNewBlocks(i, fd_table[i] + Len(buf))

AppendNext ==
    \/ mksfs_fresh
    \/ mksfs_old
    \/ sfs_getnextfilename
    \/ \E n \in AnyName : sfs_fopen(n)
    \/ \E n \in Name : sfs_getfilesize(n) \/ sfs_remove(n)
    \/ \E i \in Inodes : sfs_fclose(i)
    \/ \E i \in Inodes, length \in ReadLen : sfs_fread(i, length)
    \/ \E i \in Inodes, loc \in SeekTo : sfs_fseek(i, loc)
    \/ \E i \in Inodes, buf \in Buf : Appends(i, buf) /\ sfs_fwrite(i, buf)

AppendSpec == Init /\ [][AppendNext]_vars

(* To such a client the file system is a store of files, past the direct   *)
(* pointers too: every call but sfs_remove does to the file it is given    *)
(* what its caller expects, answers with it, and leaves the others alone.  *)
AppendsToAStore ==
    /\ FS!Init
    /\ [][\/ /\ FS!Next /\ CalledFor
             /\ \A i \in Inodes, buf \in Buf :
                   Appends(i, buf) /\ sfs_fwrite(i, buf) => FS!Write(i, buf)
          \/ \E n \in Name : sfs_remove(n)]_vars
==============================================================================
