---------------------------- MODULE SfsFuse_proofs ----------------------------
(***************************************************************************)
(* Theorems about SfsFuse, for any number of threads and requests: the     *)
(* semaphore, and what the file system keeps under concurrent requests.    *)
(* The lemmas about single calls are those of SFS_proofs.                  *)
(***************************************************************************)
EXTENDS SfsFuse, FileStore_proofs

-----------------------------------------------------------------------------
(* A request and where it stands: which file it holds, and with what the   *)
(* next call is made.                                                      *)
Shaped(r) ==
    /\ r.at \in {"idle", "remove", "fopen", "getfilesize", "getnextfilename"} => r.fd = -1
    /\ r.at \in {"fseek", "transfer", "size"} => r.fd # -1
    /\ r.at = "fclose" /\ r.op \notin {"create", "truncate"} => r.fd # -1
    /\ r.fd # -1 \/ r.at = "getfilesize" => r.name # NoName
    /\ r.at = "remove" => r.name \in Name
    /\ r.at \in {"fseek", "transfer"} => r.op \in Transfers
    /\ r.op \in Transfers => r.off \in SeekTo
    /\ r.op = "read" => r.length \in ReadLen
    /\ r.op = "write" => r.buf \in Buf

(* Who holds the semaphore: one thread of a daemon that serves, or mksfs,  *)
(* or a process that is gone.                                              *)
Holders ==
    /\ SemaphoreIsHeldOrLost
    /\ inside # Nobody => life = "serving"
    /\ lost => inside = Nobody /\ life # "format"

(* A daemon never calls mksfs(0): its tables are known, and the numbers in *)
(* its directory are those of inodes.                                      *)
NumsWhole == known /\ \A s \in Inodes : rootDir[s].num \in Inodes

DaemonInv ==
    /\ FuseTypeOK
    /\ NumsWhole
    /\ \A t \in Thread : Shaped(req[t])
    /\ life # "serving" => \A t \in Thread : req[t] = NoRequest
    /\ Holders

LEMMA NoRequestType == NoRequest \in Request_t /\ Shaped(NoRequest)
BY DEF NoRequest, Request_t, Shaped, Op, Transfers, AnyName

(* What the kernel may ask for is well shaped.                             *)
LEMMA BeginRequest ==
    ASSUME DaemonInv, NEW t \in Thread, Begin(t)
    PROVE  \E r \in Request_t : Shaped(r) /\ r.fd = -1 /\ req' = [req EXCEPT ![t] = r]
<1>1. ASSUME NEW o \in Op, NEW n \in AnyName, o \notin Transfers,
             n = NoName => o = "readdir", o \in {"unlink", "truncate"} => n \in Name
      PROVE  Request(o, n) \in Request_t /\ Shaped(Request(o, n)) /\ Request(o, n).fd = -1
  BY <1>1 DEF Request, FirstCall, NoRequest, Request_t, Shaped, Op, Transfers
<1>2. ASSUME NEW n \in Name, NEW off \in SeekTo, NEW length \in ReadLen
      PROVE  LET r == [Request("read", n) EXCEPT !.off = off, !.length = length]
             IN  r \in Request_t /\ Shaped(r) /\ r.fd = -1
  BY ClientAssumption DEF Request, FirstCall, NoRequest, Request_t, Shaped, Op, Transfers, AnyName
<1>3. ASSUME NEW n \in Name, NEW off \in SeekTo, NEW buf \in Buf
      PROVE  LET r == [Request("write", n) EXCEPT !.off = off, !.buf = buf]
             IN  r \in Request_t /\ Shaped(r) /\ r.fd = -1
  BY ClientAssumption DEF Request, FirstCall, NoRequest, Request_t, Shaped, Op, Transfers, AnyName
<1>4. CASE \/ fuse_getattr(t) \/ fuse_readdir(t) \/ fuse_unlink(t) \/ fuse_truncate(t)
           \/ fuse_open(t) \/ fuse_create(t)
  <2>1. PICK o \in Op, n \in AnyName :
          /\ o \notin Transfers /\ (n = NoName => o = "readdir")
          /\ o \in {"unlink", "truncate"} => n \in Name
          /\ req' = [req EXCEPT ![t] = Request(o, n)]
    BY <1>4, NameAssumption DEF fuse_getattr, fuse_readdir, fuse_unlink, fuse_truncate, fuse_open, fuse_create,
                Op, Transfers, AnyName
  <2> QED
    BY <1>1, <2>1
<1>5. CASE fuse_read(t)
  BY <1>2, <1>5 DEF fuse_read
<1>6. CASE fuse_write(t)
  BY <1>3, <1>6 DEF fuse_write
<1> QED
  BY <1>4, <1>5, <1>6 DEF Begin

(* With such a directory sfs_fopen opens a file or refuses.                *)
LEMMA OpenWhole ==
    ASSUME NumsWhole, NEW n \in AnyName, sfs_fopen(n)
    PROVE  Refused(n) \/ \E s, i \in Inodes : OpenedOld(n, s, i) \/ OpenedNew(n, s, i)
BY OpenSplit DEF NumsWhole

(* It answers with an inode or refuses; the name is then not empty.        *)
LEMMA FopenAnswer ==
    ASSUME NumsWhole, NEW n \in AnyName, sfs_fopen(n), ret'.val # -1
    PROVE  n \in Name /\ ret'.val \in Inodes
<1>1. ASSUME NEW s \in Inodes, NEW i \in Inodes, OpenedOld(n, s, i) \/ OpenedNew(n, s, i)
      PROVE  n \in Name /\ ret'.val = i
  BY <1>1 DEF OpenedOld, OpenedNew, OpenOld, OpenNew, Reply
<1>2. ~Refused(n)
  BY DEF Refused, Refuse, Reply
<1> QED
  BY <1>1, <1>2, OpenWhole

(* Every step of a thread leaves it with a request of the right shape.     *)
LEMMA StepRequest ==
    ASSUME DaemonInv, NEW t \in Thread, Step(t)
    PROVE  \E r \in Request_t : Shaped(r) /\ req' = [req EXCEPT ![t] = r]
<1>a. /\ req \in [Thread -> Request_t] /\ req[t] \in Request_t /\ Shaped(req[t])
      /\ TypeOK /\ NumsWhole
  BY DEF DaemonInv, FuseTypeOK
<1>e. Ends(t) => \E r \in Request_t : Shaped(r) /\ req' = [req EXCEPT ![t] = r]
  BY NoRequestType DEF Ends
<1>1. CASE sem_wait(t)
  <2>1. req' = [req EXCEPT ![t] = req[t]]
    BY <1>1, <1>a DEF sem_wait
  <2> QED
    BY <1>a, <2>1
<1>2. CASE remove(t)
  <2>1. CASE req[t].op = "truncate" /\ Goes(t, "fopen")
    <3> DEFINE r == [req[t] EXCEPT !.at = "fopen"]
    <3>1. r \in Request_t /\ Shaped(r)
      BY <1>2, <1>a, <2>1 DEF remove, Request_t, Shaped, Transfers
    <3>2. req' = [req EXCEPT ![t] = r]
      BY <1>a, <2>1 DEF Goes
    <3> QED
      BY <3>1, <3>2
  <2> QED
    BY <1>e, <1>2, <2>1 DEF remove
<1>3. CASE fopen(t)
  <2>1. req[t].at = "fopen" /\ req[t].name \in AnyName /\ req[t].fd = -1
    BY <1>3, <1>a DEF fopen, fopen_illegal, InCall, Shaped, Request_t
  <2>2. CASE fopen_refused(t)
    <3>1. CASE ~LooksAtFopen(t) /\ Goes(t, "fclose")
      <4> DEFINE r == [req[t] EXCEPT !.at = "fclose"]
      <4>1. r \in Request_t /\ Shaped(r)
        BY <1>a, <2>1, <3>1 DEF LooksAtFopen, Request_t, Shaped, Transfers
      <4>2. req' = [req EXCEPT ![t] = r]
        BY <1>a, <3>1 DEF Goes
      <4> QED
        BY <4>1, <4>2
    <3> QED
      BY <1>e, <2>2, <3>1 DEF fopen_refused
  <2>3. CASE sfs_fopen(req[t].name) /\ fopen_done(t)
    <3>1. req[t].name \in Name /\ ret'.val \in Inodes
      BY <1>a, <2>1, <2>3, FopenAnswer DEF fopen_done
    <3> DEFINE a == IF req[t].op \in Transfers THEN "fseek" ELSE "fclose"
               v == ret'.val
               r == [req[t] EXCEPT !.fd = v, !.at = a]
    <3>2. v # -1 /\ v \in Inodes /\ req[t].name # NoName
      BY <3>1, NameAssumption DEF Inodes
    <3>3. r \in Request_t /\ Shaped(r)
      <4>1. a \in {"fseek", "fclose"} /\ (a = "fseek" => req[t].op \in Transfers)
        OBVIOUS
      <4> HIDE DEF a, v
      <4>2. r \in Request_t
        BY <1>a, <3>2, <4>1 DEF Request_t
      <4>3. /\ r.fd = v /\ r.at = a /\ r.op = req[t].op /\ r.name = req[t].name
            /\ r.off = req[t].off /\ r.length = req[t].length /\ r.buf = req[t].buf
        BY <1>a DEF Request_t
      <4> HIDE DEF r
      <4>4. Shaped(r)
        BY <1>a, <3>2, <4>1, <4>3 DEF Shaped
      <4> QED
        BY <4>2, <4>4
    <3>4. req' = [req EXCEPT ![t] = r]
      BY <1>a, <2>3 DEF fopen_done
    <3> QED
      BY <3>3, <3>4
  <2> QED
    BY <1>3, <2>2, <2>3 DEF fopen, fopen_illegal
<1>4. CASE fseek(t)
  <2> DEFINE r == [req[t] EXCEPT !.at = "transfer"]
  <2>1. r \in Request_t /\ Shaped(r)
    BY <1>4, <1>a DEF fseek, InCall, Request_t, Shaped
  <2>2. req' = [req EXCEPT ![t] = r]
    BY <1>a, <1>4 DEF fseek, Goes
  <2> QED
    BY <2>1, <2>2
<1>5. CASE transfer(t)
  <2>1. CASE Goes(t, "fclose")
    <3> DEFINE r == [req[t] EXCEPT !.at = "fclose"]
    <3>1. r \in Request_t /\ Shaped(r)
      BY <1>5, <1>a DEF transfer, InCall, Request_t, Shaped
    <3>2. req' = [req EXCEPT ![t] = r]
      BY <1>a, <2>1 DEF Goes
    <3> QED
      BY <3>1, <3>2
  <2> QED
    BY <1>e, <1>5, <2>1 DEF transfer
<1>6. CASE fclose(t)
  BY <1>e, <1>6 DEF fclose
<1>7. CASE getfilesize(t)
  <2> DEFINE S == SlotsNamed(req[t].name)
             i == rootDir[First(S)].num
  <2>1. CASE S # {} /\ req' = [req EXCEPT ![t].fd = i, ![t].at = "size"]
    <3>0. S \in SUBSET Inodes /\ S # {}
      BY <2>1 DEF SlotsNamed
    <3>1. i \in Inodes /\ i # -1
      <4>1. First(S) \in Inodes
        BY <3>0, FoundSlot
      <4> QED
        BY <1>a, <4>1 DEF NumsWhole, Inodes
    <3>2. req[t].at = "getfilesize"
      BY <1>7 DEF getfilesize, InCall
    <3> DEFINE r == [req[t] EXCEPT !.fd = i, !.at = "size"]
    <3>3. r \in Request_t /\ Shaped(r)
      <4> HIDE DEF i, S
      <4> QED
        BY <1>a, <3>1, <3>2 DEF Request_t, Shaped
    <3>4. req' = [req EXCEPT ![t] = r]
      BY <1>a, <2>1
    <3> QED
      BY <3>3, <3>4
  <2> QED
    BY <1>e, <1>7, <2>1 DEF getfilesize
<1>8. CASE read_size(t)
  BY <1>e, <1>8 DEF read_size
<1>9. CASE getnextfilename(t)
  <2> DEFINE fname == ret'.data[1]
  <2>1. CASE req' = [req EXCEPT ![t].seen = @ \cup {fname}]
    <3>1. fname \in AnyName \cup {Unspec}
      BY <1>9, <1>a DEF getnextfilename, sfs_getnextfilename, Reply, TypeOK, directory_entry, Inodes
    <3> DEFINE r == [req[t] EXCEPT !.seen = @ \cup {fname}]
    <3>2. r \in Request_t /\ Shaped(r)
      <4> HIDE DEF fname
      <4>1. r \in Request_t
        BY <1>a, <3>1 DEF Request_t
      <4>2. /\ r.fd = req[t].fd /\ r.at = req[t].at /\ r.op = req[t].op
            /\ r.name = req[t].name /\ r.off = req[t].off
            /\ r.length = req[t].length /\ r.buf = req[t].buf
        BY <1>a DEF Request_t
      <4> HIDE DEF r
      <4>3. Shaped(r)
        BY <1>a, <4>2 DEF Shaped
      <4> QED
        BY <4>1, <4>3
    <3>3. req' = [req EXCEPT ![t] = r]
      BY <1>a, <2>1
    <3> QED
      BY <3>2, <3>3
  <2> QED
    BY <1>e, <1>9, <2>1 DEF getnextfilename
<1> QED
  BY <1>1, <1>2, <1>3, <1>4, <1>5, <1>6, <1>7, <1>8, <1>9 DEF Step

(* The calls of sfs_api.c that a thread makes, each as a whole.            *)
Call ==
    \/ sfs_getnextfilename
    \/ \E n \in AnyName : sfs_fopen(n)
    \/ \E n \in Name : sfs_remove(n)
    \/ \E i \in Inodes : sfs_fclose(i)
    \/ \E i \in Inodes, length \in ReadLen : sfs_fread(i, length)
    \/ \E i \in Inodes, loc \in SeekTo : sfs_fseek(i, loc)
    \/ \E i \in Inodes, buf \in Buf : sfs_fwrite(i, buf)
    \/ UNCHANGED vars

LEMMA CallIsNext == Call => [Next]_vars
BY DEF Call, Next

(* None of them changes a number in the directory.                         *)
LEMMA CallNums ==
    ASSUME TypeOK, NumsWhole, Call PROVE NumsWhole'
<1>1. CASE known' = known /\ rootDir' = rootDir
  BY <1>1 DEF NumsWhole, Inodes
<1>2. ASSUME NEW n \in AnyName, sfs_fopen(n) PROVE NumsWhole'
  <2>1. CASE Refused(n)
    BY <1>1, <2>1 DEF Refused, Refuse, tables, blocks
  <2>2. ASSUME NEW s \in Inodes, NEW i \in Inodes, OpenedOld(n, s, i) PROVE NumsWhole'
    BY <1>1, <2>2 DEF OpenedOld, OpenOld, blocks
  <2>3. ASSUME NEW s \in Inodes, NEW i \in Inodes, OpenedNew(n, s, i) PROVE NumsWhole'
    <3>1. known' = known /\ rootDir' = [rootDir EXCEPT ![s].name = n]
      BY <2>3 DEF OpenedNew, OpenNew, blocks
    <3>2. \A r \in Inodes : rootDir'[r].num = rootDir[r].num
      BY <3>1 DEF TypeOK, directory_entry
    <3> QED
      BY <3>1, <3>2 DEF NumsWhole, Inodes
  <2> QED
    BY <1>2, <2>1, <2>2, <2>3, OpenWhole
<1>3. ASSUME NEW i \in Inodes, NEW buf \in Buf, sfs_fwrite(i, buf)
      PROVE  known' = known /\ rootDir' = rootDir
  BY <1>3 DEF sfs_fwrite, sfs_fwrite_done, sfs_fwrite_full, sfs_fwrite_using, Refuse, tables, blocks
<1>4. CASE \/ sfs_getnextfilename
           \/ \E n \in Name : sfs_remove(n)
           \/ \E i \in Inodes : sfs_fclose(i)
           \/ \E i \in Inodes, length \in ReadLen : sfs_fread(i, length)
           \/ \E i \in Inodes, loc \in SeekTo : sfs_fseek(i, loc)
           \/ UNCHANGED vars
  BY <1>1, <1>4 DEF sfs_getnextfilename, sfs_remove, sfs_fclose, sfs_fread, sfs_fseek, Refuse,
                    vars, tables, blocks
<1> QED
  BY <1>1, <1>2, <1>3, <1>4 DEF Call

(* What a step of a thread does to the tables is one call of sfs_api.c, or *)
(* closes file -1, or answers with a size.                                 *)
LEMMA StepIsCall ==
    ASSUME DaemonInv, NEW t \in Thread, Step(t)
    PROVE  \/ Call
           \/ sfs_fclose_before /\ misclosed'
           \/ read_size(t)
<1>a. req[t] \in Request_t /\ Shaped(req[t])
  BY DEF DaemonInv, FuseTypeOK
<1>1. CASE sem_wait(t) \/ getfilesize(t)
  BY <1>1 DEF sem_wait, getfilesize, Call
<1>2. CASE remove(t)
  BY <1>a, <1>2 DEF remove, Shaped, Call
<1>3. CASE fopen(t)
  <2>1. CASE fopen_illegal(t)
    <3>1. Runs /\ UNCHANGED up /\ Refuse
      BY <2>1 DEF fopen_illegal
    <3>2. JunkName \in AnyName /\ sfs_fopen(JunkName)
      BY <3>1, NameAssumption DEF sfs_fopen, AnyName
    <3> QED
      BY <3>2 DEF Call
  <2>2. CASE sfs_fopen(req[t].name)
    BY <1>a, <2>2 DEF Call, Request_t
  <2> QED
    BY <1>3, <2>1, <2>2 DEF fopen
<1>4. CASE fseek(t)
  <2>1. req[t].fd \in Inodes /\ req[t].off \in SeekTo
    BY <1>4, <1>a DEF fseek, InCall, Request_t, Shaped
  <2> QED
    BY <1>4, <2>1 DEF fseek, Call
<1>5. CASE transfer(t)
  <2>1. req[t].fd \in Inodes
    BY <1>5, <1>a DEF transfer, InCall, Request_t, Shaped
  <2>2. CASE req[t].op = "read" /\ sfs_fread(req[t].fd, req[t].length)
    BY <1>a, <2>1, <2>2 DEF Shaped, Call
  <2>3. CASE req[t].op = "write" /\ sfs_fwrite(req[t].fd, req[t].buf)
    BY <1>a, <2>1, <2>3 DEF Shaped, Call
  <2> QED
    BY <1>5, <2>2, <2>3 DEF transfer
<1>6. CASE fclose(t)
  <2>1. CASE req[t].fd # -1 /\ sfs_fclose(req[t].fd)
    BY <1>a, <2>1 DEF Request_t, Call
  <2>2. CASE req[t].fd = -1 /\ sfs_fclose_before
    <3>1. req[t].at = "fclose" /\ misclosed' = (misclosed \/ req[t].op \in {"create", "truncate"})
      BY <1>6, <2>2 DEF fclose, InCall
    <3> QED
      BY <1>a, <2>2, <3>1 DEF Shaped
  <2> QED
    BY <1>6, <2>1, <2>2 DEF fclose
<1>7. CASE getnextfilename(t)
  BY <1>7 DEF getnextfilename, Call
<1> QED
  BY <1>1, <1>2, <1>3, <1>4, <1>5, <1>6, <1>7 DEF Step

LEMMA CloseBeforeType ==
    ASSUME TypeOK, sfs_fclose_before PROVE TypeOK'
BY DEF TypeOK, sfs_fclose_before, Refuse, Reply, Word, tables, blocks, Closed

LEMMA ReadSizeType ==
    ASSUME DaemonInv, NEW t \in Thread, read_size(t) PROVE TypeOK'
<1>1. TypeOK /\ req[t].fd \in Inodes
  BY DEF read_size, DaemonInv, FuseTypeOK, Request_t, Shaped
<1>2. inode_table[req[t].fd].size \in Word
  BY <1>1 DEF TypeOK, inode_t, Word
<1> QED
  BY <1>1, <1>2 DEF TypeOK, read_size, Reply, tables, blocks

LEMMA StepTables ==
    ASSUME DaemonInv, NEW t \in Thread, Step(t)
    PROVE  TypeOK' /\ NumsWhole' /\ (OneOwner => OneOwner')
<1>1. TypeOK /\ NumsWhole
  BY DEF DaemonInv, FuseTypeOK
<1>2. CASE Call
  BY <1>1, <1>2, CallIsNext, CallNums, NextType, NextOwned
<1>3. CASE sfs_fclose_before
  <2>1. /\ inode_table' = inode_table /\ free_bit_map' = free_bit_map
        /\ rootDir' = rootDir /\ known' = known
    BY <1>3 DEF sfs_fclose_before, Refuse, tables, blocks
  <2>2. NumsWhole'
    BY <1>1, <2>1 DEF NumsWhole, Inodes
  <2> QED
    BY <1>1, <1>3, <2>1, <2>2, CloseBeforeType, SameInodes
<1>4. CASE read_size(t)
  <2>1. /\ inode_table' = inode_table /\ free_bit_map' = free_bit_map
        /\ rootDir' = rootDir /\ known' = known
    BY <1>4 DEF read_size, tables, blocks
  <2>2. NumsWhole'
    BY <1>1, <2>1 DEF NumsWhole, Inodes
  <2> QED
    BY <1>1, <1>4, <2>1, <2>2, ReadSizeType, SameInodes
<1> QED
  BY <1>2, <1>3, <1>4, StepIsCall

(* What a step of a thread does to the semaphore and to the daemon.        *)
LEMMA StepHolders ==
    ASSUME DaemonInv, NEW t \in Thread, Step(t)
    PROVE  /\ life = "serving" /\ life' = life /\ lost' = lost /\ asked' = asked
           /\ sem' \in {0, 1} /\ inside' \in Thread \cup {Nobody}
           /\ Holders'
<1>a. /\ sem \in {0, 1} /\ inside \in Thread \cup {Nobody} /\ Holders
      /\ Nobody # t
  BY DaemonAssumption DEF DaemonInv, FuseTypeOK
<1>1. ASSUME NEW c, InCall(t, c)
      PROVE  /\ life = "serving" /\ life' = life /\ lost' = lost /\ asked' = asked
             /\ sem' \in {0, 1} /\ inside' \in Thread \cup {Nobody}
             /\ Holders'
  BY <1>a, <1>1 DEF InCall, Holders, SemaphoreIsHeldOrLost
<1>2. CASE sem_wait(t)
  BY <1>a, <1>2 DEF sem_wait, Holders, SemaphoreIsHeldOrLost
<1>3. CASE remove(t) \/ fopen_illegal(t) \/ read_size(t)
  BY <1>a, <1>3 DEF remove, fopen_illegal, read_size, daemon, Holders, SemaphoreIsHeldOrLost
<1>4. CASE \E c : InCall(t, c)
  BY <1>1, <1>4
<1> QED
  BY <1>2, <1>3, <1>4 DEF Step, fopen, fseek, transfer, fclose, getfilesize, getnextfilename

(* Threads and inodes stay what they are in the history.                   *)
LEMMA StepHistory ==
    ASSUME DaemonInv, NEW t \in Thread, Step(t)
    PROVE  /\ disturbed' \subseteq Thread /\ twice' \subseteq Thread
           /\ leftOpen' \subseteq Inodes /\ misclosed' \in BOOLEAN
<1>a. /\ disturbed \subseteq Thread /\ twice \subseteq Thread
      /\ leftOpen \subseteq Inodes /\ misclosed \in BOOLEAN
      /\ req[t] \in Request_t /\ Shaped(req[t])
  BY DEF DaemonInv, FuseTypeOK
<1>d. ASSUME NEW i, Disturbs(t, i) PROVE disturbed' \subseteq Thread
  BY <1>a, <1>d DEF Disturbs
<1>1. CASE sem_wait(t) \/ remove(t) \/ getfilesize(t) \/ read_size(t)
  BY <1>a, <1>1 DEF sem_wait, remove, getfilesize, read_size, history
<1>2. CASE fopen(t)
  BY <1>a, <1>d, <1>2 DEF fopen, fopen_illegal, fopen_refused, fopen_done, history
<1>3. CASE fseek(t)
  BY <1>a, <1>d, <1>3 DEF fseek
<1>4. CASE transfer(t)
  <2>1. req[t].fd \in Inodes
    BY <1>a, <1>4 DEF transfer, InCall, Request_t, Shaped
  <2> QED
    BY <1>a, <1>d, <1>4, <2>1 DEF transfer
<1>5. CASE fclose(t)
  BY <1>a, <1>d, <1>5 DEF fclose
<1>6. CASE getnextfilename(t)
  <2>1. twice' \subseteq twice \cup {t}
    BY <1>6 DEF getnextfilename
  <2>2. disturbed' \subseteq Thread
    BY <1>a, <1>6 DEF getnextfilename
  <2> QED
    BY <1>a, <1>6, <2>1, <2>2 DEF getnextfilename
<1> QED
  BY <1>1, <1>2, <1>3, <1>4, <1>5, <1>6 DEF Step

(* The end of a process: new tables, and a semaphore that may be lost.     *)
LEMMA EmptyNums == rootDir' = EmptyDir /\ known' => NumsWhole'
BY DEF NumsWhole, EmptyDir, EmptySlot, Inodes

LEMMA KillTables == TypeOK /\ kill => TypeOK' /\ NumsWhole' /\ OneOwner'
<1> SUFFICES ASSUME TypeOK, kill PROVE TypeOK' /\ NumsWhole' /\ OneOwner'
  OBVIOUS
<1>1. inode_table' \in [Inodes -> inode_t]
  BY DEF kill, EmptyInode, inode_t
<1>2. rootDir' \in [Inodes -> directory_entry]
  BY DEF kill, EmptyDir, EmptySlot, AnyName, directory_entry, Inodes
<1>3. rootDir_ptr' \in -1 .. NumInodes - 1 /\ MAX_BLOCK' \in Nat
  BY SizeAssumption DEF kill
<1>4. free_bit_map' \subseteq DataBlocks \cup Overrun
  BY FreshMapLemma DEF kill
<1>5. ret'.val \in Word /\ up' \in BOOLEAN /\ fd_table' \in [Inodes -> Nat]
  BY DEF kill, Reply, Word
<1>6. TypeOK'
  BY <1>1, <1>2, <1>3, <1>4, <1>5 DEF TypeOK, kill
<1>7. OneOwner'
  <2>1. ASSUME NEW x \in PointerAt PROVE Pointer(x)' = 0
    <3>1. x[1] \in Inodes /\ x[2] \in 0 .. NDIRECT
      BY DEF PointerAt
    <3> QED
      BY <3>1, SizeAssumption DEF Pointer, EmptyInode, kill
  <2> QED
    BY <2>1 DEF OneOwner, PointerAt, Inodes, Metadata
<1>8. NumsWhole'
  BY EmptyNums DEF kill
<1> QED
  BY <1>6, <1>7, <1>8

LEMMA DaemonStep ==
    DaemonInv /\ [FuseNext]_fvars => DaemonInv' /\ (OneOwner => OneOwner')
<1> SUFFICES ASSUME DaemonInv, [FuseNext]_fvars PROVE DaemonInv' /\ (OneOwner => OneOwner')
  OBVIOUS
<1>a. FuseTypeOK /\ TypeOK /\ NumsWhole /\ Holders /\ \A t \in Thread : Shaped(req[t])
  BY DEF DaemonInv, FuseTypeOK
<1>n. (known' = known) /\ rootDir' = rootDir => NumsWhole'
  BY <1>a DEF NumsWhole, Inodes
<1>r. ASSUME NEW t \in Thread, NEW r \in Request_t, Shaped(r), req' = [req EXCEPT ![t] = r]
      PROVE  req' \in [Thread -> Request_t] /\ \A u \in Thread : Shaped(req'[u])
  BY <1>a, <1>r DEF FuseTypeOK
<1>1. ASSUME NEW t \in Thread, Begin(t) PROVE DaemonInv' /\ (OneOwner => OneOwner')
  <2>1. req' \in [Thread -> Request_t] /\ \A u \in Thread : Shaped(req'[u])
    BY <1>r, <1>1, BeginRequest
  <2>2. /\ UNCHANGED <<vars, daemon, history>> /\ life = "serving" /\ asked' \in Nat
    BY <1>a, <1>1 DEF Begin, FuseTypeOK
  <2>3. TypeOK' /\ NumsWhole' /\ (OneOwner => OneOwner')
    BY <1>a, <1>n, <2>2, NextType, NextOwned DEF vars, tables, blocks
  <2>4. FuseTypeOK'
    BY <1>a, <2>1, <2>2, <2>3 DEF FuseTypeOK, daemon, history
  <2>5. Holders'
    BY <1>a, <2>2 DEF Holders, SemaphoreIsHeldOrLost, daemon
  <2> QED
    BY <2>1, <2>2, <2>3, <2>4, <2>5 DEF DaemonInv, daemon
<1>2. ASSUME NEW t \in Thread, Step(t) PROVE DaemonInv' /\ (OneOwner => OneOwner')
  <2>1. req' \in [Thread -> Request_t] /\ \A u \in Thread : Shaped(req'[u])
    BY <1>r, <1>2, StepRequest
  <2>2. TypeOK' /\ NumsWhole' /\ (OneOwner => OneOwner')
    BY <1>2, StepTables
  <2>3. /\ life = "serving" /\ life' = life /\ lost' = lost /\ asked' = asked
        /\ sem' \in {0, 1} /\ inside' \in Thread \cup {Nobody}
        /\ Holders'
    BY <1>2, StepHolders
  <2>4. FuseTypeOK'
    BY <1>a, <1>2, <2>1, <2>2, <2>3, StepHistory DEF FuseTypeOK
  <2> QED
    BY <2>1, <2>2, <2>3, <2>4 DEF DaemonInv
<1>3. CASE start \/ mksfs_wait
  <2>1. UNCHANGED <<vars, inside, lost, req, asked, history>>
    BY <1>3 DEF start, mksfs_wait
  <2>2. TypeOK' /\ NumsWhole' /\ (OneOwner => OneOwner')
    BY <1>a, <1>n, <2>1, NextType, NextOwned DEF vars, tables, blocks
  <2>3. FuseTypeOK' /\ (\A t \in Thread : Shaped(req'[t]))
    BY <1>a, <1>3, <2>1, <2>2 DEF FuseTypeOK, start, mksfs_wait, history
  <2>4. Holders'
    BY <1>a, <1>3 DEF Holders, SemaphoreIsHeldOrLost, start, mksfs_wait
  <2>5. \A t \in Thread : req'[t] = NoRequest
    BY <1>3, <2>1 DEF DaemonInv, start, mksfs_wait
  <2> QED
    BY <2>2, <2>3, <2>4, <2>5 DEF DaemonInv
<1>4. CASE mksfs_format
  <2>1. TypeOK' /\ NumsWhole' /\ (OneOwner => OneOwner')
    BY <1>a, <1>4, EmptyNums, NextType, NextOwned DEF mksfs_format, mksfs_fresh, Next
  <2>2. FuseTypeOK' /\ (\A t \in Thread : Shaped(req'[t])) /\ life' = "serving"
    BY <1>a, <1>4, <2>1 DEF FuseTypeOK, mksfs_format
  <2>3. Holders'
    BY <1>a, <1>4 DEF Holders, SemaphoreIsHeldOrLost, mksfs_format
  <2> QED
    BY <2>1, <2>2, <2>3 DEF DaemonInv
<1>5. CASE kill
  <2>1. TypeOK' /\ NumsWhole' /\ OneOwner'
    BY <1>a, <1>5, KillTables
  <2>2. \A t \in Thread : req'[t] = NoRequest
    BY <1>5 DEF kill
  <2>3. FuseTypeOK'
    BY <1>a, <1>5, <2>1, NoRequestType DEF FuseTypeOK, kill
  <2>4. Holders'
    BY <1>a, <1>5, DaemonAssumption DEF Holders, SemaphoreIsHeldOrLost, kill
  <2> QED
    BY <2>1, <2>2, <2>3, <2>4, NoRequestType DEF DaemonInv
<1>6. CASE UNCHANGED fvars
  <2>1. UNCHANGED <<vars, daemon, req, asked, history>>
    BY <1>6 DEF fvars
  <2>2. TypeOK' /\ NumsWhole' /\ (OneOwner => OneOwner')
    BY <1>a, <1>n, <2>1, NextType, NextOwned DEF vars, tables, blocks
  <2>3. FuseTypeOK' /\ Holders'
    BY <1>a, <2>1, <2>2 DEF FuseTypeOK, Holders, SemaphoreIsHeldOrLost, daemon, history
  <2> QED
    BY <2>1, <2>2, <2>3 DEF DaemonInv, daemon
<1> QED
  BY <1>1, <1>2, <1>3, <1>4, <1>5, <1>6 DEF FuseNext

LEMMA DaemonInit == FuseInit => DaemonInv /\ OneOwner
<1> SUFFICES ASSUME FuseInit PROVE DaemonInv /\ OneOwner
  OBVIOUS
<1>1. TypeOK /\ OneOwner
  BY InitType, EmptyOwned DEF FuseInit, Init
<1>2. FuseTypeOK
  BY <1>1, NoRequestType DEF FuseInit, FuseTypeOK
<1>3. Holders
  BY DEF FuseInit, Holders, SemaphoreIsHeldOrLost
<1>4. NumsWhole
  BY DEF FuseInit, Init, NumsWhole, EmptyDir, EmptySlot
<1> QED
  BY <1>1, <1>2, <1>3, <1>4, NoRequestType DEF FuseInit, DaemonInv

LEMMA DaemonInvariant == FuseSafety => []DaemonInv
BY DaemonInit, DaemonStep, PTL DEF FuseSafety

(* The daemon's variables keep their types: no thread holds a number that  *)
(* is not of an inode, but for the -1 of a refused sfs_fopen.              *)
THEOREM DaemonTypeCorrect == FuseSafety => []FuseTypeOK
<1>1. DaemonInv => FuseTypeOK
  BY DEF DaemonInv
<1> QED
  BY <1>1, DaemonInvariant, PTL

(* The semaphore is taken exactly by a call in progress or by one that was *)
(* killed.                                                                 *)
THEOREM SemaphoreCorrect == FuseSafety => []SemaphoreIsHeldOrLost
<1>1. DaemonInv => SemaphoreIsHeldOrLost
  BY DEF DaemonInv, Holders
<1> QED
  BY <1>1, DaemonInvariant, PTL

(* No block gets a second owner under concurrent requests, kills and       *)
(* restarts.                                                               *)
THEOREM DaemonBlocksHaveOneOwner == FuseSafety => []OwnedOnce
<1>1. OneOwner => OwnedOnce
  BY DEF OwnedOnce
<1> QED
  BY <1>1, DaemonInit, DaemonStep, PTL DEF FuseSafety

-----------------------------------------------------------------------------
(* Names, open files and sizes.                                            *)

(* A daemon formats its disk, so that slot s leads to inode s; an inode    *)
(* whose slot is empty has no size; and what the properties say.           *)
FilesInv ==
    /\ \A s \in Inodes :
          /\ rootDir[s].num = s
          /\ rootDir[s].name = NoName => inode_table[s].size = 0
    /\ HandlesKeepTheirName
    /\ OpenOnlyAfterRefusal
    /\ MAX_BLOCK = NUM_BLOCKS \/ misclosed

(* What a call leaves of the directory and of the sizes.                   *)
TablesGrow ==
    /\ \A s \in Inodes :
          /\ rootDir'[s].num = rootDir[s].num
          /\ rootDir[s].name # NoName => rootDir'[s].name = rootDir[s].name
          /\ rootDir'[s].name = NoName => inode_table'[s].size = 0
    /\ \A i \in Inodes : inode_table'[i].size >= inode_table[i].size

LEMMA SameTablesGrow ==
    ASSUME DaemonInv, FilesInv, rootDir' = rootDir,
           \A i \in Inodes : inode_table'[i].size = inode_table[i].size
    PROVE  TablesGrow
BY DEF TablesGrow, FilesInv, DaemonInv, FuseTypeOK, TypeOK, inode_t

(* A file that a request holds has a name.                                 *)
LEMMA HeldHasName ==
    ASSUME DaemonInv, FilesInv, NEW t \in Thread, req[t].fd # -1
    PROVE  req[t].fd \in Inodes /\ rootDir[req[t].fd].name = req[t].name
                                /\ req[t].name # NoName
<1>1. PICK s \in Inodes : rootDir[s].num = req[t].fd /\ rootDir[s].name = req[t].name
  BY DEF FilesInv, HandlesKeepTheirName
<1>2. rootDir[s].num = s
  BY DEF FilesInv
<1>3. req[t].name # NoName
  BY DEF DaemonInv, Shaped
<1> QED
  BY <1>1, <1>2, <1>3

(* What sfs_fopen does when it does not refuse: one file is opened, that   *)
(* bears the name then.                                                    *)
LEMMA FopenOpens ==
    ASSUME DaemonInv, FilesInv, NEW n \in AnyName, sfs_fopen(n), ret'.val # -1
    PROVE  /\ TablesGrow
           /\ ret'.val \in Inodes /\ rootDir'[ret'.val].name = n /\ n # NoName
           /\ \A i \in Inodes \ {ret'.val} : inode_table'[i].mode = inode_table[i].mode
           /\ MAX_BLOCK' = MAX_BLOCK
<1> DEFINE Goal == /\ TablesGrow
                   /\ ret'.val \in Inodes /\ rootDir'[ret'.val].name = n /\ n # NoName
                   /\ \A i \in Inodes \ {ret'.val} : inode_table'[i].mode = inode_table[i].mode
                   /\ MAX_BLOCK' = MAX_BLOCK
<1>a. TypeOK /\ NumsWhole /\ n \in Name /\ n # NoName
  BY FopenAnswer, NameAssumption DEF DaemonInv, FuseTypeOK
<1>1. ~Refused(n)
  BY DEF Refused, Refuse, Reply
<1>2. ASSUME NEW s \in Inodes, NEW q \in Inodes, OpenedOld(n, s, q) PROVE Goal
  <2>1. s \in Inodes
    OBVIOUS
  <2>2. rootDir[s].num = s /\ rootDir[s].name = n
    BY <1>2 DEF FilesInv, SlotsNamed, OpenedOld
  <2>3. OpenOld(s)
    BY <1>2, <2>2 DEF OpenedOld
  <2>4. /\ ret'.val = s /\ rootDir' = rootDir /\ MAX_BLOCK' = MAX_BLOCK
        /\ \A i \in Inodes : inode_table'[i].size = inode_table[i].size
        /\ \A i \in Inodes \ {s} : inode_table'[i].mode = inode_table[i].mode
    BY <1>a, <2>1, <2>3 DEF OpenOld, Reply, blocks, TypeOK, inode_t
  <2> QED
    BY <1>a, <2>1, <2>2, <2>4, SameTablesGrow
<1>3. ASSUME NEW s \in Inodes, NEW q \in Inodes, OpenedNew(n, s, q) PROVE Goal
  <2>1. s \in EmptySlots /\ s \in Inodes
    BY <1>3 DEF OpenedNew
  <2>2. rootDir[s].num = s /\ rootDir[s].name = NoName /\ inode_table[s].size = 0
    BY <2>1 DEF FilesInv, EmptySlots
  <2>3. OpenNew(n, s)
    BY <1>3 DEF OpenedNew
  <2>4. /\ ret'.val = s /\ MAX_BLOCK' = MAX_BLOCK
        /\ rootDir' = [rootDir EXCEPT ![s].name = n]
        /\ inode_table' = [inode_table EXCEPT ![s].size = 0, ![s].mode = Opened]
    BY <2>2, <2>3 DEF OpenNew, Reply, blocks
  <2>5. /\ rootDir'[s].name = n
        /\ \A r \in Inodes : rootDir'[r].num = rootDir[r].num
        /\ \A r \in Inodes \ {s} : rootDir'[r] = rootDir[r]
    BY <1>a, <2>1, <2>4 DEF TypeOK, directory_entry
  <2>6. /\ \A i \in Inodes : inode_table'[i].size = inode_table[i].size
        /\ \A i \in Inodes \ {s} : inode_table'[i].mode = inode_table[i].mode
    BY <1>a, <2>1, <2>2, <2>4 DEF TypeOK, inode_t
  <2>7. TablesGrow
    <3>1. \A i \in Inodes : inode_table[i].size \in Int
      BY <1>a DEF TypeOK, inode_t
    <3>2. \A i \in Inodes : rootDir[i].name = NoName => inode_table[i].size = 0
      BY DEF FilesInv
    <3>3. \A i \in Inodes : inode_table'[i].size >= inode_table[i].size
      BY <2>6, <3>1
    <3>4. \A i \in Inodes : rootDir[i].name # NoName => rootDir'[i].name = rootDir[i].name
      BY <2>2, <2>5
    <3>5. \A i \in Inodes : rootDir'[i].name = NoName => rootDir[i].name = NoName
      BY <1>a, <2>5
    <3> QED
      BY <2>5, <2>6, <3>2, <3>3, <3>4, <3>5 DEF TablesGrow
  <2> QED
    BY <1>a, <2>1, <2>4, <2>5, <2>6, <2>7
<1> QED
  BY <1>a, <1>1, <1>2, <1>3, OpenWhole

(* A transfer on a file changes the size of that file alone.               *)
LEMMA TransferGrows ==
    ASSUME DaemonInv, FilesInv, NEW t \in Thread, transfer(t)
    PROVE  /\ TablesGrow
           /\ \A i \in Inodes : inode_table'[i].mode = inode_table[i].mode
           /\ MAX_BLOCK' = MAX_BLOCK
<1> DEFINE f == req[t].fd
<1>a. /\ TypeOK /\ f \in Inodes /\ rootDir[f].name # NoName
      /\ (req[t].op = "write" => req[t].buf \in Buf)
  <2>1. req[t].fd # -1 /\ Shaped(req[t])
    BY DEF transfer, InCall, DaemonInv, Shaped
  <2> QED
    BY <2>1, HeldHasName DEF DaemonInv, FuseTypeOK, Shaped
<1>1. ASSUME inode_table' = inode_table, rootDir' = rootDir, MAX_BLOCK' = MAX_BLOCK
      PROVE  /\ TablesGrow
             /\ \A i \in Inodes : inode_table'[i].mode = inode_table[i].mode
             /\ MAX_BLOCK' = MAX_BLOCK
  BY <1>1, SameTablesGrow
<1> HIDE DEF f
<1>2. CASE sfs_fread(f, req[t].length)
  BY <1>1, <1>2 DEF sfs_fread, Refuse, tables, blocks
<1>3. CASE sfs_fwrite(f, req[t].buf) /\ ~sfs_fwrite_done(f, req[t].buf)
  BY <1>1, <1>3 DEF sfs_fwrite, sfs_fwrite_full, Refuse, tables, blocks
<1>4. CASE sfs_fwrite_done(f, req[t].buf) /\ req[t].op = "write"
  <2> DEFINE e == fd_table[f] + Len(req[t].buf)
  <2>1. PICK s, blk : sfs_fwrite_using(f, req[t].buf, s, blk)
    BY <1>4 DEF sfs_fwrite_done
  <2>2. e \in Nat
    <3>1. fd_table[f] \in Nat
      BY <1>a DEF TypeOK
    <3>2. req[t].buf \in Seq(Int)
      BY <1>a, <1>4, ClientAssumption
    <3>3. Len(req[t].buf) \in Nat
      BY <3>2
    <3> QED
      BY <3>1, <3>3
  <2>3. \E d, p :
          inode_table' = [inode_table EXCEPT
              ![f].size = IF e > @ THEN e ELSE @, ![f].data_ptrs = d, ![f].indirectPointer = p]
    BY <2>1 DEF sfs_fwrite_using
  <2>4. rootDir' = rootDir /\ MAX_BLOCK' = MAX_BLOCK
    BY <2>1 DEF sfs_fwrite_using
  <2> HIDE DEF e
  <2>5. /\ \A i \in Inodes \ {f} : inode_table'[i] = inode_table[i]
        /\ inode_table'[f].size >= inode_table[f].size
        /\ inode_table'[f].mode = inode_table[f].mode
    BY <1>a, <2>2, <2>3 DEF TypeOK, inode_t
  <2>6. TablesGrow
    <3>1. \A i \in Inodes : inode_table[i].size \in Int
      BY <1>a DEF TypeOK, inode_t
    <3>2. \A i \in Inodes : rootDir[i].name = NoName => inode_table[i].size = 0 /\ i # f
      BY <1>a DEF FilesInv
    <3>3. \A i \in Inodes : inode_table'[i].size >= inode_table[i].size
      BY <2>5, <3>1
    <3>4. \A i \in Inodes : rootDir[i].name = NoName => inode_table'[i].size = 0
      BY <2>5, <3>2
    <3> QED
      BY <2>4, <3>3, <3>4 DEF TablesGrow
  <2> QED
    BY <2>4, <2>5, <2>6
<1> QED
  BY <1>2, <1>3, <1>4 DEF transfer, f

(* A sfs_fopen that answers -1 has left all as it was.                     *)
LEMMA FopenRefuses ==
    ASSUME NumsWhole, NEW n \in AnyName, sfs_fopen(n), ret'.val = -1
    PROVE  UNCHANGED <<tables, blocks>>
<1>1. ASSUME NEW s \in Inodes, NEW i \in Inodes, OpenedOld(n, s, i) \/ OpenedNew(n, s, i)
      PROVE  FALSE
  <2>1. ret'.val = i
    BY <1>1 DEF OpenedOld, OpenedNew, OpenOld, OpenNew, Reply
  <2> QED
    BY <2>1 DEF Inodes
<1>2. Refused(n)
  BY <1>1, OpenWhole
<1> QED
  BY <1>2 DEF Refused, Refuse

(* What carries the invariant over a step of thread t, whose request then  *)
(* is r: the tables grow, and t alone opens, closes and lets go of files.  *)
LEMMA Carries ==
    ASSUME DaemonInv, FilesInv, TablesGrow, NEW t \in Thread, NEW r \in Request_t,
           req' = [req EXCEPT ![t] = r],
           \/ r.fd = -1
           \/ r.fd = req[t].fd /\ r.name = req[t].name
           \/ r.fd \in Inodes /\ rootDir'[r.fd].name = r.name,
           \A i \in Inodes : inode_table'[i].mode = Opened =>
              \/ i \in leftOpen'
              \/ r.fd = i /\ r.at # "size"
              \/ /\ inode_table[i].mode = Opened
                 /\ i \notin leftOpen
                 /\ req[t].fd = i => req[t].at = "size",
           MAX_BLOCK' = NUM_BLOCKS \/ misclosed'
    PROVE  FilesInv'
<1>a. req \in [Thread -> Request_t]
  BY DEF DaemonInv, FuseTypeOK
<1>b. req'[t] = r /\ \A u \in Thread \ {t} : req'[u] = req[u]
  BY <1>a
<1>1. \A s \in Inodes :
        /\ rootDir'[s].num = s
        /\ rootDir'[s].name = NoName => inode_table'[s].size = 0
  BY DEF TablesGrow, FilesInv
<1>2. ASSUME NEW u \in Thread, req'[u].fd # -1
      PROVE  req'[u].fd \in Inodes /\ rootDir'[req'[u].fd].name = req'[u].name
  <2>1. CASE req'[u].fd = req[u].fd /\ req'[u].name = req[u].name
    <3>1. req[u].fd \in Inodes /\ rootDir[req[u].fd].name = req[u].name /\ req[u].name # NoName
      BY <1>2, <2>1, HeldHasName
    <3> QED
      BY <2>1, <3>1 DEF TablesGrow
  <2> QED
    BY <1>b, <1>2, <2>1
<1>3. HandlesKeepTheirName'
  BY <1>1, <1>2 DEF HandlesKeepTheirName
<1>4. OpenOnlyAfterRefusal'
  <2> SUFFICES ASSUME NEW i \in Inodes, inode_table'[i].mode = Opened, i \notin leftOpen'
               PROVE  \E u \in Thread : req'[u].fd = i /\ req'[u].at # "size"
    BY DEF OpenOnlyAfterRefusal
  <2>1. CASE r.fd = i /\ r.at # "size"
    BY <1>b, <2>1
  <2>2. CASE /\ inode_table[i].mode = Opened
             /\ i \notin leftOpen
             /\ req[t].fd = i => req[t].at = "size"
    <3>1. PICK u \in Thread : req[u].fd = i /\ req[u].at # "size"
      BY <2>2 DEF FilesInv, OpenOnlyAfterRefusal
    <3> QED
      BY <1>b, <2>2, <3>1
  <2> QED
    BY <2>1, <2>2
<1> QED
  BY <1>1, <1>3, <1>4 DEF FilesInv

(* The invariant over a step that opens and closes nothing.                *)
LEMMA CarriesSame ==
    ASSUME DaemonInv, FilesInv, TablesGrow, NEW t \in Thread, NEW r \in Request_t,
           req' = [req EXCEPT ![t] = r],
           \/ r.fd = -1
           \/ r.fd = req[t].fd /\ r.name = req[t].name
           \/ r.fd \in Inodes /\ rootDir'[r.fd].name = r.name,
           \A i \in Inodes : inode_table'[i].mode = inode_table[i].mode,
           \/ req[t].fd = -1
           \/ req[t].fd = r.fd /\ (req[t].at = "size" \/ r.at # "size")
           \/ req[t].at = "size",
           leftOpen' = leftOpen, misclosed' = misclosed, MAX_BLOCK' = MAX_BLOCK
    PROVE  FilesInv'
<1>1. MAX_BLOCK' = NUM_BLOCKS \/ misclosed'
  BY DEF FilesInv
<1>2. ASSUME NEW i \in Inodes, inode_table'[i].mode = Opened
      PROVE  \/ i \in leftOpen'
             \/ r.fd = i /\ r.at # "size"
             \/ /\ inode_table[i].mode = Opened
                /\ i \notin leftOpen
                /\ req[t].fd = i => req[t].at = "size"
  BY <1>2 DEF Inodes
<1> QED
  BY <1>1, <1>2, Carries

LEMMA StepFiles ==
    ASSUME DaemonInv, FilesInv, NEW t \in Thread, Step(t)
    PROVE  FilesInv' /\ TablesGrow
<1>a. /\ req \in [Thread -> Request_t] /\ req[t] \in Request_t /\ Shaped(req[t])
      /\ TypeOK /\ NumsWhole
  BY DEF DaemonInv, FuseTypeOK
<1>n. NoRequest \in Request_t /\ NoRequest.fd = -1 /\ NoRequest.at = "idle"
  BY NoRequestType DEF NoRequest
<1>s. ASSUME NEW a \in {"fopen", "fclose", "transfer"}, Goes(t, a)
      PROVE  LET r == [req[t] EXCEPT !.at = a] IN
             /\ r \in Request_t /\ req' = [req EXCEPT ![t] = r]
             /\ r.fd = req[t].fd /\ r.name = req[t].name /\ r.at = a
  BY <1>a, <1>s DEF Goes, Request_t
<1>1. CASE sem_wait(t)
  <2>1. /\ req' = [req EXCEPT ![t] = req[t]]
        /\ UNCHANGED <<vars, history>>
    BY <1>1, <1>a DEF sem_wait
  <2>2. TablesGrow
    BY <2>1, SameTablesGrow DEF vars, tables
  <2>3. FilesInv'
    BY <1>a, <2>1, <2>2, CarriesSame DEF vars, tables, blocks, history
  <2> QED
    BY <2>2, <2>3
<1>2. CASE remove(t)
  <2>1. UNCHANGED <<tables, blocks, history>> /\ req[t].fd = -1
    BY <1>2, <1>a DEF remove, sfs_remove, Shaped
  <2>2. TablesGrow
    BY <2>1, SameTablesGrow DEF tables
  <2>3. PICK r \in Request_t : r.fd = -1 /\ req' = [req EXCEPT ![t] = r]
    BY <1>2, <1>n, <1>s, <2>1 DEF remove, Ends
  <2>4. FilesInv'
    BY <2>1, <2>2, <2>3, CarriesSame DEF tables, blocks, history
  <2> QED
    BY <2>2, <2>4
<1>3. CASE fopen(t) /\ fopen_refused(t)
  <2>1. req[t].fd = -1 /\ req[t].name \in AnyName
    BY <1>3, <1>a DEF fopen, fopen_illegal, InCall, Shaped, Request_t
  <2>2. UNCHANGED <<tables, blocks>> /\ UNCHANGED history
    BY <1>3, <1>a, <2>1, FopenRefuses DEF fopen, fopen_illegal, fopen_refused, Refuse
  <2>3. TablesGrow
    BY <2>2, SameTablesGrow DEF tables
  <2>4. PICK r \in Request_t : r.fd = -1 /\ req' = [req EXCEPT ![t] = r]
    BY <1>3, <1>n, <1>s, <2>1 DEF fopen_refused, Ends
  <2>5. FilesInv'
    BY <2>1, <2>2, <2>3, <2>4, CarriesSame DEF tables, blocks, history
  <2> QED
    BY <2>3, <2>5
<1>4. CASE sfs_fopen(req[t].name) /\ fopen_done(t) /\ InCall(t, "fopen")
  <2>1. req[t].fd = -1 /\ req[t].name \in AnyName
    BY <1>4, <1>a DEF InCall, Shaped, Request_t
  <2> DEFINE i == ret'.val
             a == IF req[t].op \in Transfers THEN "fseek" ELSE "fclose"
             r == [req[t] EXCEPT !.fd = i, !.at = a]
  <2>2. /\ TablesGrow
        /\ i \in Inodes /\ rootDir'[i].name = req[t].name
        /\ \A j \in Inodes \ {i} : inode_table'[j].mode = inode_table[j].mode
        /\ MAX_BLOCK' = MAX_BLOCK
    BY <1>4, <2>1, FopenOpens DEF fopen_done
  <2>3. req' = [req EXCEPT ![t].fd = i, ![t].at = a] /\ UNCHANGED <<leftOpen, misclosed>>
    BY <1>4 DEF fopen_done
  <2> HIDE DEF i
  <2>4. /\ r \in Request_t /\ req' = [req EXCEPT ![t] = r]
        /\ r.fd = i /\ r.name = req[t].name /\ r.at # "size"
    BY <1>a, <2>2, <2>3 DEF Request_t
  <2>5. \A j \in Inodes : inode_table'[j].mode = Opened =>
          \/ j \in leftOpen'
          \/ r.fd = j /\ r.at # "size"
          \/ /\ inode_table[j].mode = Opened
             /\ j \notin leftOpen
             /\ req[t].fd = j => req[t].at = "size"
    BY <2>1, <2>2, <2>3, <2>4 DEF Inodes
  <2>6. MAX_BLOCK' = NUM_BLOCKS \/ misclosed'
    BY <2>2, <2>3 DEF FilesInv
  <2> HIDE DEF r
  <2>6a. TablesGrow /\ r.fd \in Inodes /\ rootDir'[r.fd].name = r.name
    BY <2>2, <2>4
  <2>6b. r \in Request_t /\ req' = [req EXCEPT ![t] = r]
    BY <2>4
  <2>7. FilesInv'
    BY <2>5, <2>6, <2>6a, <2>6b, Carries
  <2> QED
    BY <2>2, <2>7
<1>5. CASE fseek(t)
  <2>1. /\ req[t].at = "fseek" /\ inode_table' = inode_table /\ rootDir' = rootDir
        /\ MAX_BLOCK' = MAX_BLOCK /\ UNCHANGED <<leftOpen, misclosed>> /\ Goes(t, "transfer")
    BY <1>5 DEF fseek, InCall, sfs_fseek, blocks
  <2>2. TablesGrow
    BY <2>1, SameTablesGrow
  <2>3. PICK r \in Request_t : /\ req' = [req EXCEPT ![t] = r] /\ r.at = "transfer"
                               /\ r.fd = req[t].fd /\ r.name = req[t].name
    BY <1>s, <2>1
  <2>4. FilesInv'
    BY <2>1, <2>2, <2>3, CarriesSame
  <2> QED
    BY <2>2, <2>4
<1>6. CASE transfer(t)
  <2>1. /\ TablesGrow
        /\ \A i \in Inodes : inode_table'[i].mode = inode_table[i].mode
        /\ MAX_BLOCK' = MAX_BLOCK
    BY <1>6, TransferGrows
  <2>2. req[t].at = "transfer" /\ misclosed' = misclosed
    BY <1>6 DEF transfer, InCall
  <2>3. CASE Goes(t, "fclose") /\ leftOpen' = leftOpen
    <3>1. PICK r \in Request_t : /\ req' = [req EXCEPT ![t] = r] /\ r.at = "fclose"
                                 /\ r.fd = req[t].fd /\ r.name = req[t].name
      BY <1>s, <2>3
    <3>2. FilesInv'
      BY <2>1, <2>2, <2>3, <3>1, CarriesSame
    <3> QED
      BY <2>1, <3>2
  <2>4. CASE Ends(t) /\ leftOpen' = leftOpen \cup {req[t].fd}
    <3>1. req' = [req EXCEPT ![t] = NoRequest]
      BY <2>4 DEF Ends
    <3>2. MAX_BLOCK' = NUM_BLOCKS \/ misclosed'
      BY <2>1, <2>2 DEF FilesInv
    <3>3. FilesInv'
      BY <1>n, <2>1, <2>4, <3>1, <3>2, Carries
    <3> QED
      BY <2>1, <3>3
  <2> QED
    BY <1>6, <2>3, <2>4 DEF transfer
<1>7. CASE fclose(t)
  <2>1. req[t].at = "fclose" /\ req' = [req EXCEPT ![t] = NoRequest]
    BY <1>7 DEF fclose, InCall, Ends
  <2>2. CASE req[t].fd # -1 /\ sfs_fclose(req[t].fd) /\ leftOpen' = leftOpen \ {req[t].fd}
                            /\ misclosed' = misclosed
    <3> DEFINE f == req[t].fd
    <3>1. f \in Inodes
      BY <1>a, <2>2 DEF Request_t
    <3>2. /\ rootDir' = rootDir /\ MAX_BLOCK' = MAX_BLOCK
          /\ inode_table' = inode_table \/ inode_table' = [inode_table EXCEPT ![f].mode = Closed]
          /\ inode_table'[f].mode = Closed
      BY <1>a, <2>2, <3>1 DEF sfs_fclose, Refuse, tables, blocks, TypeOK, inode_t
    <3> HIDE DEF f
    <3>3. \A i \in Inodes : inode_table'[i].size = inode_table[i].size
      <4>1. CASE inode_table' = [inode_table EXCEPT ![f].mode = Closed]
        BY <1>a, <3>1, <4>1 DEF TypeOK, inode_t
      <4> QED
        BY <3>2, <4>1
    <3>4. \A i \in Inodes \ {f} : inode_table'[i].mode = inode_table[i].mode
      BY <1>a, <3>1, <3>2 DEF TypeOK
    <3>5. TablesGrow
      BY <3>2, <3>3, SameTablesGrow
    <3>6. ASSUME NEW i \in Inodes, inode_table'[i].mode = Opened
          PROVE  \/ i \in leftOpen'
                 \/ /\ inode_table[i].mode = Opened /\ i \notin leftOpen
                    /\ req[t].fd = i => req[t].at = "size"
      <4>1. i # f
        BY <3>2, <3>6 DEF Opened, Closed
      <4> QED
        BY <2>2, <3>4, <3>6, <4>1 DEF f
    <3>7. MAX_BLOCK' = NUM_BLOCKS \/ misclosed'
      BY <2>2, <3>2 DEF FilesInv
    <3>8. FilesInv'
      BY <1>n, <2>1, <3>5, <3>6, <3>7, Carries
    <3> QED
      BY <3>5, <3>8
  <2>3. CASE /\ req[t].fd = -1 /\ sfs_fclose_before /\ leftOpen' = leftOpen
             /\ misclosed' = (misclosed \/ req[t].op \in {"create", "truncate"})
    <3>1. inode_table' = inode_table /\ rootDir' = rootDir
      BY <2>3 DEF sfs_fclose_before, Refuse, tables, blocks
    <3>2. misclosed'
      BY <1>a, <2>1, <2>3 DEF Shaped
    <3>3. TablesGrow
      BY <3>1, SameTablesGrow
    <3>4. ASSUME NEW i \in Inodes, inode_table'[i].mode = Opened
          PROVE  \/ i \in leftOpen'
                 \/ /\ inode_table[i].mode = Opened /\ i \notin leftOpen
                    /\ req[t].fd = i => req[t].at = "size"
      BY <2>3, <3>1, <3>4 DEF Inodes
    <3>5. FilesInv'
      BY <1>n, <2>1, <3>2, <3>3, <3>4, Carries
    <3> QED
      BY <3>3, <3>5
  <2> QED
    BY <1>7, <2>2, <2>3 DEF fclose
<1>8. CASE getfilesize(t)
  <2> DEFINE S == SlotsNamed(req[t].name)
             s == First(S)
             i == rootDir[s].num
             r == [req[t] EXCEPT !.fd = i, !.at = "size"]
  <2>1. UNCHANGED <<vars, history>> /\ req[t].fd = -1
    BY <1>8, <1>a DEF getfilesize, InCall, Shaped
  <2>2. TablesGrow
    BY <2>1, SameTablesGrow DEF vars, tables
  <2>3. CASE S # {} /\ req' = [req EXCEPT ![t].fd = i, ![t].at = "size"]
    <3>1. s \in S /\ s \in Inodes
      BY <2>3, FirstLemma DEF SlotsNamed, Inodes
    <3>2. i = s /\ i \in Inodes /\ rootDir[i].name = req[t].name
      BY <3>1 DEF FilesInv, SlotsNamed
    <3>3. req' = [req EXCEPT ![t].fd = i, ![t].at = "size"]
      BY <2>3
    <3> HIDE DEF i
    <3>4. /\ r \in Request_t /\ req' = [req EXCEPT ![t] = r]
          /\ r.fd = i /\ r.name = req[t].name
      BY <1>a, <3>2, <3>3 DEF Request_t
    <3> HIDE DEF r
    <3>5. FilesInv'
      BY <2>1, <2>2, <3>2, <3>4, CarriesSame DEF vars, tables, blocks, history
    <3> QED
      BY <2>2, <3>5
  <2>4. CASE Ends(t)
    <3>1. FilesInv'
      BY <1>n, <2>1, <2>2, <2>4, CarriesSame DEF vars, tables, blocks, history, Ends
    <3> QED
      BY <2>2, <3>1
  <2> QED
    BY <1>8, <2>3, <2>4 DEF getfilesize
<1>9. CASE read_size(t)
  <2>1. UNCHANGED <<tables, blocks, history>> /\ req[t].at = "size" /\ Ends(t)
    BY <1>9 DEF read_size
  <2>2. TablesGrow
    BY <2>1, SameTablesGrow DEF tables
  <2>3. FilesInv'
    BY <1>n, <2>1, <2>2, CarriesSame DEF tables, blocks, history, Ends
  <2> QED
    BY <2>2, <2>3
<1>10. CASE getnextfilename(t)
  <2>1. /\ req[t].fd = -1 /\ inode_table' = inode_table /\ rootDir' = rootDir
        /\ MAX_BLOCK' = MAX_BLOCK /\ UNCHANGED <<leftOpen, misclosed>>
    BY <1>10, <1>a DEF getnextfilename, InCall, Shaped, sfs_getnextfilename, blocks
  <2>2. TablesGrow
    BY <2>1, SameTablesGrow
  <2>3. PICK r \in Request_t : req' = [req EXCEPT ![t] = r] /\ r.fd = -1
    <3>1. CASE Ends(t)
      BY <1>n, <3>1 DEF Ends
    <3>2. CASE req' = [req EXCEPT ![t].seen = @ \cup {ret'.data[1]}]
      <4> DEFINE r == [req[t] EXCEPT !.seen = @ \cup {ret'.data[1]}]
      <4>1. req' = [req EXCEPT ![t] = r] /\ r.fd = -1
        BY <1>a, <2>1, <3>2 DEF Request_t
      <4>2. PICK q \in Request_t : req' = [req EXCEPT ![t] = q]
        BY <1>10, StepRequest DEF Step
      <4>3. q = r
        BY <1>a, <4>1, <4>2
      <4> QED
        BY <4>1, <4>2, <4>3
    <3> QED
      BY <1>10, <3>1, <3>2 DEF getnextfilename
  <2>4. FilesInv'
    BY <2>1, <2>2, <2>3, CarriesSame
  <2> QED
    BY <2>2, <2>4
<1> QED
  BY <1>1, <1>2, <1>3, <1>4, <1>5, <1>6, <1>7, <1>8, <1>9, <1>10
  DEF Step, fopen, fopen_illegal

(* New tables, and no request that holds a file.                           *)
LEMMA FreshFiles ==
    ASSUME inode_table' = [i \in Inodes |-> EmptyInode], rootDir' = EmptyDir,
           \A t \in Thread : req'[t] = NoRequest, MAX_BLOCK' = NUM_BLOCKS
    PROVE  FilesInv'
<1>1. /\ \A s \in Inodes : rootDir'[s].num = s /\ inode_table'[s].size = 0
      /\ \A s \in Inodes : inode_table'[s].mode # Opened
  BY DEF EmptyDir, EmptySlot, EmptyInode, Opened, Closed
<1>2. \A t \in Thread : req'[t].fd = -1
  BY DEF NoRequest
<1> QED
  BY <1>1, <1>2 DEF FilesInv, HandlesKeepTheirName, OpenOnlyAfterRefusal

LEMMA FilesStep ==
    DaemonInv /\ FilesInv /\ [FuseNext]_fvars =>
        FilesInv' /\ (life = "serving" /\ life' = "serving" => TablesGrow)
<1> SUFFICES ASSUME DaemonInv, FilesInv, [FuseNext]_fvars
             PROVE  FilesInv' /\ (life = "serving" /\ life' = "serving" => TablesGrow)
  OBVIOUS
<1>1. CASE \E t \in Thread : Step(t)
  BY <1>1, StepFiles
<1>2. CASE \E t \in Thread : Begin(t)
  <2> PICK t \in Thread : Begin(t)
    BY <1>2
  <2>1. UNCHANGED <<vars, history>> /\ req[t].at = "idle" /\ req[t].fd = -1
    BY DEF Begin, DaemonInv, Shaped
  <2>2. TablesGrow
    BY <2>1, SameTablesGrow DEF vars, tables
  <2>3. PICK r \in Request_t : r.fd = -1 /\ req' = [req EXCEPT ![t] = r]
    BY BeginRequest
  <2>4. FilesInv'
    BY <2>1, <2>2, <2>3, CarriesSame DEF vars, tables, blocks, history
  <2> QED
    BY <2>2, <2>4
<1>3. CASE start \/ mksfs_wait \/ UNCHANGED fvars
  <2>1. UNCHANGED <<vars, req, history>>
    BY <1>3 DEF start, mksfs_wait, fvars
  <2>2. TablesGrow
    BY <2>1, SameTablesGrow DEF vars, tables
  <2>3. FilesInv'
    BY <2>1 DEF FilesInv, HandlesKeepTheirName, OpenOnlyAfterRefusal, vars, tables, blocks, history
  <2> QED
    BY <2>2, <2>3
<1>4. CASE mksfs_format
  <2>1. life = "format" /\ \A t \in Thread : req'[t] = NoRequest
    BY <1>4 DEF mksfs_format, DaemonInv
  <2> QED
    BY <1>4, <2>1, FreshFiles DEF mksfs_format, mksfs_fresh
<1>5. CASE kill
  BY <1>5, FreshFiles DEF kill
<1> QED
  BY <1>1, <1>2, <1>3, <1>4, <1>5 DEF FuseNext

LEMMA FilesInit == FuseInit => FilesInv
<1> SUFFICES ASSUME FuseInit PROVE FilesInv
  OBVIOUS
<1>1. /\ \A s \in Inodes : rootDir[s].num = s /\ inode_table[s].size = 0
      /\ \A s \in Inodes : inode_table[s].mode # Opened
  BY DEF FuseInit, Init, EmptyDir, EmptySlot, EmptyInode, Opened, Closed
<1>2. MAX_BLOCK = NUM_BLOCKS /\ \A t \in Thread : req[t].fd = -1
  BY DEF FuseInit, Init, NoRequest
<1> QED
  BY <1>1, <1>2 DEF FilesInv, HandlesKeepTheirName, OpenOnlyAfterRefusal

LEMMA FilesInvariant == FuseSafety => [](DaemonInv /\ FilesInv)
BY DaemonInit, DaemonStep, FilesInit, FilesStep, PTL DEF FuseSafety

(* Under any interleaving the file a request holds keeps its name.         *)
THEOREM HandlesCorrect == FuseSafety => []HandlesKeepTheirName
<1>1. FilesInv => HandlesKeepTheirName
  BY DEF FilesInv
<1> QED
  BY <1>1, FilesInvariant, PTL

(* A file that no request is at is open only behind a refused transfer.    *)
THEOREM OpenFilesCorrect == FuseSafety => []OpenOnlyAfterRefusal
<1>1. FilesInv => OpenOnlyAfterRefusal
  BY DEF FilesInv
<1> QED
  BY <1>1, FilesInvariant, PTL

(* The disk stays in reach until a refused create or truncate has closed   *)
(* file -1.                                                                *)
THEOREM DiskStaysInReach == FuseSafety => []DiskInReach
<1>1. MAX_BLOCK = NUM_BLOCKS => Reachable = DataBlocks
  BY SizeAssumption DEF Reachable, DataBlocks
<1>2. FilesInv => DiskInReach
  BY <1>1 DEF FilesInv, DiskInReach
<1> QED
  BY <1>2, FilesInvariant, PTL

(* No size that fuse_getattr has answered is too large later on.           *)
THEOREM SizesGrow == FuseSafety => SizesOnlyGrow
<1> DEFINE A == life = "serving" /\ life' = "serving" =>
                    \A i \in Inodes : inode_table'[i].size >= inode_table[i].size
<1>1. DaemonInv /\ FilesInv /\ [FuseNext]_fvars => [A]_fvars
  BY FilesStep DEF TablesGrow
<1> QED
  BY <1>1, DaemonInit, DaemonStep, FilesInit, FilesStep, PTL DEF FuseSafety, SizesOnlyGrow

-----------------------------------------------------------------------------
(* The listing of the directory.                                           *)

(* The names stand in the first slots, each once.                          *)
NamesFirst ==
    /\ \A s \in Inodes : rootDir[s].name \in Name \cup {NoName}
    /\ \A s, r \in Inodes : s < r /\ rootDir[r].name # NoName =>
           rootDir[s].name # NoName /\ rootDir[s].name # rootDir[r].name

(* What thread t has listed: names of files, and, while no other listing   *)
(* came between, of the slots before the pointer alone.                    *)
Listed(t) ==
    /\ req[t].at = "getnextfilename" => req[t].op = "readdir"
    /\ req[t].at # "getnextfilename" => req[t].seen = {} /\ t \notin twice
    /\ t \in twice => t \in disturbed
    /\ \A n \in req[t].seen : \E s \in Inodes :
          /\ rootDir[s].name = n /\ n \in Name
          /\ t \notin disturbed => s < rootDir_ptr

ListingInv == NamesFirst /\ \A t \in Thread : Listed(t)

(* A new name goes to the first empty slot.                                *)
LEMMA FopenNamesFirst ==
    ASSUME DaemonInv, FilesInv, NamesFirst, NEW n \in AnyName, sfs_fopen(n)
    PROVE  NamesFirst' /\ rootDir_ptr' = rootDir_ptr
<1>a. TypeOK
  BY DEF DaemonInv, FuseTypeOK
<1>1. CASE UNCHANGED <<rootDir, rootDir_ptr>>
  BY <1>1 DEF NamesFirst
<1>2. CASE n \in Name /\ SlotsNamed(n) = {} /\ EmptySlots # {} /\ OpenNew(n, First(EmptySlots))
  <2> DEFINE s == First(EmptySlots)
  <2>1. s \in EmptySlots /\ s \in Inodes /\ \A r \in EmptySlots : s <= r
    BY <1>2, FirstLemma DEF EmptySlots, Inodes
  <2>2. rootDir' = [rootDir EXCEPT ![s].name = n] /\ rootDir_ptr' = rootDir_ptr
    BY <1>2 DEF OpenNew
  <2> HIDE DEF s
  <2>3. /\ rootDir'[s].name = n
        /\ \A r \in Inodes \ {s} : rootDir'[r].name = rootDir[r].name
    BY <1>a, <2>1, <2>2 DEF TypeOK, directory_entry
  <2>4. \A r \in Inodes : rootDir[r].name # n
    BY <1>2 DEF SlotsNamed
  <2>5. n # NoName
    BY <1>2, NameAssumption
  <2>6. \A r \in Inodes : r < s => rootDir[r].name # NoName
    BY <2>1 DEF EmptySlots, Inodes
  <2>7. rootDir[s].name = NoName
    BY <2>1 DEF EmptySlots
  <2>8. \A r \in Inodes : s < r => rootDir[r].name = NoName
    BY <2>1, <2>7 DEF NamesFirst
  <2>9. \A r \in Inodes : rootDir'[r].name \in Name \cup {NoName}
    BY <1>2, <2>3 DEF NamesFirst
  <2>10. ASSUME NEW q \in Inodes, NEW r \in Inodes, q < r, rootDir'[r].name # NoName
         PROVE  rootDir'[q].name # NoName /\ rootDir'[q].name # rootDir'[r].name
    <3>1. CASE r = s
      BY <2>3, <2>4, <2>6, <2>10, <3>1 DEF Inodes
    <3>2. CASE q = s
      BY <2>3, <2>8, <2>10, <3>2 DEF Inodes
    <3>3. CASE q # s /\ r # s
      BY <2>3, <2>10, <3>3 DEF NamesFirst
    <3> QED
      BY <3>1, <3>2, <3>3
  <2> QED
    BY <2>2, <2>9, <2>10 DEF NamesFirst
<1> QED
  BY <1>1, <1>2 DEF sfs_fopen, Candidates, Refuse, OpenOld, tables

(* What carries the listings over a step that is not part of one.          *)
LEMMA ListingCarries ==
    ASSUME DaemonInv, ListingInv, TablesGrow, NamesFirst', rootDir_ptr' = rootDir_ptr,
           NEW t \in Thread, \A u \in Thread \ {t} : req'[u] = req[u],
           \/ req'[t] = req[t]
           \/ /\ req[t].at # "getnextfilename" /\ req'[t].seen = {}
              /\ req'[t].at = "getnextfilename" => req'[t].op = "readdir",
           twice' = twice,
           \A u \in disturbed \cap Thread : req'[u].at # "idle" => u \in disturbed'
    PROVE  ListingInv'
<1>1. ASSUME NEW u \in Thread, req'[u] = req[u] PROVE Listed(u)'
  <2>1. Listed(u)
    BY DEF ListingInv
  <2>2. req[u].at = "getnextfilename" /\ u \in disturbed => u \in disturbed'
    BY <1>1
  <2>3. ASSUME NEW n \in req[u].seen
        PROVE  \E s \in Inodes : /\ rootDir'[s].name = n /\ n \in Name
                                 /\ u \notin disturbed' => s < rootDir_ptr'
    <3>1. PICK s \in Inodes : /\ rootDir[s].name = n /\ n \in Name
                              /\ u \notin disturbed => s < rootDir_ptr
      BY <2>1, <2>3 DEF Listed
    <3>2. rootDir'[s].name = n
      BY <3>1, NameAssumption DEF TablesGrow
    <3>3. req[u].at = "getnextfilename"
      BY <2>1, <2>3 DEF Listed
    <3> QED
      BY <2>2, <3>1, <3>2, <3>3
  <2>4. u \in twice => u \in disturbed'
    BY <2>1, <2>2 DEF Listed
  <2> QED
    BY <1>1, <2>1, <2>3, <2>4 DEF Listed, Inodes
<1>2. ASSUME req[t].at # "getnextfilename", req'[t].seen = {},
             req'[t].at = "getnextfilename" => req'[t].op = "readdir"
      PROVE  Listed(t)'
  BY <1>2 DEF ListingInv, Listed
<1> QED
  BY <1>1, <1>2 DEF ListingInv

(* One turn of the loop of fuse_readdir.                                   *)
LEMMA NextNameListing ==
    ASSUME DaemonInv, ListingInv, NEW t \in Thread, getnextfilename(t)
    PROVE  ListingInv'
<1> DEFINE p == IF rootDir_ptr = NumInodes - 1 THEN -1 ELSE rootDir_ptr
           last == rootDir[p + 1].name = NoName
<1>a. /\ TypeOK /\ req \in [Thread -> Request_t] /\ req[t] \in Request_t
      /\ req[t].at = "getnextfilename" /\ rootDir' = rootDir
      /\ rootDir_ptr' = (IF last THEN p ELSE p + 1)
      /\ Reply(IF last THEN 0 ELSE p + 1, <<IF p = -1 THEN Unspec ELSE rootDir[p].name>>)
  BY DEF DaemonInv, FuseTypeOK, getnextfilename, InCall, sfs_getnextfilename
<1>b. p + 1 \in Inodes /\ p \in -1 .. NumInodes - 2
  BY <1>a, SizeAssumption DEF TypeOK, Inodes
<1>c. NamesFirst'
  BY <1>a DEF ListingInv, NamesFirst
<1>d. disturbed' = {u \in disturbed \cup {v \in Thread \ {t} : req[v].op = "readdir"} :
                        req'[u].at # "idle"}
  BY DEF getnextfilename
<1>e. \A u \in Thread \ {t} : req'[u] = req[u]
  BY <1>a DEF getnextfilename, Ends
<1>1. ASSUME NEW u \in Thread \ {t}, u \in twice' => u \in twice PROVE Listed(u)'
  <2>1. Listed(u)
    BY DEF ListingInv
  <2>2. req[u].at = "getnextfilename" => u \in disturbed'
    BY <1>d, <1>e, <2>1 DEF Listed
  <2> QED
    BY <1>1, <1>a, <1>e, <2>1, <2>2 DEF Listed, Inodes
<1>2. CASE Ends(t) /\ twice' = twice \ {t}
  <2>1. req'[t] = NoRequest
    BY <1>a, <1>2 DEF Ends
  <2>2. Listed(t)'
    BY <1>2, <2>1 DEF Listed, NoRequest
  <2> QED
    BY <1>1, <1>2, <1>c, <2>2 DEF ListingInv
<1>3. CASE /\ ret'.val # 0
           /\ req' = [req EXCEPT ![t].seen = @ \cup {ret'.data[1]}]
           /\ twice' = IF ret'.data[1] \in req[t].seen THEN twice \cup {t} ELSE twice
  <2>1. ~last /\ p # -1
    BY <1>a, <1>3 DEF Reply
  <2>2. /\ p \in Inodes /\ p = rootDir_ptr /\ rootDir_ptr' = p + 1 /\ ret'.data[1] = rootDir[p].name
    <3>1. p \in Inodes /\ p = rootDir_ptr
      <4>1. p = rootDir_ptr
        BY <2>1
      <4>2. p # -1 /\ p \in -1 .. NumInodes - 2
        BY <1>b, <2>1
      <4> HIDE DEF p
      <4>3. p \in Inodes
        BY <4>2, SizeAssumption DEF Inodes
      <4> QED
        BY <4>1, <4>3
    <3>2. rootDir_ptr' = p + 1
      BY <1>a, <2>1
    <3>3. ret'.data[1] = rootDir[p].name
      BY <1>a, <2>1 DEF Reply
    <3> QED
      BY <3>1, <3>2, <3>3
  <2>3. rootDir[p + 1].name # NoName
    BY <2>1
  <2> HIDE DEF p, last
  <2>4. rootDir[p].name \in Name
    <3>1. p < p + 1 /\ p + 1 \in Inodes
      BY <1>b, <2>2 DEF Inodes
    <3> QED
      BY <2>2, <2>3, <3>1 DEF ListingInv, NamesFirst
  <2>5. /\ req'[t].seen = req[t].seen \cup {rootDir[p].name}
        /\ req'[t].at = "getnextfilename" /\ req'[t].op = "readdir"
    <3>1. req'[t] = [req[t] EXCEPT !.seen = @ \cup {rootDir[p].name}]
      BY <1>3, <1>a, <2>2
    <3>2. req[t].op = "readdir"
      BY <1>a DEF ListingInv, Listed
    <3> QED
      BY <1>a, <3>1, <3>2 DEF Request_t
  <2>6. t \in disturbed' <=> t \in disturbed
    BY <1>d, <2>5
  <2>7. Listed(t)
    BY DEF ListingInv
  <2>8. t \notin disturbed => rootDir[p].name \notin req[t].seen
    <3> SUFFICES ASSUME t \notin disturbed, rootDir[p].name \in req[t].seen PROVE FALSE
      OBVIOUS
    <3>1. PICK s \in Inodes : s < p /\ rootDir[s].name = rootDir[p].name
      BY <2>2, <2>7 DEF Listed
    <3> QED
      BY <2>2, <2>4, <3>1, NameAssumption DEF ListingInv, NamesFirst
  <2>9. t \in twice' => t \in disturbed'
    BY <1>3, <2>2, <2>6, <2>7, <2>8 DEF Listed
  <2>10. ASSUME NEW n \in req'[t].seen
         PROVE  \E s \in Inodes : /\ rootDir'[s].name = n /\ n \in Name
                                  /\ t \notin disturbed' => s < rootDir_ptr'
    <3>1. CASE n = rootDir[p].name
      <4>1. p < rootDir_ptr'
        BY <2>2 DEF Inodes
      <4> QED
        BY <1>a, <2>2, <2>4, <3>1, <4>1
    <3>2. CASE n \in req[t].seen
      <4>1. PICK s \in Inodes : /\ rootDir[s].name = n /\ n \in Name
                                /\ t \notin disturbed => s < rootDir_ptr
        BY <2>7, <3>2 DEF Listed
      <4>2. s < rootDir_ptr => s < rootDir_ptr'
        BY <2>2 DEF Inodes
      <4> QED
        BY <1>a, <2>6, <4>1, <4>2
    <3> QED
      BY <2>5, <2>10, <3>1, <3>2
  <2>11. Listed(t)'
    BY <2>5, <2>9, <2>10 DEF Listed, Inodes
  <2>12. \A u \in Thread \ {t} : u \in twice' => u \in twice
    BY <1>3
  <2> QED
    BY <1>1, <1>c, <2>11, <2>12 DEF ListingInv
<1> QED
  BY <1>2, <1>3 DEF getnextfilename

(* A step that is not one of a listing leaves its thread without one.      *)
LEMMA StepLeavesListing ==
    ASSUME DaemonInv, ListingInv, NEW t \in Thread, Step(t), ~sem_wait(t), ~getnextfilename(t)
    PROVE  /\ req[t].at # "getnextfilename" /\ req'[t].seen = {}
           /\ req'[t].at # "getnextfilename" /\ twice' = twice
           /\ \A u \in disturbed \cap Thread : req'[u].at # "idle" => u \in disturbed'
<1>a. req \in [Thread -> Request_t] /\ req[t] \in Request_t /\ Shaped(req[t]) /\ Listed(t)
  BY DEF DaemonInv, FuseTypeOK, ListingInv
<1>e. Ends(t) => req'[t].seen = {} /\ req'[t].at = "idle"
  BY <1>a DEF Ends, NoRequest
<1>g. ASSUME NEW a, Goes(t, a) PROVE req'[t].seen = req[t].seen /\ req'[t].at = a
  BY <1>a, <1>g DEF Goes, Request_t
<1>s. req[t].at # "getnextfilename" => req[t].seen = {}
  BY <1>a DEF Listed
<1>d. ASSUME NEW i, Disturbs(t, i)
      PROVE  \A u \in disturbed \cap Thread : req'[u].at # "idle" => u \in disturbed'
  BY <1>d DEF Disturbs
<1>2. CASE remove(t)
  BY <1>2, <1>e, <1>g, <1>s DEF remove, history
<1>3. CASE fopen(t) /\ fopen_refused(t)
  BY <1>3, <1>e, <1>g, <1>s DEF fopen, fopen_illegal, fopen_refused, InCall, history
<1>4. CASE InCall(t, "fopen") /\ fopen_done(t)
  <2> DEFINE a == IF req[t].op \in Transfers THEN "fseek" ELSE "fclose"
  <2>1. req'[t].seen = req[t].seen /\ req'[t].at = a
    BY <1>4, <1>a DEF fopen_done, Request_t
  <2>2. a # "getnextfilename"
    OBVIOUS
  <2>3. req[t].at = "fopen" /\ twice' = twice /\ Disturbs(t, ret'.val)
    BY <1>4 DEF fopen_done, InCall
  <2>4. \A u \in disturbed \cap Thread : req'[u].at # "idle" => u \in disturbed'
    BY <1>d, <2>3
  <2> HIDE DEF a
  <2> QED
    BY <1>s, <2>1, <2>2, <2>3, <2>4
<1>5. CASE fseek(t)
  BY <1>5, <1>d, <1>g, <1>s DEF fseek, InCall
<1>6. CASE transfer(t)
  BY <1>6, <1>d, <1>e, <1>g, <1>s DEF transfer, InCall
<1>7. CASE fclose(t)
  BY <1>7, <1>d, <1>e DEF fclose, InCall
<1>8. CASE getfilesize(t)
  <2>1. CASE Ends(t)
    BY <1>8, <1>e, <2>1 DEF getfilesize, InCall, history
  <2>2. CASE \E i : req' = [req EXCEPT ![t].fd = i, ![t].at = "size"]
    <3>1. req'[t].seen = req[t].seen /\ req'[t].at = "size"
      BY <1>a, <2>2 DEF Request_t
    <3> QED
      BY <1>8, <1>s, <3>1 DEF getfilesize, InCall, history
  <2> QED
    BY <1>8, <2>1, <2>2 DEF getfilesize
<1>9. CASE read_size(t)
  BY <1>9, <1>e DEF read_size, history
<1> QED
  BY <1>2, <1>3, <1>4, <1>5, <1>6, <1>7, <1>8, <1>9 DEF Step, fopen, fopen_illegal

(* What such a step does to the directory.                                 *)
LEMMA StepNamesFirst ==
    ASSUME DaemonInv, FilesInv, NamesFirst, NEW t \in Thread, Step(t), ~getnextfilename(t)
    PROVE  NamesFirst' /\ rootDir_ptr' = rootDir_ptr
<1>a. req[t] \in Request_t /\ Shaped(req[t]) /\ TypeOK
  BY DEF DaemonInv, FuseTypeOK
<1>1. CASE UNCHANGED <<rootDir, rootDir_ptr>>
  BY <1>1 DEF NamesFirst
<1>2. CASE sfs_fopen(req[t].name)
  BY <1>2, <1>a, FopenNamesFirst DEF Request_t
<1>3. CASE transfer(t)
  BY <1>1, <1>3 DEF transfer, sfs_fread, sfs_fwrite, sfs_fwrite_done, sfs_fwrite_full,
                    sfs_fwrite_using, Refuse, tables
<1>4. CASE \/ sem_wait(t) \/ remove(t) \/ fseek(t) \/ fclose(t) \/ getfilesize(t)
           \/ read_size(t) \/ fopen_illegal(t)
  BY <1>1, <1>4 DEF sem_wait, remove, sfs_remove, fseek, sfs_fseek, fclose, sfs_fclose,
                    sfs_fclose_before, getfilesize, read_size, fopen_illegal, Refuse, vars, tables
<1> QED
  BY <1>2, <1>3, <1>4 DEF Step, fopen

LEMMA ListingStep ==
    DaemonInv /\ FilesInv /\ ListingInv /\ [FuseNext]_fvars => ListingInv'
<1> SUFFICES ASSUME DaemonInv, FilesInv, ListingInv, [FuseNext]_fvars PROVE ListingInv'
  OBVIOUS
<1>a. req \in [Thread -> Request_t] /\ NamesFirst
  BY DEF DaemonInv, FuseTypeOK, ListingInv
<1>1. ASSUME NEW t \in Thread, Step(t) PROVE ListingInv'
  <2>1. TablesGrow
    BY <1>1, StepFiles
  <2>2. \A u \in Thread \ {t} : req'[u] = req[u]
    BY <1>1, <1>a, StepRequest
  <2>3. CASE getnextfilename(t)
    BY <2>3, NextNameListing
  <2>4. CASE sem_wait(t) /\ ~getnextfilename(t)
    <3>1. NamesFirst' /\ rootDir_ptr' = rootDir_ptr
      BY <1>1, <1>a, <2>4, StepNamesFirst
    <3>2. req'[t] = req[t] /\ twice' = twice /\ disturbed' = disturbed
      BY <2>4 DEF sem_wait, history
    <3> QED
      BY <2>1, <2>2, <3>1, <3>2, ListingCarries
  <2>5. CASE ~sem_wait(t) /\ ~getnextfilename(t)
    <3>1. NamesFirst' /\ rootDir_ptr' = rootDir_ptr
      BY <1>1, <1>a, <2>5, StepNamesFirst
    <3>2. /\ req[t].at # "getnextfilename" /\ req'[t].seen = {}
          /\ req'[t].at # "getnextfilename" /\ twice' = twice
          /\ \A u \in disturbed \cap Thread : req'[u].at # "idle" => u \in disturbed'
      BY <1>1, <2>5, StepLeavesListing
    <3> QED
      BY <2>1, <2>2, <3>1, <3>2, ListingCarries
  <2> QED
    BY <2>3, <2>4, <2>5
<1>2. ASSUME NEW t \in Thread, Begin(t) PROVE ListingInv'
  <2>1. /\ UNCHANGED <<vars, history>> /\ req[t].at = "idle"
    BY <1>2 DEF Begin
  <2>2. TablesGrow /\ NamesFirst' /\ rootDir_ptr' = rootDir_ptr
    BY <1>a, <2>1, SameTablesGrow DEF vars, tables, NamesFirst
  <2>3. /\ \A u \in Thread \ {t} : req'[u] = req[u]
        /\ req'[t].seen = {}
        /\ req'[t].at = "getnextfilename" => req'[t].op = "readdir"
    <3>1. ASSUME NEW o, NEW n
          PROVE  /\ Request(o, n).seen = {}
                 /\ Request(o, n).op = o /\ Request(o, n).at = FirstCall(o)
      BY DEF Request, NoRequest
    <3>2. \A o \in Op : FirstCall(o) = "getnextfilename" => o = "readdir"
      BY DEF FirstCall, Op, Transfers
    <3>3. ASSUME NEW o \in Op, NEW n, req' = [req EXCEPT ![t] = Request(o, n)]
          PROVE  /\ \A u \in Thread \ {t} : req'[u] = req[u]
                 /\ req'[t].seen = {}
                 /\ req'[t].at = "getnextfilename" => req'[t].op = "readdir"
      BY <1>a, <3>1, <3>2, <3>3
    <3>4. CASE fuse_read(t)
      <4>1. PICK n \in Name, off \in SeekTo, length \in ReadLen :
              req' = [req EXCEPT ![t] = [Request("read", n) EXCEPT !.off = off, !.length = length]]
        BY <3>4 DEF fuse_read
      <4> QED
        BY <1>a, <4>1 DEF Request, NoRequest, FirstCall
    <3>5. CASE fuse_write(t)
      <4>1. PICK n \in Name, off \in SeekTo, buf \in Buf :
              req' = [req EXCEPT ![t] = [Request("write", n) EXCEPT !.off = off, !.buf = buf]]
        BY <3>5 DEF fuse_write
      <4> QED
        BY <1>a, <4>1 DEF Request, NoRequest, FirstCall
    <3>6. CASE \/ fuse_getattr(t) \/ fuse_readdir(t) \/ fuse_unlink(t) \/ fuse_truncate(t)
               \/ fuse_open(t) \/ fuse_create(t)
      <4>1. \E o \in Op, n \in AnyName : req' = [req EXCEPT ![t] = Request(o, n)]
        BY <3>6 DEF fuse_getattr, fuse_readdir, fuse_unlink, fuse_truncate, fuse_open,
                    fuse_create, Op, AnyName
      <4> QED
        BY <3>3, <4>1
    <3> QED
      BY <1>2, <3>4, <3>5, <3>6 DEF Begin
  <2> QED
    BY <2>1, <2>2, <2>3, ListingCarries DEF history
<1>3. CASE start \/ mksfs_wait \/ UNCHANGED fvars
  BY <1>3 DEF start, mksfs_wait, fvars, vars, tables, history, ListingInv, NamesFirst, Listed
<1>4. CASE mksfs_format \/ kill
  <2>1. \A s \in Inodes : rootDir'[s].name = NoName
    BY <1>4 DEF mksfs_format, mksfs_fresh, kill, EmptyDir, EmptySlot
  <2>2. \A t \in Thread : req'[t].seen = {} /\ req'[t].at = "idle"
    BY <1>4 DEF mksfs_format, kill, DaemonInv, NoRequest
  <2>3. \A t \in Thread : t \notin twice'
    BY <1>4 DEF mksfs_format, kill, DaemonInv, ListingInv, Listed, NoRequest
  <2> QED
    BY <2>1, <2>2, <2>3 DEF ListingInv, NamesFirst, Listed, Inodes
<1> QED
  BY <1>1, <1>2, <1>3, <1>4 DEF FuseNext

LEMMA ListingInit == FuseInit => ListingInv
BY DEF FuseInit, Init, ListingInv, NamesFirst, Listed, NoRequest, EmptyDir, EmptySlot

LEMMA ListingInvariant == FuseSafety => [](DaemonInv /\ FilesInv /\ ListingInv)
BY ListingInit, ListingStep, FilesInvariant, PTL DEF FuseSafety

(* A listing holds names of files only, and none twice while no other one  *)
(* shared its pointer, whatever is created and killed meanwhile.           *)
THEOREM ListingsCorrect == FuseSafety => []ListingsAreTrue
<1>1. ListingInv => ListingsAreTrue
  BY DEF ListingInv, Listed, ListingsAreTrue, SlotsNamed
<1> QED
  BY <1>1, ListingInvariant, PTL

-----------------------------------------------------------------------------
(* What transfers find.                                                    *)

(* A thread whose file no other one has used since finds it open, and its  *)
(* position where it has put it.                                           *)
Ready(t) ==
    t \notin disturbed =>
        /\ req[t].at \in {"fseek", "transfer"} => inode_table[req[t].fd].mode = Opened
        /\ req[t].at = "transfer" => fd_table[req[t].fd] = req[t].off

PlacesInv == \A t \in Thread : Ready(t)

(* What carries that over a step of thread t that uses inode i, or none.   *)
LEMMA PlacesCarry ==
    ASSUME DaemonInv, PlacesInv, NEW t \in Thread, NEW i \in Inodes \cup {-1},
           \A u \in Thread \ {t} : req'[u] = req[u],
           \A j \in Inodes \ {i} : /\ inode_table'[j].mode = inode_table[j].mode
                                   /\ fd_table'[j] = fd_table[j],
           \A u \in Thread \ {t} : req[u].at # "idle" /\ u \notin disturbed' =>
               u \notin disturbed /\ (i = -1 \/ req[u].fd # i),
           Ready(t)'
    PROVE  PlacesInv'
<1> SUFFICES ASSUME NEW u \in Thread, u # t, u \notin disturbed',
                    req[u].at \in {"fseek", "transfer"}
             PROVE  /\ inode_table'[req[u].fd].mode = Opened
                    /\ req[u].at = "transfer" => fd_table'[req[u].fd] = req[u].off
  BY DEF PlacesInv, Ready
<1>1. u \notin disturbed /\ (i = -1 \/ req[u].fd # i)
  OBVIOUS
<1>2. req[u].fd \in Inodes
  BY DEF DaemonInv, Shaped, FuseTypeOK, Request_t
<1>3. req[u].fd \in Inodes \ {i}
  BY <1>1, <1>2 DEF Inodes
<1> QED
  BY <1>1, <1>3 DEF PlacesInv, Ready

(* The position and the mode of the file that sfs_fopen opens.             *)
LEMMA FopenPlaces ==
    ASSUME DaemonInv, FilesInv, NEW n \in AnyName, sfs_fopen(n), ret'.val # -1
    PROVE  /\ inode_table'[ret'.val].mode = Opened
           /\ \A j \in Inodes \ {ret'.val} : fd_table'[j] = fd_table[j]
<1>a. TypeOK /\ NumsWhole
  BY DEF DaemonInv, FuseTypeOK
<1>1. ~Refused(n)
  BY DEF Refused, Refuse, Reply
<1>2. ASSUME NEW s \in Inodes, NEW i \in Inodes, OpenedOld(n, s, i)
      PROVE  /\ inode_table'[ret'.val].mode = Opened
             /\ \A j \in Inodes \ {ret'.val} : fd_table'[j] = fd_table[j]
  BY <1>a, <1>2 DEF OpenedOld, OpenOld, Reply, TypeOK, inode_t
<1>3. ASSUME NEW s \in Inodes, NEW i \in Inodes, OpenedNew(n, s, i)
      PROVE  /\ inode_table'[ret'.val].mode = Opened
             /\ \A j \in Inodes \ {ret'.val} : fd_table'[j] = fd_table[j]
  <2>1. /\ ret'.val = i /\ fd_table' = fd_table
        /\ inode_table' = [inode_table EXCEPT ![i].size = 0, ![i].mode = Opened]
    BY <1>3 DEF OpenedNew, OpenNew, Reply
  <2>2. inode_table'[i].mode = Opened
    BY <1>a, <2>1 DEF TypeOK, inode_t
  <2> QED
    BY <2>1, <2>2
<1> QED
  BY <1>a, <1>1, <1>2, <1>3, OpenWhole

(* A transfer moves the position of its file alone.                        *)
LEMMA TransferPlaces ==
    ASSUME DaemonInv, NEW t \in Thread, transfer(t)
    PROVE  \A j \in Inodes \ {req[t].fd} : fd_table'[j] = fd_table[j]
<1>a. TypeOK
  BY DEF DaemonInv, FuseTypeOK
<1>1. ASSUME NEW f, NEW e, fd_table' = [fd_table EXCEPT ![f] = e]
      PROVE  \A j \in Inodes \ {f} : fd_table'[j] = fd_table[j]
  BY <1>a, <1>1 DEF TypeOK
<1>2. fd_table' = fd_table \/ \E e : fd_table' = [fd_table EXCEPT ![req[t].fd] = e]
  <2>1. CASE sfs_fread(req[t].fd, req[t].length)
    BY <2>1 DEF sfs_fread, Refuse, tables
  <2>2. CASE sfs_fwrite(req[t].fd, req[t].buf)
    BY <2>2 DEF sfs_fwrite, sfs_fwrite_done, sfs_fwrite_full, sfs_fwrite_using, Refuse, tables
  <2> QED
    BY <2>1, <2>2 DEF transfer
<1> QED
  BY <1>1, <1>2

LEMMA StepPlaces ==
    ASSUME DaemonInv, FilesInv, ListingInv, PlacesInv, NEW t \in Thread, Step(t)
    PROVE  PlacesInv'
<1>a. /\ req \in [Thread -> Request_t] /\ req[t] \in Request_t /\ Shaped(req[t])
      /\ TypeOK /\ NumsWhole /\ Ready(t)
  BY DEF DaemonInv, FuseTypeOK, PlacesInv
<1>b. \A u \in Thread \ {t} : req'[u] = req[u]
  BY <1>a, StepRequest
<1>e. Ends(t) => req'[t].at = "idle"
  BY <1>a DEF Ends, NoRequest
<1>g. ASSUME NEW a, Goes(t, a)
      PROVE  req'[t].at = a /\ req'[t].fd = req[t].fd /\ req'[t].off = req[t].off
  BY <1>a, <1>g DEF Goes, Request_t
<1>d. ASSUME NEW i, Disturbs(t, i)
      PROVE  /\ \A u \in Thread \ {t} : req[u].at # "idle" /\ u \notin disturbed' =>
                    u \notin disturbed /\ req[u].fd # i
             /\ t \in disturbed /\ req'[t].at # "idle" => t \in disturbed'
  BY <1>b, <1>d DEF Disturbs
<1>s. ASSUME UNCHANGED <<inode_table, fd_table>>,
             \A u \in Thread \ {t} : req[u].at # "idle" /\ u \notin disturbed' => u \notin disturbed,
             Ready(t)'
      PROVE  PlacesInv'
  BY <1>b, <1>s, PlacesCarry
<1>1. CASE sem_wait(t)
  <2>1. UNCHANGED <<inode_table, fd_table, req, disturbed>>
    BY <1>1 DEF sem_wait, vars, tables, history
  <2> QED
    BY <1>a, <1>s, <2>1 DEF Ready
<1>2. CASE remove(t) \/ getfilesize(t) \/ read_size(t)
  <2>1. UNCHANGED <<inode_table, fd_table, disturbed>>
    BY <1>2 DEF remove, sfs_remove, getfilesize, read_size, vars, tables, history
  <2>2. req'[t].at \in {"idle", "fopen", "size"}
    <3>1. ASSUME NEW i, req' = [req EXCEPT ![t].fd = i, ![t].at = "size"]
          PROVE  req'[t].at = "size"
      BY <1>a, <3>1 DEF Request_t
    <3> QED
      BY <1>2, <1>e, <1>g, <3>1 DEF remove, getfilesize, read_size
  <2> QED
    BY <1>s, <2>1, <2>2 DEF Ready
<1>3. CASE fopen(t) /\ fopen_refused(t)
  <2>1. req[t].name \in AnyName
    BY <1>a DEF Request_t
  <2>2. UNCHANGED <<inode_table, fd_table, disturbed>>
    BY <1>3, <1>a, <2>1, FopenRefuses
    DEF fopen, fopen_illegal, fopen_refused, Refuse, tables, history
  <2>3. req'[t].at \in {"idle", "fclose"}
    BY <1>3, <1>e, <1>g DEF fopen_refused
  <2> QED
    BY <1>s, <2>2, <2>3 DEF Ready
<1>4. CASE sfs_fopen(req[t].name) /\ fopen_done(t)
  <2> DEFINE i == ret'.val
             a == IF req[t].op \in Transfers THEN "fseek" ELSE "fclose"
  <2>1. req[t].name \in AnyName
    BY <1>a DEF Request_t
  <2>2. /\ i \in Inodes
        /\ \A j \in Inodes \ {i} : /\ inode_table'[j].mode = inode_table[j].mode
                                   /\ fd_table'[j] = fd_table[j]
        /\ inode_table'[i].mode = Opened
    BY <1>4, <2>1, FopenOpens, FopenPlaces DEF fopen_done
  <2>3. req' = [req EXCEPT ![t].fd = i, ![t].at = a] /\ Disturbs(t, i)
    BY <1>4 DEF fopen_done
  <2>4. a # "transfer"
    OBVIOUS
  <2> HIDE DEF i, a
  <2>5. req'[t].fd = i /\ req'[t].at # "transfer"
    BY <1>a, <2>3, <2>4 DEF Request_t
  <2>6. Ready(t)'
    BY <2>2, <2>5 DEF Ready
  <2>7. \A u \in Thread \ {t} : req[u].at # "idle" /\ u \notin disturbed' =>
            u \notin disturbed /\ req[u].fd # i
    BY <1>d, <2>3
  <2> QED
    BY <1>b, <2>2, <2>6, <2>7, PlacesCarry
<1>5. CASE fseek(t)
  <2> DEFINE f == req[t].fd
  <2>1. /\ req[t].at = "fseek" /\ inode_table' = inode_table /\ Disturbs(t, f)
        /\ fd_table' = [fd_table EXCEPT ![f] = req[t].off] /\ Goes(t, "transfer")
    BY <1>5 DEF fseek, InCall, sfs_fseek
  <2>2. f \in Inodes
    BY <1>a, <2>1 DEF Shaped, Request_t
  <2>3. /\ fd_table'[f] = req[t].off
        /\ \A j \in Inodes \ {f} : fd_table'[j] = fd_table[j]
    BY <1>a, <2>1, <2>2 DEF TypeOK
  <2>4. Ready(t)'
    BY <1>a, <1>d, <1>g, <2>1, <2>3 DEF Ready
  <2> HIDE DEF f
  <2> QED
    BY <1>b, <1>d, <2>1, <2>2, <2>3, <2>4, PlacesCarry
<1>6. CASE transfer(t)
  <2>1. /\ \A j \in Inodes \ {req[t].fd} : /\ inode_table'[j].mode = inode_table[j].mode
                                           /\ fd_table'[j] = fd_table[j]
        /\ req[t].fd \in Inodes \cup {-1}
    BY <1>a, <1>6, TransferGrows, TransferPlaces DEF Request_t
  <2>2. Disturbs(t, req[t].fd)
    BY <1>6 DEF transfer
  <2>3. req'[t].at \in {"idle", "fclose"}
    BY <1>6, <1>e, <1>g DEF transfer
  <2>4. Ready(t)'
    BY <2>3 DEF Ready
  <2> QED
    BY <1>b, <1>d, <2>1, <2>2, <2>4, PlacesCarry
<1>7. CASE fclose(t)
  <2>1. Ready(t)'
    BY <1>7, <1>e DEF fclose, Ready
  <2>2. CASE req[t].fd # -1 /\ sfs_fclose(req[t].fd) /\ Disturbs(t, req[t].fd)
    <3> DEFINE f == req[t].fd
    <3>1. f \in Inodes
      BY <1>a, <2>2 DEF Request_t
    <3>2. /\ fd_table' = fd_table
          /\ inode_table' = inode_table \/ inode_table' = [inode_table EXCEPT ![f].mode = Closed]
      BY <2>2 DEF sfs_fclose, Refuse, tables
    <3> HIDE DEF f
    <3>3. \A j \in Inodes \ {f} : inode_table'[j].mode = inode_table[j].mode
      BY <1>a, <3>1, <3>2 DEF TypeOK
    <3>4. Disturbs(t, f)
      BY <2>2 DEF f
    <3> QED
      BY <1>b, <1>d, <2>1, <3>1, <3>2, <3>3, <3>4, PlacesCarry
  <2>3. CASE sfs_fclose_before /\ disturbed' = disturbed
    <3>1. UNCHANGED <<inode_table, fd_table>>
      BY <2>3 DEF sfs_fclose_before, Refuse, tables
    <3> QED
      BY <1>s, <2>1, <2>3, <3>1
  <2> QED
    BY <1>7, <2>2, <2>3 DEF fclose
<1>8. CASE getnextfilename(t)
  <2>1. UNCHANGED <<inode_table, fd_table>>
    BY <1>8 DEF getnextfilename, sfs_getnextfilename
  <2>2. \A u \in Thread \ {t} : req[u].at # "idle" /\ u \notin disturbed' => u \notin disturbed
    BY <1>8, <1>b DEF getnextfilename
  <2>3. req'[t].at \in {"idle", "getnextfilename"}
    <3>1. CASE req' = [req EXCEPT ![t].seen = @ \cup {ret'.data[1]}]
      BY <1>8, <1>a, <3>1 DEF getnextfilename, InCall, Request_t
    <3> QED
      BY <1>8, <1>e, <3>1 DEF getnextfilename
  <2>4. Ready(t)'
    BY <2>3 DEF Ready
  <2> QED
    BY <1>s, <2>1, <2>2, <2>4
<1> QED
  BY <1>1, <1>2, <1>3, <1>4, <1>5, <1>6, <1>7, <1>8 DEF Step, fopen, fopen_illegal

LEMMA PlacesStep ==
    DaemonInv /\ FilesInv /\ ListingInv /\ PlacesInv /\ [FuseNext]_fvars => PlacesInv'
<1> SUFFICES ASSUME DaemonInv, FilesInv, ListingInv, PlacesInv, [FuseNext]_fvars
             PROVE  PlacesInv'
  OBVIOUS
<1>1. CASE \E t \in Thread : Step(t)
  BY <1>1, StepPlaces
<1>2. CASE \E t \in Thread : Begin(t)
  <2> PICK t \in Thread : Begin(t)
    BY <1>2
  <2>1. UNCHANGED <<inode_table, fd_table, disturbed>>
    BY DEF Begin, vars, tables, history
  <2>2. PICK r \in Request_t : r.fd = -1 /\ Shaped(r) /\ req' = [req EXCEPT ![t] = r]
    BY BeginRequest
  <2>3. req'[t] = r /\ \A u \in Thread \ {t} : req'[u] = req[u]
    BY <2>2 DEF DaemonInv, FuseTypeOK
  <2>4. Ready(t)'
    BY <2>2, <2>3 DEF Ready, Shaped
  <2> QED
    BY <2>1, <2>3, <2>4, PlacesCarry
<1>3. CASE start \/ mksfs_wait \/ UNCHANGED fvars
  BY <1>3 DEF start, mksfs_wait, fvars, vars, tables, history, PlacesInv, Ready
<1>4. CASE mksfs_format \/ kill
  <2>1. \A t \in Thread : req'[t].at = "idle"
    BY <1>4 DEF mksfs_format, kill, DaemonInv, NoRequest
  <2> QED
    BY <2>1 DEF PlacesInv, Ready
<1> QED
  BY <1>1, <1>2, <1>3, <1>4 DEF FuseNext

(* Slot s leads to inode s, and no name stands twice.                      *)
LEMMA ListingDir == FilesInv /\ ListingInv => DirInv
BY DEF FilesInv, ListingInv, NamesFirst, DirInv, OneFilePerInode, Inodes

LEMMA ListingDirNext == FilesInv' /\ ListingInv' => DirInv'
<1>1. (FilesInv /\ ListingInv => DirInv)'
  BY ListingDir, PTL
<1> QED
  BY <1>1

(* The store of FileStore_proofs is what a daemon serves, until a refused  *)
(* create or truncate has closed file -1.                                  *)
Served == life = "serving" => misclosed \/ StoreInv

LEMMA FreshStore ==
    ASSUME TypeOK', OneOwner', DirInv', up', known', intact', MAX_BLOCK' = NUM_BLOCKS,
           inode_table' = [i \in Inodes |-> EmptyInode]
    PROVE  StoreInv'
BY EmptyTidy, StoreNext

LEMMA ServedStep ==
    ASSUME Direct
    PROVE  /\ DaemonInv /\ OneOwner /\ FilesInv /\ ListingInv /\ Served
           /\ [FuseNext]_fvars
           => Served'
<1> SUFFICES ASSUME DaemonInv, OneOwner, FilesInv, ListingInv, Served, [FuseNext]_fvars,
                    ~misclosed', life' = "serving"
             PROVE  StoreInv'
  BY DEF Served
<1>a. TypeOK' /\ OneOwner' /\ DirInv'
  BY DaemonStep, FilesStep, ListingStep, ListingDirNext DEF DaemonInv, FuseTypeOK
<1>1. ASSUME NEW t \in Thread, Step(t) PROVE StoreInv'
  <2>1. ~misclosed
    BY <1>1 DEF Step, sem_wait, remove, fopen, fopen_illegal, fopen_refused, fopen_done, fseek,
                transfer, fclose, getfilesize, read_size, getnextfilename, history
  <2>2. life = "serving"
    BY <1>1, StepHolders
  <2>3. StoreInv
    BY <2>1, <2>2 DEF Served
  <2>4. CASE Call
    BY <1>a, <2>3, <2>4, CallIsNext, StoreKeeps
  <2>5. CASE read_size(t)
    BY <1>a, <2>3, <2>5, SameTidy, StoreNext DEF read_size, tables, blocks, StoreInv
  <2> QED
    BY <1>1, <2>4, <2>5, StepIsCall
<1>2. CASE (\E t \in Thread : Begin(t)) \/ UNCHANGED fvars
  <2>1. UNCHANGED <<vars, history>> /\ life = "serving"
    BY <1>2 DEF Begin, fvars, daemon
  <2>2. StoreInv
    BY <2>1 DEF Served, history
  <2> QED
    BY <1>a, <2>1, <2>2, StoreKeeps
<1>3. CASE mksfs_format
  BY <1>3, <1>a, FreshStore DEF mksfs_format, mksfs_fresh
<1>4. CASE start \/ mksfs_wait \/ kill
  BY <1>4 DEF start, mksfs_wait, kill
<1> QED
  BY <1>1, <1>2, <1>3, <1>4 DEF FuseNext

(* A transfer that is ready is answered as it should be.                   *)
LEMMA ReadyIsAnswered ==
    ASSUME Direct, DaemonInv, StoreInv, StoreInv', NEW t \in Thread, Ready(t),
           t \notin disturbed, transfer(t), NEW i \in Inodes, i = req[t].fd
    PROVE  Answered(t, i)
<1> DEFINE off == req[t].off
<1>a. /\ off \in Nat /\ Shaped(req[t])
      /\ inode_table[i].mode = Opened /\ fd_table[i] = off
  BY DEF transfer, InCall, DaemonInv, FuseTypeOK, Shaped, Request_t, Ready
<1>b. Contents[i] = Content(i) /\ Contents'[i] = Content(i)'
  BY <1>a DEF Contents, Inodes
<1>1. CASE req[t].op = "read" /\ sfs_fread(i, req[t].length)
  <2> DEFINE n == req[t].length
  <2>1. n \in ReadLen /\ n \in Nat
    BY <1>a, <1>1, ClientAssumption DEF Shaped
  <2>2. Len(Content(i)) = inode_table[i].size /\ inode_table[i].size \in Nat
    BY <1>a, <1>b, View
  <2> HIDE DEF off, n
  <2>3. ASSUME ReadBrings(i, n) PROVE ReadAnswered(i, off, n)
    <3>1. off + n <= Len(Content(i))
      BY <1>a, <2>2, <2>3 DEF ReadBrings
    <3>2. ret'.data = [k \in 1 .. n |-> Content(i)[off + k]]
      BY <1>a, <1>b, <2>3 DEF ReadBrings, Reply
    <3> QED
      BY <1>a, <2>1, <2>2, <3>1, <3>2 DEF ReadAnswered, Span
  <2>4. ASSUME Refuse, inode_table[i].mode = Closed \/ inode_table[i].size < fd_table[i] + n
        PROVE  ReadAnswered(i, off, n)
    <3>1. off + n > Len(Content(i))
      BY <1>a, <2>1, <2>2, <2>4 DEF Opened, Closed
    <3>2. ret'.val = -1
      BY <2>4 DEF Refuse, Reply
    <3> QED
      BY <3>1, <3>2 DEF ReadAnswered
  <2>5. ReadAnswered(i, off, n)
    <3>1. sfs_fread(i, n)
      BY <1>1 DEF n
    <3> QED
      BY <1>a, <2>1, <2>3, <2>4, <3>1, ReadAnswer
  <2> QED
    BY <1>1, <2>5 DEF Answered, off, n
<1>2. CASE req[t].op = "write" /\ sfs_fwrite(i, req[t].buf)
  <2> DEFINE buf == req[t].buf
  <2>1. buf \in Buf /\ buf \in Seq(Int) /\ Len(buf) \in Nat
    BY <1>a, <1>2, ClientAssumption DEF Shaped
  <2> HIDE DEF off, buf
  <2>2. sfs_fwrite(i, buf)
    BY <1>2 DEF buf
  <2>3. ASSUME ret'.val = -1 PROVE WriteAnswered(i, off, buf)
    <3>1. /\ Contents'[i] = Contents[i]
          /\ \/ inode_table[i].mode = Closed
             \/ fd_table[i] + Len(buf) > MAX_FILE
             \/ free_bit_map' = {}
      BY <1>a, <2>1, <2>2, <2>3, WriteRefused
    <3>2. Content(i)' = Content(i)
      BY <1>b, <3>1
    <3>3. inode_table[i].mode # Closed
      BY <1>a DEF Opened, Closed
    <3>4. off + Len(buf) > MAX_FILE \/ free_bit_map' = {}
      BY <1>a, <3>1, <3>3
    <3> QED
      BY <2>3, <3>2, <3>4 DEF WriteAnswered
  <2>4. ASSUME ret'.val # -1 PROVE WriteAnswered(i, off, buf)
    <3>1. FS!WriteDone(i, buf)
      <4>1. FS!Refuse => ret'.val = -1
        BY DEF FS!Refuse, FS!Reply
      <4>2. FS!Write(i, buf)
        BY <1>a, <2>1, <2>2, <2>4, WriteStep
      <4> QED
        BY <2>4, <4>1, <4>2 DEF FS!Write
    <3> DEFINE e == fd_table[i] + Len(buf)
    <3>2. /\ ret'.val = Len(buf)
          /\ Len(Contents'[i]) = IF e > Len(Contents[i]) THEN e ELSE Len(Contents[i])
          /\ \A k \in fd_table[i] + 1 .. e : Contents'[i][k] = buf[k - fd_table[i]]
      BY <3>1 DEF FS!WriteDone, FS!Reply, Contents
    <3>3. off + Len(buf) <= Len(Content(i)')
      <4>1. Len(Contents[i]) \in Nat
        BY <1>a, View
      <4> QED
        BY <1>a, <1>b, <2>1, <3>2, <4>1
    <3>4. Span(Content(i)', off, Len(buf)) = buf
      <4>1. ASSUME NEW k \in 1 .. Len(buf) PROVE Content(i)'[off + k] = buf[k]
        <5>1. off + k \in fd_table[i] + 1 .. e /\ (off + k) - fd_table[i] = k
          BY <1>a, <2>1
        <5>2. Contents'[i][off + k] = buf[(off + k) - fd_table[i]]
          BY <3>2, <5>1
        <5>3. Contents'[i][off + k] = buf[k]
          BY <5>1, <5>2
        <5> QED
          BY <1>b, <5>3
      <4>2. buf = [k \in 1 .. Len(buf) |-> buf[k]]
        BY <2>1
      <4> QED
        BY <4>1, <4>2 DEF Span
    <3> QED
      BY <3>2, <3>3, <3>4 DEF WriteAnswered
  <2>5. WriteAnswered(i, off, buf)
    BY <2>3, <2>4
  <2> QED
    BY <1>2, <2>5 DEF Answered, off, buf
<1> QED
  BY <1>1, <1>2 DEF transfer

(* While clients keep to the direct pointers, a transfer that no other     *)
(* thread's call on the same file came between is answered as if it were   *)
(* alone: a read brings the words at its offset, a write puts its words    *)
(* there, and only what does not fit the file or the disk is refused.      *)
THEOREM TransfersAnswered ==
    ASSUME Direct PROVE FuseSafety => UndisturbedTransfers
<1> DEFINE I == DaemonInv /\ OneOwner /\ FilesInv /\ ListingInv /\ PlacesInv /\ Served
           A == \A t \in Thread, i \in Inodes :
                   transfer(t) /\ req[t].fd = i /\ t \notin disturbed /\ ~misclosed
                       => Answered(t, i)
<1>1. FuseInit => I
  <2>1. FuseInit => PlacesInv /\ Served
    BY DEF FuseInit, PlacesInv, Ready, NoRequest, Served
  <2> QED
    BY <2>1, DaemonInit, FilesInit, ListingInit
<1>2. I /\ [FuseNext]_fvars => I'
  BY DaemonStep, FilesStep, ListingStep, PlacesStep, ServedStep
<1>3. I /\ I' /\ [FuseNext]_fvars => [A]_fvars
  <2> SUFFICES ASSUME I, I', NEW t \in Thread, NEW i \in Inodes,
                      transfer(t), req[t].fd = i, t \notin disturbed, ~misclosed
               PROVE  Answered(t, i)
    OBVIOUS
  <2>1. ~misclosed' /\ life = "serving" /\ life' = "serving"
    BY DEF transfer, InCall
  <2>2. StoreInv /\ StoreInv' /\ Ready(t)
    BY <2>1 DEF Served, PlacesInv
  <2> QED
    BY <2>2, ReadyIsAnswered
<1> QED
  BY <1>1, <1>2, <1>3, PTL DEF FuseSafety, UndisturbedTransfers
===============================================================================
