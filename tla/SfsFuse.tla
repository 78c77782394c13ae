------------------------------- MODULE SfsFuse -------------------------------
(***************************************************************************)
(* The daemon of src/file_system/fuse_wrappers.c: threads that serve the   *)
(* requests of the kernel by calls of sfs_api.c (module SFS), and the life *)
(* of the process around the named semaphore disk_access, which outlives   *)
(* it.  A call that takes the semaphore is two steps: sem_wait, and the    *)
(* rest of the call with its sem_post.                                     *)
(***************************************************************************)
EXTENDS SFS

CONSTANTS
    Thread,         \* the threads of the daemon
    Nobody,         \* no thread
    JunkBehind,     \* may what lies behind a name in memory make it refused?
    MaxBlockAhead,  \* does MAX_BLOCK lie where inode_table[-1].mode would?
    MaxRequest      \* bound: how many requests the kernel makes

ASSUME DaemonAssumption ==
    /\ Nobody \notin Thread
    /\ JunkBehind \in BOOLEAN /\ MaxBlockAhead \in BOOLEAN
    /\ MaxRequest \in Nat

VARIABLES
    life,       \* "down", "mount" (before sem_wait in mksfs), "format", "serving"
    sem,        \* the value of the semaphore disk_access
    inside,     \* the thread between sem_wait and sem_post
    req,        \* thread -> the request it serves
    asked,      \* how many requests the kernel has made
    disturbed,  \* threads whose file, or whose listing, another one has used
    twice,      \* threads whose listing was given a name a second time
    leftOpen,   \* inodes a refused transfer has left as they were
    misclosed,  \* a refused create or truncate has closed file -1
    lost        \* a process was killed between sem_wait and sem_post

daemon  == <<life, sem, inside, lost>>
history == <<disturbed, twice, leftOpen, misclosed>>
fvars   == <<vars, daemon, req, asked, history>>

-----------------------------------------------------------------------------
(* Requests.                                                               *)

Transfers == {"read", "write"}

Op == Transfers \cup {"getattr", "readdir", "unlink", "truncate", "open", "create"}

(* The call a request begins with.                                         *)
FirstCall(op) ==
    CASE op = "getattr" -> "getfilesize"
      [] op = "readdir" -> "getnextfilename"
      [] op \in {"unlink", "truncate"} -> "remove"
      [] OTHER -> "fopen"

NoRequest == [op |-> "none", name |-> NoName, off |-> 0, length |-> 0,
              buf |-> <<>>, fd |-> -1, seen |-> {}, at |-> "idle"]

Request(o, n) == [NoRequest EXCEPT !.op = o, !.name = n, !.at = FirstCall(o)]

(* What the kernel may ask for: each of the functions of xmp_oper that     *)
(* calls the file system.                                                  *)
fuse_getattr(t)  == \E n \in Name \cup {JunkName} :
                        req' = [req EXCEPT ![t] = Request("getattr", n)]
fuse_readdir(t)  == req' = [req EXCEPT ![t] = Request("readdir", NoName)]
fuse_unlink(t)   == \E n \in Name : req' = [req EXCEPT ![t] = Request("unlink", n)]
fuse_truncate(t) == \E n \in Name : req' = [req EXCEPT ![t] = Request("truncate", n)]
fuse_open(t)     == \E n \in Name : req' = [req EXCEPT ![t] = Request("open", n)]
fuse_create(t)   == \E n \in Name \cup {JunkName} :
                        req' = [req EXCEPT ![t] = Request("create", n)]
fuse_read(t)     == \E n \in Name, off \in SeekTo, length \in ReadLen :
    req' = [req EXCEPT ![t] = [Request("read", n) EXCEPT !.off = off, !.length = length]]
fuse_write(t)    == \E n \in Name, off \in SeekTo, buf \in Buf :
    req' = [req EXCEPT ![t] = [Request("write", n) EXCEPT !.off = off, !.buf = buf]]

Begin(t) ==
    /\ life = "serving" /\ req[t].at = "idle" /\ asked < MaxRequest
    /\ asked' = asked + 1
    /\ \/ fuse_getattr(t) \/ fuse_readdir(t) \/ fuse_unlink(t) \/ fuse_truncate(t)
       \/ fuse_open(t) \/ fuse_create(t) \/ fuse_read(t) \/ fuse_write(t)
    /\ UNCHANGED <<vars, daemon, history>>

Goes(t, a) == req' = [req EXCEPT ![t].at = a]
Ends(t)    == req' = [req EXCEPT ![t] = NoRequest]

-----------------------------------------------------------------------------
(* The semaphore.  sfs_remove does not take it, and sfs_fopen looks at the *)
(* name before it does.                                                    *)

TakesSem(t) ==
    \/ req[t].at \in {"getfilesize", "getnextfilename", "fseek", "transfer", "fclose"}
    \/ req[t].at = "fopen" /\ req[t].name \in Name

sem_wait(t) ==
    /\ life = "serving" /\ TakesSem(t) /\ inside # t
    /\ sem = 1
    /\ sem' = 0
    /\ inside' = t
    /\ UNCHANGED <<vars, life, lost, req, asked, history>>

(* The rest of a call, up to its sem_post.                                 *)
InCall(t, call) ==
    /\ life = "serving" /\ req[t].at = call /\ inside = t
    /\ sem' = 1
    /\ inside' = Nobody
    /\ UNCHANGED <<life, lost, asked>>

(* A call on inode i disturbs the other threads that have the file open.   *)
Disturbs(t, i) ==
    disturbed' = {u \in disturbed \cup {v \in Thread \ {t} : req[v].fd = i} :
                      req'[u].at # "idle"}

-----------------------------------------------------------------------------
(* The calls of the wrappers.                                              *)

(* sfs_remove has no return statement on its way; what arrives is not -1   *)
(* or is, and then the wrapper gives up.                                   *)
remove(t) ==
    /\ life = "serving" /\ req[t].at = "remove"
    /\ sfs_remove(req[t].name)
    /\ \/ Ends(t)
       \/ req[t].op = "truncate" /\ Goes(t, "fopen")
    /\ UNCHANGED <<daemon, asked, history>>

(* fuse_create and fuse_truncate do not look for the -1 of sfs_fopen.      *)
LooksAtFopen(t) == req[t].op \notin {"create", "truncate"}

fopen_refused(t) ==
    /\ ret'.val = -1
    /\ IF LooksAtFopen(t) THEN Ends(t) ELSE Goes(t, "fclose")
    /\ UNCHANGED history

(* Mutants: the position is left where sfs_fopen puts it; fuse_open keeps  *)
(* the file open.                                                          *)
fopen_done_NoSeek(t) ==
    /\ ret'.val # -1
    /\ req' = [req EXCEPT ![t].fd = ret'.val,
                          ![t].at = IF req[t].op \in Transfers THEN "transfer" ELSE "fclose"]
    /\ Disturbs(t, ret'.val)
    /\ UNCHANGED <<twice, leftOpen, misclosed>>

fopen_done_KeepsOpen(t) ==
    /\ ret'.val # -1
    /\ req' = [req EXCEPT ![t] =
                  IF @.op = "open" THEN NoRequest
                  ELSE [@ EXCEPT !.fd = ret'.val,
                                 !.at = IF req[t].op \in Transfers THEN "fseek" ELSE "fclose"]]
    /\ Disturbs(t, ret'.val)
    /\ UNCHANGED <<twice, leftOpen, misclosed>>

fopen_done(t) ==
    /\ ret'.val # -1
    /\ req' = [req EXCEPT ![t].fd = ret'.val,
                          ![t].at = IF req[t].op \in Transfers THEN "fseek" ELSE "fclose"]
    /\ Disturbs(t, ret'.val)
    /\ UNCHANGED <<twice, leftOpen, misclosed>>

(* The check of the name comes before sem_wait; it reads past the end of   *)
(* the name, where the wrapper's buffer holds whatever was on the stack.   *)
(* (Name: the names it can accept; module Helpers has the check itself.)   *)
fopen_illegal(t) ==
    /\ life = "serving" /\ req[t].at = "fopen" /\ inside # t
    /\ req[t].name \notin Name \/ JunkBehind
    /\ Runs /\ UNCHANGED up
    /\ Refuse
    /\ fopen_refused(t)
    /\ UNCHANGED <<daemon, asked>>

fopen(t) ==
    \/ fopen_illegal(t)
    \/ /\ InCall(t, "fopen")
       /\ sfs_fopen(req[t].name)
       /\ fopen_refused(t) \/ fopen_done(t)

fseek(t) ==
    /\ InCall(t, "fseek")
    /\ sfs_fseek(req[t].fd, req[t].off)
    /\ Goes(t, "transfer")
    /\ Disturbs(t, req[t].fd)
    /\ UNCHANGED <<twice, leftOpen, misclosed>>

(* A transfer that is refused returns past the call of sfs_fclose.         *)
transfer(t) ==
    /\ InCall(t, "transfer")
    /\ \/ req[t].op = "read" /\ sfs_fread(req[t].fd, req[t].length)
       \/ req[t].op = "write" /\ sfs_fwrite(req[t].fd, req[t].buf)
    /\ \/ ret'.val = -1 /\ Ends(t) /\ leftOpen' = leftOpen \cup {req[t].fd}
       \/ ret'.val # -1 /\ Goes(t, "fclose") /\ UNCHANGED leftOpen
    /\ Disturbs(t, req[t].fd)
    /\ UNCHANGED <<twice, misclosed>>

(* sfs_fclose(-1).  Where MAX_BLOCK of disk_emu.c lies 72 bytes before the *)
(* inode table, as in the binary zhou, that is the word it looks at and    *)
(* sets; elsewhere it is one that nothing here depends on.                 *)
sfs_fclose_before ==
    /\ Runs /\ UNCHANGED up
    /\ \/ ~MaxBlockAhead /\ Refuse
       \/ ~MaxBlockAhead /\ Reply(0, <<>>) /\ UNCHANGED <<tables, blocks>>
       \/ MaxBlockAhead /\ MAX_BLOCK = Closed /\ Refuse
       \/ /\ MaxBlockAhead /\ MAX_BLOCK # Closed
          /\ MAX_BLOCK' = Closed
          /\ Reply(0, <<>>)
          /\ UNCHANGED <<tables, free_bit_map, disk, diskMap, intact, known>>

(* Mutant: the file before the one that was opened is closed.              *)
fclose_OffByOne(t) ==
    /\ InCall(t, "fclose")
    /\ Ends(t)
    /\ \/ req[t].fd > 0 /\ sfs_fclose(req[t].fd - 1)
       \/ req[t].fd <= 0 /\ sfs_fclose_before
    /\ misclosed' = (misclosed \/ req[t].fd = -1)
    /\ UNCHANGED <<twice, leftOpen, disturbed>>

fclose(t) ==
    /\ InCall(t, "fclose")
    /\ Ends(t)
    /\ \/ /\ req[t].fd # -1
          /\ sfs_fclose(req[t].fd)
          /\ leftOpen' = leftOpen \ {req[t].fd}
          /\ Disturbs(t, req[t].fd)
          /\ UNCHANGED misclosed
       \/ /\ req[t].fd = -1
          /\ sfs_fclose_before
          /\ misclosed' = (misclosed \/ req[t].op \in {"create", "truncate"})
          /\ UNCHANGED <<disturbed, leftOpen>>
    /\ UNCHANGED twice

(* Mutant: the return for a name that is not found comes before sem_post.  *)
getfilesize_KeepsSem(t) ==
    LET S == SlotsNamed(req[t].name) IN
    /\ life = "serving" /\ req[t].at = "getfilesize" /\ inside = t
    /\ inside' = Nobody
    /\ \/ S = {} /\ Ends(t) /\ UNCHANGED sem
       \/ /\ S # {} /\ sem' = 1
          /\ req' = [req EXCEPT ![t].fd = rootDir[First(S)].num, ![t].at = "size"]
    /\ UNCHANGED <<vars, life, lost, asked, history>>

(* sfs_getfilesize posts the semaphore when it has found the name, and     *)
(* reads the size after that.                                              *)
getfilesize(t) ==
    /\ InCall(t, "getfilesize")
    /\ LET S == SlotsNamed(req[t].name) IN
       \/ S = {} /\ Ends(t)
       \/ /\ S # {}
          /\ req' = [req EXCEPT ![t].fd = rootDir[First(S)].num, ![t].at = "size"]
    /\ UNCHANGED <<vars, history>>

(* Mutant: a second sem_post, after the size is read.                      *)
read_size_PostsAgain(t) ==
    /\ life = "serving" /\ req[t].at = "size"
    /\ Reply(inode_table[req[t].fd].size, <<>>)
    /\ Ends(t)
    /\ sem' = sem + 1
    /\ UNCHANGED <<tables, blocks, up, life, inside, lost, asked, history>>

read_size(t) ==
    /\ life = "serving" /\ req[t].at = "size"
    /\ Reply(inode_table[req[t].fd].size, <<>>)
    /\ Ends(t)
    /\ UNCHANGED <<tables, blocks, up, daemon, asked, history>>

(* Mutant: the loop goes on until it gets an empty name.                   *)
getnextfilename_UntilEmpty(t) ==
    LET fname == ret'.data[1] IN
    /\ InCall(t, "getnextfilename")
    /\ sfs_getnextfilename
    /\ \/ fname = NoName /\ Ends(t)
       \/ /\ fname # NoName
          /\ req' = [req EXCEPT ![t].seen = @ \cup {fname}]
    /\ UNCHANGED history

(* One turn of the loop of fuse_readdir.                                   *)
getnextfilename(t) ==
    LET fname == ret'.data[1] IN
    /\ InCall(t, "getnextfilename")
    /\ sfs_getnextfilename
    /\ \/ ret'.val = 0 /\ Ends(t) /\ twice' = twice \ {t}
       \/ /\ ret'.val # 0
          /\ req' = [req EXCEPT ![t].seen = @ \cup {fname}]
          /\ twice' = IF fname \in req[t].seen THEN twice \cup {t} ELSE twice
    /\ disturbed' = {u \in disturbed \cup {v \in Thread \ {t} : req[v].op = "readdir"} :
                         req'[u].at # "idle"}
    /\ UNCHANGED <<leftOpen, misclosed>>

-----------------------------------------------------------------------------
(* The life of the daemon.                                                 *)

FuseInit ==
    /\ Init
    /\ life = "down" /\ sem = 1 /\ inside = Nobody
    /\ req = [t \in Thread |-> NoRequest]
    /\ asked = 0 /\ lost = FALSE
    /\ disturbed = {} /\ twice = {} /\ leftOpen = {} /\ misclosed = FALSE

(* main calls mksfs(1): sem_open finds the semaphore as the last process   *)
(* left it, or makes it with value 1.  The disk is wiped at once, but      *)
(* nobody looks at it before the tables are there.                         *)
start ==
    /\ life = "down"
    /\ life' = "mount"
    /\ UNCHANGED <<vars, sem, inside, lost, req, asked, history>>

mksfs_wait ==
    /\ life = "mount" /\ sem = 1
    /\ sem' = 0
    /\ life' = "format"
    /\ UNCHANGED <<vars, inside, lost, req, asked, history>>

(* The rest of mksfs(1).                                                   *)
mksfs_format ==
    /\ life = "format"
    /\ mksfs_fresh
    /\ sem' = 1
    /\ life' = "serving"
    /\ leftOpen' = {} /\ misclosed' = FALSE
    /\ UNCHANGED <<inside, lost, req, asked, disturbed, twice>>

(* The process is killed.  It leaves the disk and the semaphore as they    *)
(* are; its memory is gone, and shown as the next process finds it.        *)
kill ==
    /\ life # "down"
    /\ life' = "down"
    /\ lost' = (lost \/ inside # Nobody \/ life = "format")
    /\ inside' = Nobody
    /\ req' = [t \in Thread |-> NoRequest]
    /\ inode_table' = [i \in Inodes |-> EmptyInode]
    /\ fd_table' = [i \in Inodes |-> 0]
    /\ rootDir' = EmptyDir
    /\ rootDir_ptr' = 0
    /\ \E o \in SUBSET Overrun : free_bit_map' = FreshMap(0 .. NUM_BLOCKS - 1) \cup o
    /\ MAX_BLOCK' = NUM_BLOCKS /\ up' = TRUE /\ known' = TRUE
    /\ Reply(0, <<>>)
    /\ disturbed' = {} /\ twice' = {} /\ leftOpen' = {} /\ misclosed' = FALSE
    /\ UNCHANGED <<disk, diskMap, intact, sem, asked>>

Step(t) ==
    \/ sem_wait(t)
    \/ remove(t) \/ fopen(t) \/ fseek(t) \/ transfer(t) \/ fclose(t)
    \/ getfilesize(t) \/ read_size(t) \/ getnextfilename(t)

FuseNext ==
    \/ \E t \in Thread : Begin(t) \/ Step(t)
    \/ start \/ mksfs_wait \/ mksfs_format \/ kill

FuseSafety == FuseInit /\ [][FuseNext]_fvars

(* The process goes on while it can, whichever of its threads runs: the    *)
(* kernel need not ask for anything, and sem_wait keeps no queue.          *)
GoesOn == mksfs_wait \/ mksfs_format \/ \E t \in Thread : Step(t)

FuseSpec == FuseSafety /\ WF_fvars(GoesOn)

-----------------------------------------------------------------------------
(* Properties.                                                             *)

Request_t == [op : Op \cup {"none"}, name : AnyName, off : Nat, length : Nat,
              buf : Buf \cup {<<>>}, fd : Inodes \cup {-1}, seen : SUBSET (AnyName \cup {Unspec}),
              at : {"idle", "remove", "fopen", "fseek", "transfer", "fclose",
                    "getfilesize", "size", "getnextfilename"}]

(* The variables keep their types: no thread holds a number that is not of *)
(* an inode, but for the -1 of a refused sfs_fopen.                        *)
FuseTypeOK ==
    /\ TypeOK
    /\ life \in {"down", "mount", "format", "serving"}
    /\ sem \in {0, 1} /\ inside \in Thread \cup {Nobody}
    /\ req \in [Thread -> Request_t]
    /\ asked \in Nat
    /\ disturbed \subseteq Thread /\ twice \subseteq Thread
    /\ leftOpen \subseteq Inodes
    /\ misclosed \in BOOLEAN /\ lost \in BOOLEAN

(* disk_access is taken exactly while somebody is in a call, or for ever   *)
(* once a process was killed in one: then no later daemon gets past its    *)
(* mksfs(1), and nothing short of removing the semaphore by hand helps.    *)
SemaphoreIsHeldOrLost ==
    sem = 0 <=> lost \/ life = "format" \/ inside # Nobody

(* What a request has opened stays the file its path names, whatever the   *)
(* other threads create, truncate and unlink meanwhile.                    *)
HandlesKeepTheirName ==
    \A t \in Thread :
        req[t].fd # -1 => \E s \in Inodes : /\ rootDir[s].num = req[t].fd
                                            /\ rootDir[s].name = req[t].name

(* The answer to a transfer that no other thread's call on the same file   *)
(* came between: a read brings the words at its offset, a write puts its   *)
(* words there, and only what does not fit the file or the disk is refused.*)
Span(f, off, n) == [k \in 1 .. n |-> f[off + k]]

ReadAnswered(i, off, n) ==
    IF off + n > Len(Content(i)) THEN ret'.val = -1
    ELSE ret'.data = Span(Content(i), off, n)

WriteAnswered(i, off, buf) ==
    \/ /\ ret'.val = Len(buf)
       /\ off + Len(buf) <= Len(Content(i)')
       /\ Span(Content(i)', off, Len(buf)) = buf
    \/ /\ ret'.val = -1 /\ Content(i)' = Content(i)
       /\ off + Len(buf) > MAX_FILE \/ free_bit_map' = {}

Answered(t, i) ==
    IF req[t].op = "read" THEN ReadAnswered(i, req[t].off, req[t].length)
    ELSE WriteAnswered(i, req[t].off, req[t].buf)

UndisturbedTransfers ==
    [][\A t \in Thread, i \in Inodes :
          transfer(t) /\ req[t].fd = i /\ t \notin disturbed /\ ~misclosed
              => Answered(t, i)]_fvars

(* A file is open only while a request is at it, or after a transfer on it *)
(* was refused: the early returns of fuse_read and fuse_write skip         *)
(* sfs_fclose, nothing else does.                                          *)
OpenOnlyAfterRefusal ==
    \A i \in Inodes :
        inode_table[i].mode = Opened =>
            i \in leftOpen \/ \E t \in Thread : req[t].fd = i /\ req[t].at # "size"

(* A size that fuse_getattr answers is read after sem_post and used by the *)
(* kernel later still; it may be too small by then, but never too large.   *)
SizesOnlyGrow ==
    [][life = "serving" /\ life' = "serving" =>
          \A i \in Inodes : inode_table'[i].size >= inode_table[i].size]_fvars

(* Every entry of a listing is the name of a file, and no name comes twice *)
(* unless two listings, which share rootDir_ptr, have overlapped.          *)
ListingsAreTrue ==
    \A t \in Thread :
        /\ \A n \in req[t].seen : n \in Name /\ SlotsNamed(n) # {}
        /\ t \in twice => t \in disturbed

(* The blocks of the disk stay within reach of read_blocks and             *)
(* write_blocks, until a create or truncate that sfs_fopen refused has     *)
(* closed file -1.                                                         *)
DiskInReach == Reachable = DataBlocks \/ misclosed

(* While a daemon serves, some request in progress ends: threads that      *)
(* follow one listing with another, or one transfer with another, do not   *)
(* keep each other from their ends for ever.                               *)
RequestEnds == \E t \in Thread : req[t].at # "idle" /\ req'[t].at = "idle"

SomeRequestEnds ==
    \/ []<>(life # "serving" \/ \A t \in Thread : req[t].at = "idle")
    \/ []<><<RequestEnds>>_fvars
==============================================================================
