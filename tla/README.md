# A verification of the programs of OS_reupload

The repository holds three programs that share no code: a simple file system
(`src/file_system`), a table reservation system (`src/Reservation system`) and
a shell (`src/A_simple_shell`). This directory holds TLA+ models of all three,
what TLC finds out about small instances of them, and what TLAPS proves about
all instances.

    tlc -config sfs_direct.cfg MCSFS        # a run: the configuration, the module
    tlapm SFS_proofs.tla                    # the proofs of a module

## 1. Inventory

### The file system

| part | state | operations | what makes it correct |
|---|---|---|---|
| block allocator, `sfs_api.c` 29-86 | `free_bit_map`, one bit per block, high when free | `get_index` (lowest high bit), `force_set_index` | a block has one owner; a full disk is told from block 0; nothing outside the map is used |
| files, 403-711 | `inode_table` (mode, size, 12 direct pointers, one indirect), `fd_table` (one position per inode), the disk | `sfs_fopen`, `sfs_fclose`, `sfs_fseek`, `sfs_fread`, `sfs_fwrite` | a file is a sequence of bytes: a call changes the file it names and no other, and what is written is read |
| directory, 294-402 | `rootDir`, 100 slots of inode number and name; `rootDir_ptr` | look-up and creation in `sfs_fopen`, `sfs_getfilesize`, `sfs_getnextfilename` | one name, one file; a file that has blocks has a name |
| mount, 153-293 | the metadata blocks 0 to 34 of the disk | `mksfs(1)`, `mksfs(0)` | a file system that is opened again is the one that was left |
| `disk_access` | one named semaphore of value 1 | taken by every call but `mksfs(0)` and `sfs_remove` | calls exclude each other; nobody waits for ever |
| disk, `disk_emu.c` | one file of 1024 blocks, `MAX_BLOCK` | `read_blocks`, `write_blocks` | every block of the file system is in reach |
| `fuse_wrappers.c` | none of its own | open, seek, transfer, close for each request, from several threads | requests do not disturb each other; what a request opens it closes |

The wrappers call the file system, which calls the disk. The calls of two
threads interleave between calls, never within one, since each takes
`disk_access` first and posts it last; with three exceptions. `sfs_getfilesize`
reads the size after the post, `sfs_fopen` checks the name before the wait, and
`sfs_remove`, whose body is commented out, takes nothing. What is hard: a write
touches the bit map, the inode, an indirect block and the data, and may fail
between any two of them; files cross from direct to indirect pointers in the
middle of a write; a disk can be full at any allocation; the tables exist in
memory and on the disk and the copies part; all threads share one position per
file and one pointer into the directory; the daemon can be killed with the
semaphore at 0.

### The reservation system

| part | state | operations | what makes it correct |
|---|---|---|---|
| `main.c`, any number of processes | 20 tables in shared memory, section A and B, each with a name; a named semaphore for each section | `init`, `status`, `reserve` of some table or of one table, `exit`; `initTables` runs at every start | a table goes to one guest; a printed status is one moment of the book; processes do not all wait for one another |
| `clearout.c` | none | unlinks the names of the semaphores | nothing of the old use is shared with the new one |

The processes interact through the shared memory and the semaphores only. What
is hard: the interleaving of critical sections that take one or both
semaphores, processes that are killed in one (they sleep there), and semaphores
that are renewed under processes that have them open.

### The shell

| part | state | operations | what makes it correct |
|---|---|---|---|
| the command loop, `main.c` 244-415 | the words of the line (`args`), `pid`, the job list, all copied at each fork; what `getline` has buffered of the input | read a line, fork, run a builtin in the child, wait in the parent, enter a job | one process at a time reads the input; a job that is listed has run |
| the builtins, 90-230 | the working directory of the child | `cd`, `jobs`, `fg`, `ls`, `cat`, `cp`, `pwd` | they act on the process they are run in |
| the handler of ctrl+C, 36-46 | none | waits for `pid`, ends the process | shell and children end, parents last |

Every command is forked, the builtins too. A child whose builtin returns does
not end: it goes back to the head of the loop, and is a shell of its own, nested
in the one that waits for it. What is hard: which process reads which line,
which copy of the list holds which job, signals that reach all of them at once
and in the middle of a fork.

## 2. The modules

| module | what it is | lines of source |
|---|---|---|
| `FileStore` | what a client of the file system may rely on: names, contents, positions, and what each call does to the file it is given | (abstract) |
| `SFS` | `sfs_api.c` on `disk_emu.c`, one action per call | 752 + 180 |
| `SFSAppend` | extends `SFS`: clients whose files grow into their indirect blocks, by whole blocks | |
| `MCSFS` | values of the constants for TLC | |
| `SfsFuse` | extends `SFS`: `fuse_wrappers.c`, threads, the semaphore and the life of the daemon | 188 |
| `MCFuse` | values of the constants for TLC | |
| `Helpers` | `write_helper`, `read_helper` and the name check, in the steps `SFS` leaves out | 60 |
| `TableBook` | what a guest may rely on: one book of tables | (abstract) |
| `Reservation` | `main.c` and `clearout.c`, one action per semaphore call or table access | 303 + 38 |
| `Shell` | `main.c` of the shell, one action per system call | 415 |
| `SFS_proofs`, `FileStore_proofs`, `SFSAppend_proofs`, `SfsFuse_proofs`, `Helpers_proofs`, `Reservation_proofs`, `ReservationBook_proofs`, `Shell_proofs` | theorems about them | |

### SFS

The variables are the globals of `sfs_api.c` (`inode_table`, `fd_table`,
`rootDir`, `rootDir_ptr`, `free_bit_map`) and the disk: `disk` for the data
blocks, word by word, `diskMap` for the bit map as it lies on the disk,
`MAX_BLOCK` of the emulator's range check. `intact` turns false when a stray
write hits a metadata block other than the superblock, and `known` when a
`mksfs(0)` then reads the tables back. Inodes and directory need no copy on the
disk: only `mksfs(1)` writes them, always empty, and what a stray write makes of
them is not kept. `ret` is the answer to the last call, `up` tells whether the
program has survived it and has written nowhere but in its tables.

- One step is one call: the semaphore orders calls completely. Where it does
  not, `SfsFuse` takes the call apart.
- A word stands for one `int`. Lengths and positions are in words, which loses
  transfers that are not a multiple of four bytes; the block arithmetic is the
  same in both units, and `Helpers` has it in bytes. A block holds `BLOCK_SIZE`
  words, hence as many pointers, as 1024 bytes hold 256.
- `sfs_fwrite` keeps every step of the code: the two size and mode checks, the
  loading of `blockNums` with the copy that counts bytes (`CopiedForWrite`), the
  allocation that leaves blocks taken when it fails, the split into direct and
  indirect pointers, the unchecked `get_index` for the indirect block, the write
  of the pointers, the data, the size, the position. Allocating `n` blocks one by
  one is one choice of the `n` lowest free ones, in order (`Allocations`).
- Undefined behaviour is a choice. An entry of `blockNums` that was never set
  holds any number of `Stale`; the byte behind `free_bit_map` has any bits of
  `Overrun`; directory entries past the two blocks that `mksfs(0)` reads are any
  of `LeftOver`, with any number, also one of no inode, and any name, also one
  that another file has; words nobody determined are `Unspec`. The copy of
  about 2^22 entries when a size is below the direct part ends the program
  (`up`), and so may a number that is of no inode, which makes `sfs_fopen` write
  outside the inode table.
- `mksfs(0)` tests nothing. After a stray write into the metadata it reads back
  inodes, a directory and a bit map that are any bytes. The model then keeps no
  tables: `known` is false, `sfs_unknown` stands for every call, which may do
  anything but repair them, and the next `mksfs(1)`, which clears the tables,
  starts again with any bit map outside the metadata and any `rootDir_ptr`. A
  property about the tables is about known ones, and says so; before such a
  `mksfs(0)` and after the next `mksfs(1)` it says all it did.
- File numbers are those of the table: a client that passes another one is
  outside `SFS` (the -1 that the wrappers pass is in `SfsFuse`). A file name is a
  member of `Name`; `NoName` and `JunkName` stand for names `sfs_fopen` refuses.
- `sfs_remove` does nothing at all: its body is commented out. `sfs_test2.c`
  414-421 expects the names to be gone, which the run `sfs_remove` refutes; it is
  the one call of which `ImplementsFileStore` says nothing.
- `FileStore` has one operation for each call, with the call's own argument: a
  path or a file number. `ImplementsFileStore` asks two things of a step: that it
  is one of `FileStore`, and that it is the operation of the call that was made,
  for its argument (`AsCalled`): `sfs_fwrite(i, buf)` must be `Write(i, buf)` of
  the abstract store, `sfs_fopen(n)` must be `Open(n)`. A write that lands in
  another file, or an answer about another name, is not accepted.
- Bounds: `MaxEnd`, which no write goes past unless it is over the largest file
  size, and the finite sets of buffers, lengths and positions.

### SfsFuse

A thread serves one request at a time: `req[t]` holds its path, offset, length
and words, the file number it was given, and where it stands (`at`). A call that
takes `disk_access` is two steps, `sem_wait` and the rest of the call with its
`sem_post` (`InCall`), which is the action of `SFS`; so no call of `SFS` is
written a second time. `Begin` is the kernel asking for one of the operations
that `xmp_oper` lists.

- `sfs_getfilesize` is three steps, the size being read after the post.
  `fopen_illegal` is the check of the name before the wait; with `JunkBehind`
  what lies behind a name in the wrapper's buffer may make it refused.
- `fuse_read` and `fuse_write` return without `sfs_fclose` when the transfer is
  refused; `fuse_create` and `fuse_truncate` pass on the -1 of a refused
  `sfs_fopen`. `sfs_fclose(-1)` then looks at, and sets, the `mode` of an inode
  that is not there. In the binary `zhou` that word is `MAX_BLOCK` of
  `disk_emu.c` (symbol at 0x604198, `inode_table` at 0x6041e0, inodes of 72
  bytes), so that the disk has one block from then on; `MaxBlockAhead` chooses
  between that layout and one where nothing depends on the word. The answers
  of refused calls are `-errno` with whatever `errno` holds, and are not
  modelled; nor is the -1 of `sfs_fseek` that the wrappers look for, which
  never comes.
- `MAXFILENAME`, the size of the buffers the wrappers copy a path to, is
  defined in no header of the repository; paths are taken to fit.
- The life of the daemon: `start`, `mksfs_wait` and `mksfs_format` are
  `mksfs(1)`; `kill` may come at any point, empties the memory and leaves the
  semaphore and the disk as they are.
- History variables, which no guard reads: `disturbed` (another thread has used
  the file, or listed, during the request), `twice` (a listing was given a name
  again), `leftOpen` (a refused transfer left the file open), `misclosed` (file
  -1 was closed by a create or truncate), `lost` (a kill inside a call).
- Bound: `MaxRequest`.

### Helpers

One step is one access to the disk, or one character looked at. `moved` is a
history variable: for each byte of the buffer, the byte of the file it was
paired with. The memory at the name is any sequence of `MAX_FILE_NAME + 1`
characters, so that what lies behind the end of a short name takes part, as it
does in lines 346-362. A transfer of no bytes, which would look up one entry
for nothing, is left out (`numBytes` is at least 1).

### Reservation

Each process has a place (`pc`), a command (`cmd`) and an index (`at`). Where
`pc` is `"wait"` or `"post"` the index runs over the semaphores of the command,
in `"work"` and `"copy"` over the tables. Semaphores have generations:
`sem_unlink` sets `named` to 0, the next `sem_open` makes a new one, and
`handle` keeps what a process has opened. `kill` stops a process where it is,
for good, with its semaphores as they are; a start is another member of `Proc`,
or the same one after `exit`. `clearout` is two steps, one for each name. The
comparison with `"empty"` and the copy of the name are two steps.

- `Alone` says that clearout is run only while no process runs. The code does
  not enforce it; README.txt line 24 lets the programs run in different
  terminals. With `Alone` the sections exclude, without it they do not (the run
  `clearout`).
- Bounds: `MaxKill`, `MaxClear`.
- Command lines are not parsed; the sleeps are the time between two steps.

### Shell

Processes are numbered in the order of their forks. `mem[p]` is the memory of
process `p` as far as commands depend on it: `pid`, the command in `args`, the
job list, the lines `getline` has buffered, the working directory. `fork` copies
it, in one step that makes the child (`"born"`) and leaves the parent before its
assignment of `pid` (`"forked"`). A zombie keeps nothing.

- The input is a terminal, which brings a line at a time, or a pipe, which brings
  any number at once; they stay in the buffer of the process that read them, and
  in the copies of it that are forked later.
- `sigHandler` first waits for the process that `pid` names, then ends. `interrupt`
  is ctrl+C, which reaches the whole group at once; `stop` and `continue` are
  signals from outside, since ctrl+Z is ignored. `wait` returns for a stopped
  child too (`WUNTRACED`).
- `fork` fails when all processes are used up, and the -1 goes on as a `pid`.
- `fg` runs in the child, where no job is a child of the process: `waitpid`
  answers -1 at once, or the look-up of a number that is not there ends the child.
  src/README lines 2-3 speak of jobs in the background, but nothing ever runs
  there: `&` is looked for and then every command is waited for alike.
- History variables: `everStopped`, `early` (interrupted between a fork and the
  assignment of its result).
- Bounds: `MaxProcess`, `MaxLine`, `MaxStop`.
- Left out: the splitting of lines into words, with more than 20 of which `args`
  overflows; output and redirection; `buildin_exit`, which nothing reaches; an
  input file that is seekable, whose offset all processes share.

## 3. The runs

| run | instance | properties |
|---|---|---|
| `sfs_direct` | 2 inodes, 2 data blocks of 2 words, 2 direct pointers, 3 names | `TypeOK`, `OwnedOnce`, `BlocksHaveAName`, `OneFilePerInode`, `ImplementsFileStore`, `NoBlockLost` |
| `sfs_append` | 2 inodes, 6 data blocks, 1 direct pointer, files up to 3 blocks that grow by whole blocks; no step of a listing, which shares nothing with the blocks | `FilesApart`, `IndirectPointsToData`, `AppendsToAStore`, `NoBlockLost` |
| `sfs_any` | 2 inodes, 3 data blocks, 1 direct pointer, one bit past the map, a directory that is all left over at `mksfs(0)` with right, shared and wrong numbers, unset entries that lead to metadata, 2 names | `OwnedOnce`, `BlocksHaveAName`, `CrashNeedsADamagedDirectory`, `StrayNeedsIndirect` |
| `sfs_fuse` | 2 threads, 2 inodes, 2 data blocks of 1 word, 2 direct pointers, 2 names, 4 requests, kills at any time | `OwnedOnce`, `FuseTypeOK`, `SemaphoreIsHeldOrLost`, `HandlesKeepTheirName`, `OpenOnlyAfterRefusal`, `ListingsAreTrue`, `DiskInReach`, `UndisturbedTransfers`, `SizesOnlyGrow`, `SomeRequestEnds` |
| `helpers` | blocks of 4 bytes, transfers of 1 to 13 bytes from any offset; all memories of 6 characters | `PrefixTransferred`, `BlocksTouched`, `NamesAreJudged` |
| `shell` | 3 processes, 3 lines, one stop, terminal and pipe | `ShellTypeOK`, `OneReader`, `JobsAreDone`, `NumbersAgree`, `ParentsEndLast`, `FirstShellStays`, `EndsAfterInterrupt`, `ScriptEnds` |
| `reservation` | 2 processes, 2 tables in A and 1 in B, one kill, one clearout | `TypeOK`, `MutualExclusion`, `StatusIsASnapshot`, `ImplementsTableBook`, `SomeoneIsServed` |

What they show.

*File system.* As long as files stay within their direct pointers, any sequence
of calls, full disks, refused calls and remounts included, is one of a plain
store of files, and each call but `sfs_remove` is the operation of that store
that its arguments name (`sfs_direct`). The same holds of files that reach their
indirect block, if clients only append whole blocks and stop before the last
one (`sfs_append`): the write then needs no old entry of the indirect block, and
the unchecked allocation succeeds. There `AppendsToAStore` asks of a write that
is such an append what `AsCalled` asks of every write. `NoBlockLost` is about
calls that succeed: a refused write on a full disk does keep what it took.

For clients that do anything, with a directory that comes back with any
entries and a bit map read past its end (`sfs_any`): what the files hold does
not stay apart, and a write through an unset entry of `blockNums` may hit the
metadata. Only a write in a file that has an indirect block already can do so
(`StrayNeedsIndirect`). As long as no `mksfs(0)` reads the result back, the
pointers of the inodes stay apart, no blocks are without a name, and the program
ends only with a directory in which two entries share an inode or one has the
number of none. After such a `mksfs(0)` nothing holds, until `mksfs(1)`.

*Daemon.* Two threads never share a call, but they share a file's position and
open flag: a request is answered as it should be when no other thread's call on
the same file came in between (`UndisturbedTransfers`), and only then. Whatever
the others do, the file number a request holds stays the number of its path
(nothing is ever removed), a size read after the post is at most too small, a
listing names files that exist and repeats a name only when two listings
overlap. A file stays open only after a refused transfer, and blocks go out of
reach only after a refused create or truncate: both are what the error paths of
the wrappers leave behind. A kill inside a call leaves the semaphore at 0 for
ever; the next daemon then waits in `mksfs(1)` (`SemaphoreIsHeldOrLost`). A
listing never hands out the last name of a full directory; no property is about
that. Requests end, even though two listings can send each other's shared pointer
back and forth (`SomeRequestEnds`).

*Helpers.* The block loops pair each byte with its place, look at no entry
of `blockNums` they have no bytes for, and leave a prefix wherever they are cut
off. The name check accepts the legal names and no others, unless a period
stands behind the end of the name.

*Shell.* However deep shells are nested, one of them reads. A number is
entered in the list when its process is over, so that `fg` never finds a job to
wait for; a nested shell's list extends that of the shell around it. After
ctrl+C all end, parents after their children, except that one that comes between
the return of `fork` and the assignment to `pid` waits for the command before.
A script ends, although each line that a pipe has brought along is run by the
nested shell and again by its parent.

*Reservation.* The processes implement a book of tables that is read and
written in one step at a time: a table is given when it is free, refused when
none is, and the clearing of twenty tables is seen at once or not at all,
although a process may be killed in the middle of it (`torn` remembers that, and
until the next `initTables` the book counts as cleared: nobody gets past its own
`initTables` to look at it).

Five runs show where the code departs from what the repository says of it;
each ends in a counterexample. Two more departures are what a passing run shows:
there the property states what the code does.

| run | property | what is said | what happens |
|---|---|---|---|
| `sfs_isolation` | `OneFileChanges` | `sfs_test.c` 346-347 reads all files after long writes to one | line 608 copies `numIndPtrs` bytes where 531 copies entries; a write goes through entries that were never set into another file's block |
| `sfs_indirect_full` | `IndirectPointsToData` | `sfs_api.h` 24: the pointer "points to a data block" | line 672 stores the 0 of a full disk; the pointers are written over the superblock, the call succeeds |
| `sfs_remount` | `RemountKeepsFiles` | `sfs_test.c` 282-294 reads the files back after `mksfs(0)` | the tables on the disk are those of `mksfs(1)`: every file is gone |
| `sfs_remove` | `RemoveForgetsTheName` | `sfs_test2.c` 414-421 removes every file and then reports "should be empty dir" if there is a name | the body of `sfs_remove` is commented out: the file stays |
| `clearout` | `ClearoutSeparates` | `README.txt` 21: "destroys all the named semaphore and shared memory" | `clearout.c` 30-31 unlink shared memory under the names of the semaphores; the tables stay and two processes are in one section |
| `sfs_direct` (passes) | `ImplementsFileStore` | `sfs_test.c` 290-291, and the comment at `sfs_api.c` 496: a read past the end brings what is left | line 495 returns -1 before the length is corrected: `Read` of `FileStore` refuses |
| `shell` (passes) | `JobsAreDone` | `src/README` 2-3: "fg (foreground a background job), and jobs (list background jobs)" | every command is waited for, with `&` or without; every job that is listed has ended or was stopped from outside |

Why the bounds are enough. Two files are what isolation, shared blocks and
shared names take; three names make the directory full. Blocks of two words
have a beginning and a rest, so that transfers start inside a block, end inside
one and cross a boundary. With one or two direct pointers and an indirect block
files are short, within, at and past the point where the code changes its ways,
and the disks are small enough to be full at every allocation (all but
`sfs_append`, whose client stops before). In `sfs_any` an unset entry of
`blockNums` is the number of a metadata block or of a data block, and a left-over
directory entry has the number 0 or one that is of no inode. In `sfs_fuse` what is checked is the
interleaving, so blocks have one word; four requests are two for each thread,
enough for one to follow on what a refused one left, before and after a kill. In
`helpers` 13 bytes from offset 3 take a part of a block, three whole ones and a
rest, and 12 from 0 the exact multiple. Three processes are a shell, a shell in
it and a command of that one; with the third line the fork fails. Two processes
are enough for a violation of exclusion, and with one semaphore for each
section a cycle of waits has length two. Names are symmetric: they are only
compared, and the properties that use symmetry are safety properties. What is
proved holds without these bounds.

Fairness. `SFS` and `Helpers` have none: their properties are safety, a call
returns. In `SfsFuse` the daemon as a whole is weakly fair (`GoesOn`): some
thread that can run runs. The threads are not fair one by one, because
`sem_wait` keeps no queue; the kernel need not ask for anything, and kills and
starts are under no fairness. In `Reservation`, `Step` of each process is weakly
fair: the operating system runs a process that can run, and `sem_wait` returns
once the semaphore is high and stays high. It is not strongly fair, so
`SomeoneIsServed` is about progress of some process, not of each; and it excuses
a process that waits for ever only when what it waits for was taken by a killed
process, or by one that itself waits for a killed one (`KeptByKilled`). A kill of
a process outside its critical section excuses nothing. Users, kills
and clearouts are under no fairness. In `Shell` each process is weakly fair,
programs end, and a pipe brings lines or its end; nobody need type at a
terminal or continue what he has stopped, so both liveness properties ask that
what is stopped is continued again and again (`[]<>(stopped = {})`).

Deadlock is not checked where the system may stop: in `reservation` all processes
may have been killed, in `sfs_fuse` the requests are used up or the semaphore is
lost, in `helpers` and `shell` everything has ended, in `sfs_any` and in the runs
that end in a counterexample the program may have ended.

## 4. The proofs

`SFS_proofs` (for any number of inodes, blocks and direct pointers, any block
size, any clients, under the assumptions `SizeAssumption`, `ClientAssumption`
and `NameAssumption`):

- `TypeCorrect`: `Spec => []TypeOK`.
- `BlocksHaveOneOwner`: `Spec => []OwnedOnce`, that is, `OneOwner` of known tables.
  The type invariant is what makes
  it inductive: a pointer that is new comes from `free_bit_map`, which never
  holds metadata blocks, and is gone from it after the call, so that it differs
  from every pointer there was. A write takes its data blocks first and the
  indirect block from what they leave (`IndirectAfter`), and pointers of 0, which
  the full disk produces, are exempt. A `mksfs(0)` that reads what `mksfs(1)` wrote
  is safe because it takes the inodes back with the bit map; the mutant that
  keeps the inodes breaks it. Since the variables keep their values while the
  tables are unknown, `OneOwner` itself is the inductive invariant.
- `BlocksAreNamed`: `Spec => []BlocksHaveAName`, inductive with the types: an
  entry with a name never loses it but in `mksfs`, which closes and empties all
  inodes. What the entries behind the directory's two blocks come back as
  does not matter.
- `FilesAreOneToOne`: `[]OneFilePerInode` under `DirectoryComesBack`. Only 73 of
  the code's 100 entries are on the disk, and a `mksfs(0)` may bring back two names
  for one inode, or a name nobody created; `DirectoryComesBack` says of a
  behaviour that its `mksfs(0)` bring back the empty directory, which `mksfs(1)`
  wrote. It is a condition on what memory happens to hold, not on the constants:
  the theorem is about 73 and 100 as well, and about every behaviour up to the
  first `mksfs(0)` that brings back anything else. With `DirInv` it is inductive:
  slot `s` is about inode `s`.
- `CrashNeedsDamage`: `Spec => []CrashNeedsADamagedDirectory`. `CrashInv`: the
  directory is damaged, or the program is up and every file with an indirect
  block is at least as long as its direct part. A new name takes an inode whose
  size is then 0; by `BlocksHaveAName` one with an indirect block has another name
  already, and is shared.
- `StrayWritesNeedIndirect`: `Spec => StrayNeedsIndirect`. Without an indirect
  block a write goes through direct pointers, which `OneOwner` keeps out of the
  metadata, and through blocks it has just taken (`DirectWrites`).

`FileStore_proofs` (the same, for what `Direct` says of constants: clients write no
further than the direct pointers reach, and no bit behind `free_bit_map` is high;
for behaviours with `DirectoryComesBack`). `StoreInv` adds to
the types, `OwnedOnce` and `DirInv` that every inode is `Tidy`: for some `m` its
first `m` direct pointers lead to data blocks, the others and the indirect
pointer are 0, and `m` blocks hold its size. It is inductive because the blocks
a write counts are enough for it (`CeilDivEnough`) and fit the inode
(`NeedsLength`), so that they are entered behind the old ones (`WriteTidy`).

- `FilesAreAStore`: `ImplementsFileStore`, the refinement, each call with its own
  arguments (`AsCalled`; `sfs_remove` aside). In such a file `blockNums`
  holds the pointers and nothing by chance (`WriteBlocks`, `ReadBlocks`), and by
  `OwnedOnce` no two words of the store have the same block and offset
  (`PlacesApart`), so that `write_helper` changes the words of the buffer and no
  others (`WriteWords`).
- `DirectFilesApart`: `FilesApart`, and `DirectBlocksAreKept`: `NoBlockLost`, from the
  same invariant.

Past the direct pointers the refinement fails for clients that do anything: in
`sfs_isolation` a write of one file changes another.

`SFSAppend_proofs` (any sizes, with `DirectoryComesBack` and no high bit behind
`free_bit_map`; in place of the bound on what clients write, `AppendSpec` lets
them write whole blocks at the end of a file alone, and no more than leaves a
block free; files may fill their indirect blocks, and formats, remounts and
listings are in it). `AppendInv` says that there are numbers `N[i]` such that file
`i` has `N[i]` whole blocks (`Whole`), its `q`-th one named by a direct pointer or
by an entry of its indirect block (`BlockAt`), each a data block that is not
free, and no two places, indirect blocks included, have one block (`Laid`). It
stands beside the types, `OwnedOnce`, `DirInv` and `BlocksHaveAName`: the last one
makes a new name take an inode that has no blocks (`UnnamedIsEmpty`). `OwnedOnce`
alone is too weak here, since it says nothing of the entries of an
indirect block.

- `FilesGrowApart`: `[]AppendInv`. An append ends on the boundary of a block, so that the
  entries of `blockNums` it writes through are those it took in this call
  (`AppendGrows`). The indirect block is taken unchecked, after the data blocks;
  since the client stops in time one is left (`BlockIsLeft`). The pointers of the old
  blocks are written back as they were read, the new ones behind them (`GrownBlocks`);
  none of this is in a block of another file (`OthersKeepTheirs`).
- `GrowingFilesApart` and `LongFilesHaveIndirect`: `FilesApart` and
  `IndirectPointsToData`, which follow from it.
- `GrowingFilesAreAStore`: `AppendsToAStore`, the refinement across the indirect
  block, each call with its own arguments; `GrowingBlocksAreKept`: `NoBlockLost`.

`SfsFuse_proofs` (any number of threads, inodes and blocks, the assumptions of
`SFS` and those of `SfsFuse`). A daemon never calls `mksfs(0)`, so that its tables
are always known and its directory leads to inodes (`NumsWhole`), and no condition
on what comes back is needed. A step of a thread is one call of `SFS`, a close
of file -1, or a size read after the post (`TablesGrow` says what each leaves
of names and sizes), so the lemmas about single calls are used again.

- `DaemonTypeCorrect` and `SemaphoreCorrect`: the types, and
  `SemaphoreIsHeldOrLost`. `DaemonInv` adds that each request has the shape of its
  operation and that nobody is inside a call but in a daemon that serves
  (`Holders`).
- `DaemonBlocksHaveOneOwner`: `OwnedOnce` survives threads, kills and restarts.
- `HandlesCorrect`, `OpenFilesCorrect`, `DiskStaysInReach`: `HandlesKeepTheirName`,
  `OpenOnlyAfterRefusal` and `DiskInReach`, together inductive in `FilesInv`, which
  adds that slot `s` leads to inode `s`, since a daemon always formats its disk,
  and that an inode without a name has size 0.
- `SizesGrow`: `SizesOnlyGrow`, from the same invariant.
- `ListingsCorrect`: `ListingsAreTrue`. `ListingInv` adds that the used slots come
  first (`NamesFirst`: a new name takes the first empty one) and that a listing
  nobody has disturbed has seen names of slots before `rootDir_ptr` alone
  (`Listed`), so that the next one is new to it.
- `TransfersAnswered`: with `Direct`, `UndisturbedTransfers`. `PlacesInv` says of a
  thread whose file no other one has used since that it finds it open, and its
  position where it has put it (`Ready`). `Served` says that the tables of a daemon
  that serves are those of `StoreInv` until file -1 is closed; a call keeps them so (`StoreKeeps`), and
  the lemmas about single calls say what it reads and writes (`ReadAnswer`,
  `WriteStep`, `WriteRefused`).

`Helpers_proofs` (any size of block, any transfer, any memory):

- `TransferCorrect` and `BlocksCorrect`: `PrefixTransferred` and `BlocksTouched`.
  `Moving` relates the next block to the bytes moved: `x * BLOCK = offset + done`
  after the first access, unless all are moved.
- `NamesCorrect`: `NamesAreJudged`. `Checking` is what the two loops have found:
  the last period among the characters passed, and no end of the name since.

`Shell_proofs` (any number of processes, lines and stops):

- `ShellTypeCorrect`: the types; with them, that a process that waits does not
  hold the 0 of a child in `pid`.
- `JobsDone`: `JobsAreDone`. `JobInv` adds what a process is about to enter, and
  that who waits for a number waits for a child of its own.
- `OneShellReads`, `JobNumbersAgree`, `ParentsOutlive`: `OneReader`, `NumbersAgree`
  and `ParentsEndLast`, which are said of
  shells that were never stopped from outside. `Nested` makes them inductive:
  processes are forked in the order of their numbers (`ForkOrder`); all live
  ones but the last are about to wait or wait (`InLine`), for the child that
  leads to the rest (`ForkLeads`, `PidLeads`); each list of jobs extends those
  before it (`ListsGrow`); and after ctrl+C each handler knows its child or came
  before the assignment to `pid` (`HandlersKnow`, `NoOrphans`).
- `CdStaysInChild`: `FirstShellStays`, since builtins run in children only.

`Reservation_proofs` (any processes and tables, any number of kills and
clearouts, under `BookAssumption`):

- `InductiveInvariant`: `Spec => []IInv`. `TypeOK` alone is not inductive: that a
  post leaves a semaphore at 1 needs that it was 0, which is `OneHolder`, and
  that a process posts the semaphore it waited for, which is `InPlace`.
- `TypeCorrect`: `Spec => []TypeOK`.
- `SectionsAreExclusive`: with `Alone`, `[]MutualExclusion`. It takes
  `OneGeneration`: while clearout meets no living process, all that live have
  opened the semaphores the names lead to.

`ReservationBook_proofs` (the same, with `Alone`): `BookInv` adds to these what is
being asked for (`AskedInv`), what a process at work has read or written and
what nobody else can have changed since (`LookedInv`), and that while a killed
`initTables` has left half a book, everyone has his own `initTables` before him
or waits for a semaphore that is gone (`TornInv`).

- `StatusIsTrue`: `StatusIsASnapshot`.
- `ProcessesImplementTheBook`: `ImplementsTableBook`, the refinement. The book that
  is shown (`Shown`) changes when a name is copied, and when `initTables` clears
  its first table, for all tables at once; every step of a process is an `Ask`,
  a `Reserve`, a `TurnDown` or a `Clear` of `TableBook`, or changes nothing of it.

Only model-checked: liveness (`SomeRequestEnds`, `SomeoneIsServed`,
`EndsAfterInterrupt`, `ScriptEnds`), since fairness and `ENABLED` are out of the
prover's reach. `UndisturbedTransfers` is proved, and checked, for files within
their direct pointers only; past them the calls themselves go wrong for clients that
do anything (`sfs_isolation`), with one thread as with several.

## 5. Not modelled

- `bitmap.c`, an older copy of the allocator that the Makefile does not link; the
  binaries, the handout and the screen capture.
- The tests `sfs_test.c`, `sfs_test2.c` and `sfs_mytest.c`: they are clients. What
  they expect is stated as properties of `SFS`.
- The file system: the wording of messages; the latency settings of the disk;
  an image file that cannot be opened, which ends the process at the first
  access; a second process that formats the disk under a first one; `mksfs(0)`
  in a process of its own, where every later call waits on a semaphore that
  was never opened; a block number that is negative (`Stale` holds none), where the
  seek in the image fails and the emulator reads or writes where the last access
  left it.
- The reservation system: the parsing of a command line; the last line that is
  executed again after the end of the input (`fgets` is not looked at).
- The shell: the splitting of lines, the overflow of `args`, redirection, an
  input that is seekable; what happens inside the C library when ctrl+C
  interrupts it there, before the handler calls it again.
