------------------------------ MODULE FileStore ------------------------------
(***************************************************************************)
(* What a client of the simple file system may rely on (sfs_api.h): a      *)
(* fixed table of files, each with a name, a content, an open flag and one *)
(* read/write position, and calls that change one file at a time.  Blocks, *)
(* the free bit map, inodes and the directory do not appear.  SFS.tla is   *)
(* shown to implement this specification while files stay within their     *)
(* direct pointers, or only grow by whole blocks.                          *)
(***************************************************************************)
EXTENDS Integers, Sequences

CONSTANTS
    Handle,   \* what sfs_fopen returns: one for each file the table can hold
    Name,     \* the names a client uses
    NoName,   \* the name of a handle that has no file
    JunkName, \* a name that is not legal
    Unspec,   \* what nothing is promised about
    Buf,      \* the sequences of words a client writes
    ReadLen,  \* how many words it reads
    SeekTo    \* the positions it sets

VARIABLES
    name,     \* handle -> the name of its file, or NoName
    content,  \* handle -> the words of its file
    open,     \* handle -> may the file be read and written
    pos,      \* handle -> the read/write position
    ret       \* the answer to the last call: a number, and the data it brings

vars == <<name, content, open, pos, ret>>

Reply(v, d) == ret' = [val |-> v, data |-> d]

Init ==
    /\ name = [h \in Handle |-> NoName]
    /\ content = [h \in Handle |-> <<>>]
    /\ open = [h \in Handle |-> FALSE]
    /\ pos = [h \in Handle |-> 0]
    /\ ret = [val |-> 0, data |-> <<>>]

(* A refused call changes nothing.                                         *)
Refuse ==
    /\ Reply(-1, <<>>)
    /\ UNCHANGED <<name, content, open, pos>>

(* A file that exists is opened at its end.                                *)
OpenAtEnd(n) == \E h \in Handle :
    /\ name[h] = n
    /\ open' = [open EXCEPT ![h] = TRUE]
    /\ pos' = [pos EXCEPT ![h] = Len(content[h])]
    /\ Reply(h, <<>>)
    /\ UNCHANGED <<name, content>>

(* A name that no file has gets a file of its own, which starts empty.     *)
Create(n) == \E h \in Handle :
    /\ \A g \in Handle : name[g] # n
    /\ name[h] = NoName
    /\ name' = [name EXCEPT ![h] = n]
    /\ content' = [content EXCEPT ![h] = <<>>]
    /\ open' = [open EXCEPT ![h] = TRUE]
    /\ Reply(h, <<>>)
    /\ UNCHANGED pos

(* Only a name that is not legal, and a new one when the table is full, is *)
(* refused.                                                                *)
Open(n) ==
    \/ n \in Name /\ (OpenAtEnd(n) \/ Create(n))
    \/ /\ n \in Name => \A h \in Handle : name[h] \notin {n, NoName}
       /\ Refuse

Close(h) ==
    \/ /\ open[h]
       /\ open' = [open EXCEPT ![h] = FALSE]
       /\ Reply(0, <<>>)
       /\ UNCHANGED <<name, content, pos>>
    \/ ~open[h] /\ Refuse

Seek(h, loc) ==
    /\ pos' = [pos EXCEPT ![h] = loc]
    /\ Reply(0, <<>>)
    /\ UNCHANGED <<name, content, open>>

(* A read returns the words of the file from the position on, as many as   *)
(* it asks for; it is refused when there are fewer.                        *)
Read(h, length) ==
    LET e == pos[h] + length IN
    \/ /\ open[h] /\ e <= Len(content[h])
       /\ Reply(length, SubSeq(content[h], pos[h] + 1, e))
       /\ pos' = [pos EXCEPT ![h] = e]
       /\ UNCHANGED <<name, content, open>>
    \/ (~open[h] \/ e > Len(content[h])) /\ Refuse

(* A write replaces the words from the position on and nothing else; the   *)
(* words between the old end and the position, if there are any, may be    *)
(* anything.  It may be refused, for want of blocks.                       *)
WriteDone(h, buf) ==
    LET e    == pos[h] + Len(buf)
        size == IF e > Len(content[h]) THEN e ELSE Len(content[h])
    IN  /\ open[h]
        /\ Len(content'[h]) = size
        /\ \A p \in pos[h] + 1 .. e : content'[h][p] = buf[p - pos[h]]
        /\ \A p \in 1 .. Len(content[h]) :
              p \notin pos[h] + 1 .. e => content'[h][p] = content[h][p]
        /\ \A g \in Handle \ {h} : content'[g] = content[g]
        /\ pos' = [pos EXCEPT ![h] = e]
        /\ Reply(Len(buf), <<>>)
        /\ UNCHANGED <<name, open>>

Write(h, buf) == WriteDone(h, buf) \/ Refuse

(* The size of a file.                                                     *)
Size(n) ==
    \/ /\ \E h \in Handle : name[h] = n /\ Reply(Len(content[h]), <<>>)
       /\ UNCHANGED <<name, content, open, pos>>
    \/ (\A h \in Handle : name[h] # n) /\ Refuse

(* One name of the listing: that of a file, none, or what is in front of   *)
(* the first.                                                              *)
List ==
    /\ ret'.val \in Nat
    /\ \E n \in {NoName, Unspec} \cup {name[h] : h \in Handle} : ret'.data = <<n>>
    /\ UNCHANGED <<name, content, open, pos>>

(* The file is gone; what it had open, and what the answer is, is open.    *)
Remove(n) ==
    /\ name' = [h \in Handle |-> IF name[h] = n THEN NoName ELSE name[h]]
    /\ \A h \in Handle : name[h] # n =>
        content'[h] = content[h] /\ open'[h] = open[h] /\ pos'[h] = pos[h]

(* mksfs leaves a store without files.                                     *)
Format ==
    /\ name' = [h \in Handle |-> NoName]
    /\ content' = [h \in Handle |-> <<>>]
    /\ open' = [h \in Handle |-> FALSE]
    /\ \/ UNCHANGED pos
       \/ pos' = [h \in Handle |-> 0]
    /\ Reply(0, <<>>)

Next ==
    \/ Format \/ List
    \/ \E n \in Name \cup {NoName, JunkName} : Open(n)
    \/ \E n \in Name : Size(n) \/ Remove(n)
    \/ \E h \in Handle :
        \/ Close(h)
        \/ \E loc \in SeekTo : Seek(h, loc)
        \/ \E length \in ReadLen : Read(h, length)
        \/ \E buf \in Buf : Write(h, buf)

Spec == Init /\ [][Next]_vars
==============================================================================
