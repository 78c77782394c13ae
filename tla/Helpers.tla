------------------------------- MODULE Helpers -------------------------------
(***************************************************************************)
(* Two loops of sfs_api.c that module SFS takes as one step each.  In      *)
(* bytes, block by block: write_helper and read_helper, which run the same *)
(* course.  Character by character: the check of a name in sfs_fopen.      *)
(***************************************************************************)
EXTENDS Integers, Sequences

CONSTANTS
    BLOCK,       \* bytes in a block (1024)
    MaxBytes,    \* bound: the longest transfer
    MAX_FILE_NAME,       \* characters in a name (20)
    MAX_EXTENSION_NAME,  \* characters in its extension (3)
    Char         \* characters of names, "." and NUL aside

NUL == "NUL"

ASSUME HelpersAssumption ==
    /\ BLOCK \in Nat \ {0}
    /\ MaxBytes \in Nat
    /\ MAX_FILE_NAME \in Nat /\ MAX_EXTENSION_NAME \in Nat
    /\ "." \notin Char /\ NUL \notin Char

VARIABLES
    at,        \* where the function stands, or how it ended
    numBytes,  \* how much is transferred,
    offset,    \* from where in the first block
    x,         \* the next entry of blockNums, that of the first block being 0
    looked,    \* the entry it has looked at last
    done,      \* how many bytes the code counts as transferred
    moved,     \* byte of the buffer -> the byte of the file it was paired with
    name,      \* the memory at name, its first MAX_FILE_NAME + 1 characters
    i,         \* the character the check is at
    periodptr, \* the last period it has found
    ext        \* characters from there on

transfer == <<numBytes, offset, x, looked, done, moved>>
check    == <<name, i, periodptr, ext>>
vars     == <<at, transfer, check>>

Min2(a, b) == IF a < b THEN a ELSE b

Memory == [0 .. MAX_FILE_NAME -> Char \cup {".", NUL}]

InitTransfer ==
    /\ at = "first"
    /\ numBytes \in 1 .. MaxBytes
    /\ offset \in 0 .. BLOCK - 1
    /\ name = [k \in 0 .. MAX_FILE_NAME |-> NUL]

InitCheck ==
    /\ at = "length"
    /\ numBytes = 1 /\ offset = 0
    /\ name \in Memory

Init ==
    /\ InitTransfer \/ InitCheck
    /\ x = 0 /\ looked = 0 /\ done = 0 /\ moved = <<>>
    /\ i = 0 /\ periodptr = -1 /\ ext = 0

-----------------------------------------------------------------------------
(* write_helper and read_helper.                                           *)

(* One access to the disk: n bytes of the buffer, from `done' on, against  *)
(* block b from byte o on.  (moved is a sequence: byte k of the buffer is  *)
(* its entry k + 1.)                                                       *)
Moves(b, o, n) ==
    /\ moved' = [k \in 1 .. done + n |->
                   IF k <= done THEN moved[k] ELSE b * BLOCK + o + (k - 1 - done)]
    /\ done' = done + n
    /\ looked' = b

(* Mutant: the rest of the first block is taken whatever the length.       *)
first_block_Whole ==
    /\ at = "first"
    /\ Moves(0, offset, BLOCK - offset)
    /\ x' = 1
    /\ at' = "whole"
    /\ UNCHANGED <<numBytes, offset, check>>

first_block ==
    /\ at = "first"
    /\ Moves(0, offset, Min2(numBytes, BLOCK - offset))
    /\ x' = 1
    /\ at' = "whole"
    /\ UNCHANGED <<numBytes, offset, check>>

(* Mutant: x stays where it is.                                            *)
whole_block_SameBlock ==
    /\ at = "whole"
    /\ \/ /\ BLOCK < numBytes - done
          /\ Moves(x, 0, BLOCK)
          /\ UNCHANGED <<x, at>>
       \/ /\ BLOCK >= numBytes - done
          /\ at' = "last"
          /\ UNCHANGED <<x, looked, done, moved>>
    /\ UNCHANGED <<numBytes, offset, check>>

whole_block ==
    /\ at = "whole"
    /\ \/ /\ BLOCK < numBytes - done
          /\ Moves(x, 0, BLOCK)
          /\ x' = x + 1
          /\ UNCHANGED at
       \/ /\ BLOCK >= numBytes - done
          /\ at' = "last"
          /\ UNCHANGED <<x, looked, done, moved>>
    /\ UNCHANGED <<numBytes, offset, check>>

(* Mutant: a last block of no bytes is not left out.                       *)
last_block_Always ==
    /\ at = "last"
    /\ Moves(x, 0, numBytes - done)
    /\ at' = "transferred"
    /\ UNCHANGED <<numBytes, offset, x, check>>

last_block ==
    /\ at = "last"
    /\ \/ numBytes - done > 0 /\ Moves(x, 0, numBytes - done)
       \/ numBytes - done <= 0 /\ UNCHANGED <<looked, done, moved>>
    /\ at' = "transferred"
    /\ UNCHANGED <<numBytes, offset, x, check>>

-----------------------------------------------------------------------------
(* The check of a name.                                                    *)

Ends(p) == name[p] = NUL /\ \A k \in 0 .. p - 1 : name[k] # NUL

(* strlen(name) < 21.                                                      *)
check_length ==
    /\ at = "length"
    /\ at' = IF \E p \in 0 .. MAX_FILE_NAME : Ends(p) THEN "period" ELSE "refused"
    /\ UNCHANGED <<transfer, check>>

(* The loop over 20 characters, whatever the length of the name.           *)
find_period ==
    /\ at = "period"
    /\ \/ /\ i < MAX_FILE_NAME
          /\ periodptr' = IF name[i] = "." THEN i ELSE periodptr
          /\ i' = i + 1
          /\ UNCHANGED at
       \/ /\ i = MAX_FILE_NAME
          /\ at' = IF periodptr = -1 THEN "refused" ELSE "extension"
          /\ i' = periodptr
          /\ UNCHANGED periodptr
    /\ UNCHANGED <<transfer, name, ext>>

(* Mutant: the period is not counted with its extension.                   *)
count_extension_OffByOne ==
    /\ at = "extension"
    /\ \/ /\ i < MAX_FILE_NAME /\ name[i] # NUL
          /\ ext' = ext + 1 /\ i' = i + 1
          /\ UNCHANGED at
       \/ /\ i = MAX_FILE_NAME \/ name[i] = NUL
          /\ at' = IF ext > MAX_EXTENSION_NAME THEN "refused" ELSE "accepted"
          /\ UNCHANGED <<i, ext>>
    /\ UNCHANGED <<transfer, name, periodptr>>

count_extension ==
    /\ at = "extension"
    /\ \/ /\ i < MAX_FILE_NAME /\ name[i] # NUL
          /\ ext' = ext + 1 /\ i' = i + 1
          /\ UNCHANGED at
       \/ /\ i = MAX_FILE_NAME \/ name[i] = NUL
          /\ at' = IF ext > MAX_EXTENSION_NAME + 1 THEN "refused" ELSE "accepted"
          /\ UNCHANGED <<i, ext>>
    /\ UNCHANGED <<transfer, name, periodptr>>

-----------------------------------------------------------------------------
Next ==
    \/ first_block \/ whole_block \/ last_block
    \/ check_length \/ find_period \/ count_extension

Spec == Init /\ [][Next]_vars

-----------------------------------------------------------------------------
(* Properties.                                                             *)

(* At every access to the disk, a crash behind any of them included, what  *)
(* was transferred is a prefix of the buffer, each byte of it paired with  *)
(* the byte of the file it belongs to; and in the end it is all of it.     *)
PrefixTransferred ==
    /\ done = Len(moved) /\ done <= numBytes
    /\ \A k \in 1 .. done : moved[k] = offset + k - 1
    /\ at = "transferred" => done = numBytes

(* No entry of blockNums is looked at but for a block that the transfer    *)
(* has bytes in: sfs_fwrite has set those, and only those, for certain.    *)
BlocksTouched == looked * BLOCK < offset + numBytes

(* A name of at most MAX_FILE_NAME characters with an extension of at most *)
(* MAX_EXTENSION_NAME behind its last period.                              *)
Legal ==
    \E p \in 0 .. MAX_FILE_NAME :
        /\ Ends(p)
        /\ \E d \in 0 .. p - 1 :
            /\ name[d] = "."
            /\ \A k \in d + 1 .. p - 1 : name[k] # "."
            /\ p - d - 1 <= MAX_EXTENSION_NAME

PeriodBehind ==
    \E p, d \in 0 .. MAX_FILE_NAME - 1 : Ends(p) /\ p < d /\ name[d] = "."

(* The check accepts the legal names and refuses all others, although it   *)
(* reads on behind the end of a name, as long as no period stands there:   *)
(* then a name without an extension may pass, or a legal one be refused.   *)
NamesAreJudged ==
    ~PeriodBehind =>
        /\ at = "accepted" => Legal
        /\ at = "refused" => ~Legal
=============================================================================
