---------------------------- MODULE Helpers_proofs ----------------------------
(***************************************************************************)
(* Theorems about Helpers: the loops of write_helper and read_helper for   *)
(* every length, offset and size of a block, and the check of a name for   *)
(* every content of the memory it reads.                                   *)
(***************************************************************************)
EXTENDS Helpers, TLAPS

(* What the loops of a transfer keep: the next block begins where the      *)
(* bytes that were moved end, unless they are all moved.                   *)
Moving ==
    /\ numBytes \in Nat \ {0} /\ offset \in 0 .. BLOCK - 1
    /\ x \in Nat /\ looked \in Nat /\ done \in Nat
    /\ moved \in Seq(Int)
    /\ at = "first" => x = 0 /\ done = 0 /\ moved = <<>>
    /\ at \in {"whole", "last"} => done = numBytes \/ x * BLOCK = offset + done
    /\ at = "last" => numBytes - done <= BLOCK

TransferInv == Moving /\ PrefixTransferred /\ BlocksTouched

(* One access that moves n bytes which lie where the buffer goes on keeps  *)
(* the prefix.                                                             *)
LEMMA MovesPrefix ==
    ASSUME Moving, PrefixTransferred,
           NEW b \in Nat, NEW o \in Nat, NEW n \in Nat,
           b * BLOCK + o = offset + done, done + n <= numBytes,
           Moves(b, o, n), UNCHANGED <<numBytes, offset>>
    PROVE  /\ done' \in Nat /\ moved' \in Seq(Int) /\ looked' = b
           /\ done' = done + n
           /\ done' = Len(moved') /\ done' <= numBytes'
           /\ \A k \in 1 .. done' : moved'[k] = offset' + k - 1
<1> DEFINE a == b * BLOCK + o
<1>1. a \in Int /\ a = offset + done
  BY HelpersAssumption DEF Moving
<1>2. moved' = [k \in 1 .. done + n |->
                  IF k <= done THEN moved[k] ELSE a + (k - 1 - done)]
  BY DEF Moves
<1> HIDE DEF a
<1>3. done \in Nat /\ moved \in Seq(Int) /\ Len(moved) = done /\ offset \in Int /\ numBytes \in Int
  BY HelpersAssumption DEF Moving, PrefixTransferred
<1>4. \A k \in 1 .. done + n : moved'[k] = offset + k - 1
  BY <1>1, <1>2, <1>3 DEF PrefixTransferred
<1>5. moved' \in [1 .. done + n -> Int]
  BY <1>1, <1>2, <1>3
<1>6. moved' \in Seq(Int) /\ Len(moved') = done + n
  BY <1>3, <1>5
<1> QED
  BY <1>3, <1>4, <1>6 DEF Moves

(* No step of a transfer breaks the invariant, and none of a check touches *)
(* it.                                                                     *)
LEMMA TransferStep == TransferInv /\ [Next]_vars => TransferInv'
<1> SUFFICES ASSUME TransferInv, [Next]_vars PROVE TransferInv'
  OBVIOUS
<1> USE HelpersAssumption
<1>a. Moving /\ PrefixTransferred /\ BlocksTouched
  BY DEF TransferInv
<1>t. /\ numBytes \in Nat \ {0} /\ offset \in 0 .. BLOCK - 1 /\ x \in Nat /\ done \in Nat
      /\ done <= numBytes
  BY <1>a DEF Moving, PrefixTransferred
<1>1. CASE first_block
  <2> DEFINE n == Min2(numBytes, BLOCK - offset)
  <2>1. n \in Nat /\ n \in 1 .. numBytes /\ n <= BLOCK - offset
        /\ (n = numBytes \/ n = BLOCK - offset)
    BY <1>t DEF Min2
  <2>2. x = 0 /\ done = 0 /\ x' = 1 /\ at' = "whole" /\ Moves(0, offset, n)
        /\ UNCHANGED <<numBytes, offset>>
    BY <1>1, <1>a DEF first_block, Moving
  <2> HIDE DEF n
  <2>3. 0 * BLOCK + offset = offset + done /\ done + n <= numBytes /\ offset \in Nat
    BY <1>t, <2>1, <2>2
  <2>4. /\ done' \in Nat /\ moved' \in Seq(Int) /\ looked' = 0 /\ done' = n
        /\ done' = Len(moved') /\ done' <= numBytes'
        /\ \A k \in 1 .. done' : moved'[k] = offset' + k - 1
    BY <1>a, <1>t, <2>1, <2>2, <2>3, MovesPrefix
  <2>5. done' = numBytes' \/ x' * BLOCK = offset' + done'
    BY <1>t, <2>1, <2>2, <2>4
  <2>6. looked' * BLOCK < offset' + numBytes'
    BY <1>t, <2>2, <2>4
  <2> QED
    BY <1>t, <2>2, <2>4, <2>5, <2>6 DEF TransferInv, Moving, PrefixTransferred, BlocksTouched
<1>2. CASE whole_block
  <2>0. at = "whole" /\ UNCHANGED <<numBytes, offset>>
    BY <1>2 DEF whole_block
  <2>1. CASE BLOCK < numBytes - done
    <3>1. x' = x + 1 /\ at' = at /\ Moves(x, 0, BLOCK)
      BY <1>2, <2>1, <1>t DEF whole_block
    <3>2. x * BLOCK = offset + done
      BY <1>a, <1>t, <2>0, <2>1 DEF Moving
    <3>3. x * BLOCK + 0 = offset + done /\ done + BLOCK <= numBytes
      BY <1>t, <2>1, <3>2
    <3>4. /\ done' \in Nat /\ moved' \in Seq(Int) /\ looked' = x /\ done' = done + BLOCK
          /\ done' = Len(moved') /\ done' <= numBytes'
          /\ \A k \in 1 .. done' : moved'[k] = offset' + k - 1
      BY <1>a, <1>t, <2>0, <3>1, <3>3, MovesPrefix
    <3>5. x' * BLOCK = x * BLOCK + BLOCK
      BY <1>t, <3>1
    <3>6. x' * BLOCK = offset' + done'
      <4>1. done' = done + BLOCK /\ offset' = offset
        BY <2>0, <3>4
      <4> QED
        BY ONLY <1>t, <3>2, <3>5, <4>1, HelpersAssumption
    <3>7. looked' * BLOCK < offset' + numBytes'
      BY <1>t, <2>0, <2>1, <3>2, <3>4
    <3> QED
      BY <1>t, <2>0, <3>1, <3>4, <3>6, <3>7
      DEF TransferInv, Moving, PrefixTransferred, BlocksTouched
  <2>2. CASE BLOCK >= numBytes - done
    <3>1. at' = "last" /\ UNCHANGED <<x, looked, done, moved>>
      BY <1>2, <2>2, <1>t DEF whole_block
    <3> QED
      BY <1>a, <1>t, <2>0, <2>2, <3>1
      DEF TransferInv, Moving, PrefixTransferred, BlocksTouched
  <2> QED
    BY <1>t, <2>1, <2>2
<1>3. CASE last_block
  <2>0. at = "last" /\ at' = "transferred" /\ UNCHANGED <<numBytes, offset, x>>
    BY <1>3 DEF last_block
  <2>1. CASE numBytes - done > 0
    <3>1. Moves(x, 0, numBytes - done)
      BY <1>3, <2>1, <1>t DEF last_block
    <3>2. x * BLOCK = offset + done /\ numBytes - done \in Nat
      BY <1>a, <1>t, <2>0, <2>1 DEF Moving
    <3>3. x * BLOCK + 0 = offset + done /\ done + (numBytes - done) <= numBytes
      BY <1>t, <3>2
    <3>4. /\ done' \in Nat /\ moved' \in Seq(Int) /\ looked' = x
          /\ done' = done + (numBytes - done)
          /\ done' = Len(moved') /\ done' <= numBytes'
          /\ \A k \in 1 .. done' : moved'[k] = offset' + k - 1
      BY <1>a, <1>t, <2>0, <3>1, <3>2, <3>3, MovesPrefix
    <3>5. looked' * BLOCK < offset' + numBytes' /\ done' = numBytes'
      BY <1>t, <2>0, <2>1, <3>2, <3>4
    <3> QED
      BY <1>t, <2>0, <3>4, <3>5 DEF TransferInv, Moving, PrefixTransferred, BlocksTouched
  <2>2. CASE numBytes - done <= 0
    <3>1. UNCHANGED <<looked, done, moved>> /\ done = numBytes
      BY <1>3, <2>2, <1>t DEF last_block
    <3> QED
      BY <1>a, <1>t, <2>0, <3>1 DEF TransferInv, Moving, PrefixTransferred, BlocksTouched
  <2> QED
    BY <1>t, <2>1, <2>2
<1>4. CASE check_length \/ find_period \/ count_extension
  <2>1. UNCHANGED transfer /\ at' \notin {"first", "whole", "last", "transferred"}
    BY <1>4 DEF check_length, find_period, count_extension
  <2> QED
    BY <1>a, <2>1 DEF TransferInv, Moving, PrefixTransferred, BlocksTouched, transfer
<1>5. CASE UNCHANGED vars
  BY <1>a, <1>5 DEF TransferInv, Moving, PrefixTransferred, BlocksTouched, vars, transfer
<1> QED
  BY <1>1, <1>2, <1>3, <1>4, <1>5 DEF Next

LEMMA TransferInvariant == Spec => []TransferInv
<1>1. Init => TransferInv
  BY HelpersAssumption
  DEF Init, InitTransfer, InitCheck, TransferInv, Moving, PrefixTransferred, BlocksTouched
<1> QED
  BY <1>1, TransferStep, PTL DEF Spec

(* What write_helper has written at any moment, and what read_helper has   *)
(* read, is a prefix of the buffer in its right place.                     *)
THEOREM TransferCorrect == Spec => []PrefixTransferred
<1>1. TransferInv => PrefixTransferred
  BY DEF TransferInv
<1> QED
  BY <1>1, TransferInvariant, PTL

(* No entry of blockNums is looked at but for bytes of the transfer.       *)
THEOREM BlocksCorrect == Spec => []BlocksTouched
<1>1. TransferInv => BlocksTouched
  BY DEF TransferInv
<1> QED
  BY <1>1, TransferInvariant, PTL

-----------------------------------------------------------------------------
(* The check of a name.                                                    *)

(* d is the last period among the first n characters.                      *)
LastPeriod(d, n) ==
    /\ d \in 0 .. n - 1 /\ name[d] = "."
    /\ \A k \in d + 1 .. n - 1 : name[k] # "."

(* What the two loops have found.                                          *)
Checking ==
    /\ name \in Memory
    /\ at \in {"period", "extension"} => \E p \in 0 .. MAX_FILE_NAME : Ends(p)
    /\ at = "length" => i = 0 /\ periodptr = -1 /\ ext = 0
    /\ at = "period" =>
          /\ ext = 0
          /\ i \in 0 .. MAX_FILE_NAME
          /\ \/ periodptr = -1 /\ \A k \in 0 .. i - 1 : name[k] # "."
             \/ LastPeriod(periodptr, i)
    /\ at = "extension" =>
          /\ LastPeriod(periodptr, MAX_FILE_NAME)
          /\ i \in periodptr .. MAX_FILE_NAME /\ ext = i - periodptr
          /\ \A k \in periodptr .. i - 1 : name[k] # NUL

CheckInv == Checking /\ NamesAreJudged

(* A name has one end.                                                     *)
LEMMA OneEnd ==
    ASSUME NEW p \in 0 .. MAX_FILE_NAME, NEW q \in 0 .. MAX_FILE_NAME, Ends(p), Ends(q)
    PROVE  p = q
BY HelpersAssumption DEF Ends

(* No step of a check breaks the invariant.                                *)
LEMMA CheckStep == CheckInv /\ [Next]_vars => CheckInv'
<1> SUFFICES ASSUME CheckInv, [Next]_vars PROVE CheckInv'
  OBVIOUS
<1> USE HelpersAssumption
<1>a. Checking /\ NamesAreJudged
  BY DEF CheckInv
<1>1. CASE first_block \/ whole_block \/ last_block
  <2>1. UNCHANGED check /\ at \in {"first", "whole", "last"}
        /\ at' \in {"whole", "last", "transferred"}
    BY <1>1 DEF first_block, whole_block, last_block
  <2> QED
    BY <2>1, <1>a DEF CheckInv, Checking, NamesAreJudged, check
<1>2. CASE check_length
  <2>1. CASE \E p \in 0 .. MAX_FILE_NAME : Ends(p)
    BY <2>1, <1>2, <1>a DEF check_length, CheckInv, Checking, NamesAreJudged, check, Ends
  <2>2. CASE ~ \E p \in 0 .. MAX_FILE_NAME : Ends(p)
    <3>1. at' = "refused" /\ UNCHANGED name
      BY <2>2, <1>2 DEF check_length, check
    <3>2. ~Legal'
      BY <2>2, <3>1 DEF Legal, Ends
    <3> QED
      BY <3>1, <3>2, <1>a DEF CheckInv, Checking, NamesAreJudged
  <2> QED
    BY <2>1, <2>2
<1>3. CASE find_period
  <2>0. /\ at = "period" /\ UNCHANGED <<name, ext>> /\ name \in Memory
        /\ i \in 0 .. MAX_FILE_NAME /\ ext = 0
        /\ \E p \in 0 .. MAX_FILE_NAME : Ends(p)
        /\ \/ periodptr = -1 /\ \A k \in 0 .. i - 1 : name[k] # "."
           \/ LastPeriod(periodptr, i)
    BY <1>3, <1>a DEF find_period, Checking
  <2>1. CASE i < MAX_FILE_NAME
    <3>1. /\ periodptr' = IF name[i] = "." THEN i ELSE periodptr
          /\ i' = i + 1 /\ at' = "period"
      BY <1>3, <2>0, <2>1 DEF find_period
    <3>2. \/ periodptr' = -1 /\ \A k \in 0 .. i' - 1 : name'[k] # "."
          \/ LastPeriod(periodptr, i)'
      <4>1. CASE name[i] = "."
        BY <4>1, <3>1, <2>0, <2>1 DEF LastPeriod
      <4>2. CASE name[i] # "."
        BY <4>2, <3>1, <2>0, <2>1 DEF LastPeriod
      <4> QED
        BY <4>1, <4>2
    <3>3. \E p \in 0 .. MAX_FILE_NAME : Ends(p)'
      BY <2>0 DEF Ends
    <3>4. i' \in 0 .. MAX_FILE_NAME /\ ext' = 0 /\ name' \in Memory
      BY <2>0, <2>1, <3>1
    <3> QED
      BY <3>1, <3>2, <3>3, <3>4 DEF CheckInv, Checking, NamesAreJudged
  <2>2. CASE i = MAX_FILE_NAME /\ periodptr = -1
    <3>1. at' = "refused"
      BY <1>3, <2>0, <2>2 DEF find_period
    <3>2. ~Legal'
      BY <2>0, <2>2 DEF Legal, Ends, LastPeriod
    <3> QED
      BY <2>0, <3>1, <3>2 DEF CheckInv, Checking, NamesAreJudged
  <2>3. CASE i = MAX_FILE_NAME /\ periodptr # -1
    <3>1. at' = "extension" /\ i' = periodptr /\ periodptr' = periodptr
      BY <1>3, <2>0, <2>3 DEF find_period
    <3>2. LastPeriod(periodptr, MAX_FILE_NAME)
      BY <2>0, <2>3
    <3>3. \E p \in 0 .. MAX_FILE_NAME : Ends(p)'
      BY <2>0 DEF Ends
    <3>4. LastPeriod(periodptr, MAX_FILE_NAME)'
      BY <2>0, <3>1, <3>2 DEF LastPeriod
    <3>5. /\ i' \in periodptr' .. MAX_FILE_NAME /\ ext' = i' - periodptr'
          /\ \A k \in periodptr' .. i' - 1 : name'[k] # NUL
      BY <2>0, <3>1, <3>2 DEF LastPeriod
    <3> QED
      BY <2>0, <3>1, <3>3, <3>4, <3>5 DEF CheckInv, Checking, NamesAreJudged
  <2> QED
    BY <2>0, <2>1, <2>2, <2>3
<1>4. CASE count_extension
  <2>0. /\ at = "extension" /\ UNCHANGED <<name, periodptr>> /\ name \in Memory
        /\ LastPeriod(periodptr, MAX_FILE_NAME)
        /\ i \in periodptr .. MAX_FILE_NAME /\ ext = i - periodptr
        /\ \A k \in periodptr .. i - 1 : name[k] # NUL
    BY <1>4, <1>a DEF count_extension, Checking
  <2>t. periodptr \in 0 .. MAX_FILE_NAME - 1 /\ i \in 0 .. MAX_FILE_NAME /\ ext \in Nat
    BY <2>0 DEF LastPeriod
  <2>1. CASE i < MAX_FILE_NAME /\ name[i] # NUL
    <3>1. ext' = ext + 1 /\ i' = i + 1 /\ at' = "extension"
      BY <1>4, <2>0, <2>1 DEF count_extension
    <3>2. \E p \in 0 .. MAX_FILE_NAME : Ends(p)'
      BY <2>0, <1>a DEF Ends, Checking
    <3>3. LastPeriod(periodptr, MAX_FILE_NAME)'
      BY <2>0 DEF LastPeriod
    <3>4. /\ i' \in periodptr' .. MAX_FILE_NAME /\ ext' = i' - periodptr'
          /\ \A k \in periodptr' .. i' - 1 : name'[k] # NUL
      BY <2>0, <2>t, <2>1, <3>1
    <3> QED
      BY <2>0, <3>1, <3>2, <3>3, <3>4 DEF CheckInv, Checking, NamesAreJudged
  <2>2. CASE i = MAX_FILE_NAME \/ name[i] = NUL
    <3>1. at' = IF ext > MAX_EXTENSION_NAME + 1 THEN "refused" ELSE "accepted"
      BY <1>4, <2>0, <2>t, <2>2 DEF count_extension
    <3>2. PICK p \in 0 .. MAX_FILE_NAME : Ends(p)
      BY <2>0, <1>a DEF Checking
    <3>3. (Legal' <=> Legal) /\ (PeriodBehind' <=> PeriodBehind)
      BY <2>0 DEF Legal, PeriodBehind, Ends
    <3>4. SUFFICES ASSUME ~PeriodBehind PROVE ext <= MAX_EXTENSION_NAME + 1 <=> Legal
      BY <2>0, <2>t, <3>1, <3>3 DEF CheckInv, Checking, NamesAreJudged
    <3>5. periodptr < p
      <4>1. periodptr # p
        BY <2>0, <2>t, <3>2 DEF LastPeriod, Ends, NUL
      <4>2. ~(p < periodptr)
        BY <2>0, <2>t, <3>2, <3>4 DEF PeriodBehind, LastPeriod
      <4> QED
        BY <4>1, <4>2, <2>t
    <3>6. i = p
      BY <2>0, <2>t, <2>2, <3>2, <3>5 DEF Ends
    <3>7. CASE ext <= MAX_EXTENSION_NAME + 1
      <4>1. /\ periodptr \in 0 .. p - 1 /\ name[periodptr] = "."
            /\ \A k \in periodptr + 1 .. p - 1 : name[k] # "."
            /\ p - periodptr - 1 <= MAX_EXTENSION_NAME
        BY <2>0, <2>t, <3>5, <3>6, <3>7 DEF LastPeriod
      <4> QED
        BY <3>2, <3>7, <4>1 DEF Legal
    <3>8. CASE ext > MAX_EXTENSION_NAME + 1
      <4> SUFFICES ASSUME NEW q \in 0 .. MAX_FILE_NAME, Ends(q), NEW d \in 0 .. q - 1,
                          name[d] = ".", \A k \in d + 1 .. q - 1 : name[k] # ".",
                          q - d - 1 <= MAX_EXTENSION_NAME
                   PROVE  FALSE
        BY <2>t, <3>8 DEF Legal
      <4>1. q = p
        BY <3>2, OneEnd
      <4>2. d = periodptr
        BY <2>0, <2>t, <3>2, <3>5, <4>1 DEF LastPeriod
      <4> QED
        BY <2>0, <2>t, <3>6, <3>8, <4>1, <4>2
    <3> QED
      BY <2>t, <3>7, <3>8
  <2> QED
    BY <2>t, <2>1, <2>2
<1>5. CASE UNCHANGED vars
  BY <1>5, <1>a DEF CheckInv, Checking, NamesAreJudged, LastPeriod, Ends, Legal, PeriodBehind,
                    vars, check
<1> QED
  BY <1>1, <1>2, <1>3, <1>4, <1>5 DEF Next

(* The check of sfs_fopen is right about every name, unless it finds a     *)
(* period behind the end of the name.                                      *)
THEOREM NamesCorrect == Spec => []NamesAreJudged
<1>1. Init => CheckInv
  <2> SUFFICES ASSUME Init PROVE CheckInv
    OBVIOUS
  <2>1. name \in Memory
    BY HelpersAssumption DEF Init, InitTransfer, InitCheck, Memory
  <2> QED
    BY <2>1 DEF Init, InitTransfer, InitCheck, CheckInv, Checking, NamesAreJudged
<1>2. CheckInv => NamesAreJudged
  BY DEF CheckInv
<1> QED
  BY <1>1, <1>2, CheckStep, PTL DEF Spec
=============================================================================
