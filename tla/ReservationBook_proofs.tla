----------------------- MODULE ReservationBook_proofs -----------------------
(***************************************************************************)
(* Theorems about the tables of Reservation, for any processes and tables  *)
(* and any number of kills and clearouts, when clearout is run only while  *)
(* no process is: a status is a snapshot, and the processes implement the  *)
(* one book of TableBook.                                                  *)
(***************************************************************************)
EXTENDS Reservation_proofs

Living == Proc \ killed

Request(c) == c.kind \in {"some", "specific"}

AsksFor(c) ==
    IF c.kind = "some" THEN TablesOf(c.section) ELSE {c.want} \cap TablesOf(c.section)

(* A request is under way from the prompt to the refusal or the copy.      *)
AskedInv ==
    /\ asked \in [Proc -> (SUBSET Table) \cup {None}]
    /\ \A p \in Proc :
          asked[p] = IF pc[p] \in {"wait", "work", "copy"} /\ Request(cmd[p])
                     THEN AsksFor(cmd[p]) ELSE None

(* What a process has read or written in its critical section still holds. *)
InitLooked(p) ==
    pc[p] = "work" /\ cmd[p].kind = "init" =>
        \A t \in Table : t < at[p] => table[t] = Empty

SomeLooked(p) ==
    pc[p] = "work" /\ cmd[p].kind = "some" =>
        /\ at[p] \in TablesOf(cmd[p].section)
        /\ \A t \in TablesOf(cmd[p].section) : t < at[p] => table[t] # Empty

SpecificLooked(p) ==
    pc[p] = "work" /\ cmd[p].kind = "specific" => at[p] = cmd[p].want

CopyLooked(p) ==
    pc[p] = "copy" =>
        Request(cmd[p]) /\ at[p] \in AsksFor(cmd[p]) /\ table[at[p]] = Empty

LookedInv ==
    \A p \in Living :
        InitLooked(p) /\ SomeLooked(p) /\ SpecificLooked(p) /\ CopyLooked(p)

(* While half a book is left by a killed initTables, every other process   *)
(* has its own initTables before it or waits for what the killed one held. *)
Fresh(q) ==
    \/ pc[q] \in {"off", "openA", "openB"}
    \/ cmd[q].kind = "init" /\ (pc[q] = "wait" \/ (pc[q] = "work" /\ at[q] = 1))

Stuck(q) ==
    /\ pc[q] \in {"ready", "wait"} /\ at[q] = 1
    /\ \E p \in killed : Clearing(p) /\ handle[p] = handle[q]

TornInv ==
    /\ \A q \in Proc : pc[q] = "ready" => at[q] = 1
    /\ torn => \A q \in Living : Fresh(q) \/ Stuck(q)

BookInv == IInv /\ OneGeneration /\ AskedInv /\ LookedInv /\ TornInv
-----------------------------------------------------------------------------
(* Who is in a critical section.                                           *)

LEMMA Exclusive ==
    ASSUME IInv, OneGeneration, NEW s \in Section,
           NEW p \in Living, NEW q \in Living, Holds(p, s), Holds(q, s)
    PROVE  p = q
<1>1. handle[p][s] = named[s] /\ handle[q][s] = named[s]
    BY HoldsOpened DEF OneGeneration, Living
<1> QED BY <1>1 DEF IInv, OneHolder, Living

(* At work a process holds the sections of its command.                    *)
LEMMA AtWork ==
    ASSUME TypeOK, NEW p \in Proc, pc[p] \in {"work", "copy"}
    PROVE  /\ cmd[p] \in Command /\ cmd[p].section \in Section
           /\ Holds(p, cmd[p].section)
           /\ cmd[p].kind \in {"init", "status"} => Holds(p, "A") /\ Holds(p, "B")
<1>1. cmd[p] \in Command /\ cmd[p].section \in Section
    BY CommandType DEF TypeOK
<1> QED BY <1>1 DEF Holds, Last, Section

LEMMA SectionsApart ==
    /\ \A s \in Section : TablesOf(s) \subseteq Table
    /\ \A r, s \in Section : r # s => TablesOf(r) \cap TablesOf(s) = {}
    /\ \A c \in Command : AsksFor(c) \subseteq TablesOf(c.section)
    /\ \A c \in Command : Request(c) => c.who \in Guest
BY BookAssumption DEF Section, TablesOf, Table, AsksFor, Command, Request

(* Whoever clears or shows the tables is alone with them.                  *)
LEMMA AloneAtWork ==
    ASSUME IInv, OneGeneration, NEW p \in Living, NEW q \in Living,
           pc[p] \in {"work", "copy"}, pc[q] \in {"work", "copy"},
           cmd[p].kind \in {"init", "status"}
    PROVE  p = q
<1>1. TypeOK /\ p \in Proc /\ q \in Proc
    BY DEF IInv, Living
<1>2. cmd[q].section \in Section /\ Holds(q, cmd[q].section)
    BY <1>1, AtWork
<1>3. Holds(p, "A") /\ Holds(p, "B")
    BY <1>1, AtWork
<1>4. Holds(p, cmd[q].section)
    BY <1>2, <1>3 DEF Section
<1> QED BY <1>2, <1>4, Exclusive

LEMMA SameSection ==
    ASSUME IInv, OneGeneration, NEW p \in Living, NEW q \in Living,
           pc[p] \in {"work", "copy"}, pc[q] \in {"work", "copy"},
           cmd[p].section = cmd[q].section
    PROVE  p = q
<1>1. TypeOK /\ p \in Proc /\ q \in Proc
    BY DEF IInv, Living
<1>2. /\ cmd[q].section \in Section
      /\ Holds(q, cmd[q].section) /\ Holds(p, cmd[q].section)
    BY <1>1, AtWork
<1> QED BY <1>2, Exclusive

(* Nobody works on tables that are being cleared, but who clears them.     *)
LEMMA NotBeingCleared ==
    ASSUME BookInv, NEW p \in Living, pc[p] \in {"work", "copy"},
           pc[p] = "copy" \/ cmd[p].kind # "init"
    PROVE  ~BeingCleared
<1>1. cmd[p].kind # "init"
    BY DEF BookInv, LookedInv, CopyLooked, Request
<1>2. ~torn
    BY <1>1 DEF BookInv, TornInv, Fresh, Stuck
<1>3. ASSUME NEW q \in Proc \ killed, Clearing(q) PROVE FALSE
    <2>1. q = p
        BY <1>3, AloneAtWork DEF BookInv, Clearing, Living
    <2> QED BY <1>1, <1>3, <2>1 DEF Clearing
<1> QED BY <1>2, <1>3 DEF BeingCleared
-----------------------------------------------------------------------------
(* What a step of p leaves alone.                                          *)

LEMMA OthersStay ==
    ASSUME TypeOK, NEW p \in Proc, Step(p) \/ User(p)
    PROVE  /\ p \in Living /\ killed' = killed
           /\ \A q \in Proc : q # p =>
                 pc'[q] = pc[q] /\ at'[q] = at[q] /\ cmd'[q] = cmd[q]
<1>1. p \in Living /\ killed' = killed
    BY DEF Step, User, Living
<1>2. \E l, k : Goto(p, l, k)
    BY DEF Step, User, start, exit, processCmd, open_A, open_B, sem_wait, sem_post,
           initTables, printTableInfo, reserveSpecificTable, reserveSomeTable,
           copy_name, Turn_down
<1>3. cmd' = cmd \/ \E c : cmd' = [cmd EXCEPT ![p] = c]
    BY DEF Step, User, start, exit, processCmd, open_A, open_B, sem_wait, sem_post,
           initTables, printTableInfo, reserveSpecificTable, reserveSomeTable,
           copy_name
<1> QED BY <1>1, <1>2, <1>3 DEF Goto, TypeOK

(* Only these steps write a table.                                         *)
LEMMA TableStays ==
    ASSUME NEW p \in Proc, Step(p) \/ User(p), ~initTables(p), ~copy_name(p)
    PROVE  table' = table
BY DEF Step, User, start, exit, processCmd, open_A, open_B, sem_wait, sem_post,
       printTableInfo, reserveSpecificTable, reserveSomeTable, Turn_down, memory

(* The turns a step of p can take, as seen by the invariants.              *)
LEMMA Turns ==
    ASSUME TypeOK, NEW p \in Proc, NEW l, NEW k, Goto(p, l, k)
    PROVE  pc'[p] = l /\ at'[p] = k
BY DEF Goto, TypeOK
-----------------------------------------------------------------------------
(* A request is under way from the prompt to its answer.                   *)

LEMMA NextAsked ==
    ASSUME TypeOK, AskedInv, NEW p \in Proc, Step(p) \/ User(p)
    PROVE  AskedInv'
<1> DEFINE Under(q) == pc[q] \in {"wait", "work", "copy"} /\ Request(cmd[q])
<1>1. \A q \in Proc : q # p =>
         pc'[q] = pc[q] /\ cmd'[q] = cmd[q]
    BY OthersStay
<1>2. asked[p] = IF Under(p) THEN AsksFor(cmd[p]) ELSE None
    BY DEF AskedInv
<1>3. ASSUME asked' = asked,
             \/ Under(p)' /\ Under(p) /\ cmd' = cmd
             \/ ~Under(p)' /\ ~Under(p)
      PROVE  AskedInv'
    <2>1. asked'[p] = IF Under(p)' THEN AsksFor(cmd'[p]) ELSE None
        BY <1>2, <1>3
    <2> HIDE DEF Under
    <2>2. ASSUME NEW q \in Proc
          PROVE  asked'[q] = IF pc'[q] \in {"wait", "work", "copy"} /\ Request(cmd'[q])
                             THEN AsksFor(cmd'[q]) ELSE None
        BY <1>1, <1>3, <2>1 DEF AskedInv, Under
    <2> QED BY <1>3, <2>2 DEF AskedInv
<1>4. ASSUME NEW T \in (SUBSET Table) \cup {None}, asked' = [asked EXCEPT ![p] = T],
             T = IF Under(p)' THEN AsksFor(cmd'[p]) ELSE None
      PROVE  AskedInv'
    <2>1. asked' \in [Proc -> (SUBSET Table) \cup {None}] /\ asked'[p] = T
        BY <1>4 DEF AskedInv
    <2> HIDE DEF Under
    <2>2. ASSUME NEW q \in Proc
          PROVE  asked'[q] = IF pc'[q] \in {"wait", "work", "copy"} /\ Request(cmd'[q])
                             THEN AsksFor(cmd'[q]) ELSE None
        BY <1>1, <1>4, <2>1 DEF AskedInv, Under
    <2> QED BY <2>1, <2>2 DEF AskedInv
<1>5. CASE start(p) \/ exit(p) \/ open_A(p)
    <2>1. pc'[p] \in {"off", "openA", "openB"} /\ pc[p] \in {"off", "openA", "ready"}
        BY <1>5, Turns DEF start, exit, open_A
    <2> QED BY <1>3, <1>5, <2>1 DEF start, exit, open_A, memory
<1>6. CASE open_B(p)
    <2>1. cmd'[p].kind = "init" /\ pc[p] = "openB"
        BY <1>6 DEF open_B, TypeOK, InitCommand
    <2> QED BY <1>3, <1>6, <2>1 DEF open_B, memory, Request
<1>7. CASE processCmd(p)
    <2>1. PICK c \in Command :
             /\ cmd' = [cmd EXCEPT ![p] = c]
             /\ asked' = [asked EXCEPT ![p] =
                   CASE c.kind = "some" -> TablesOf(c.section)
                     [] c.kind = "specific" -> {c.want} \cap TablesOf(c.section)
                     [] OTHER -> None]
        BY <1>7 DEF processCmd
    <2>2. pc'[p] = "wait" /\ cmd'[p] = c
        BY <1>7, <2>1, Turns DEF processCmd, TypeOK
    <2>3. asked' = [asked EXCEPT ![p] = IF Request(c) THEN AsksFor(c) ELSE None]
        BY <2>1 DEF Request, AsksFor
    <2>4. (IF Request(c) THEN AsksFor(c) ELSE None) \in (SUBSET Table) \cup {None}
        <3>1. c.section \in Section
            BY CommandType
        <3> QED BY <3>1, SectionsApart
    <2> QED BY <1>4, <2>2, <2>3, <2>4
<1>8. CASE sem_wait(p)
    <2>1. pc'[p] \in {"wait", "work"} /\ pc[p] = "wait" /\ cmd' = cmd
        BY <1>8, Turns DEF sem_wait
    <2> QED BY <1>3, <1>8, <2>1 DEF sem_wait, memory
<1>9. CASE sem_post(p)
    <2>1. pc'[p] \in {"post", "ready"} /\ pc[p] = "post"
        BY <1>9, Turns DEF sem_post
    <2> QED BY <1>3, <1>9, <2>1 DEF sem_post, memory
<1>10. CASE initTables(p) \/ printTableInfo(p)
    <2>1. ~Request(cmd[p]) /\ asked' = asked /\ cmd' = cmd
        BY <1>10 DEF initTables, printTableInfo, Request, memory
    <2> QED BY <1>3, <2>1
<1>11. ASSUME pc[p] \in {"work", "copy"}, Turn_down(p) PROVE AskedInv'
    <2>1. pc'[p] = "post"
        BY <1>11, Turns DEF Turn_down
    <2> QED BY <1>4, <1>11, <2>1 DEF Turn_down
<1>12. CASE reserveSpecificTable(p) \/ reserveSomeTable(p)
    <2>1. CASE Turn_down(p)
        BY <1>11, <1>12, <2>1 DEF reserveSpecificTable, reserveSomeTable
    <2>2. CASE ~Turn_down(p)
        <3>1. asked' = asked /\ cmd' = cmd /\ pc[p] = "work" /\ Request(cmd[p])
            BY <1>12, <2>2 DEF reserveSpecificTable, reserveSomeTable, memory, Request
        <3>2. pc'[p] \in {"work", "copy"}
            BY <1>12, <2>2, Turns DEF reserveSpecificTable, reserveSomeTable
        <3> QED BY <1>3, <3>1, <3>2
    <2> QED BY <2>1, <2>2
<1>13. CASE copy_name(p)
    <2>1. pc'[p] = "post"
        BY <1>13, Turns DEF copy_name
    <2> QED BY <1>4, <1>13, <2>1 DEF copy_name
<1> QED BY <1>5, <1>6, <1>7, <1>8, <1>9, <1>10, <1>12, <1>13 DEF Step, User
-----------------------------------------------------------------------------
(* What was read or written in a critical section still holds.             *)

(* A step of p leaves the tables of whoever else is at work alone.         *)
LEMMA TablesOfOthersStay ==
    ASSUME BookInv, NEW p \in Proc, Step(p) \/ User(p),
           NEW q \in Living, q # p, pc[q] \in {"work", "copy"}
    PROVE  /\ \A t \in TablesOf(cmd[q].section) : table'[t] = table[t]
           /\ cmd[q].kind = "init" => table' = table
<1>1. p \in Living /\ TypeOK /\ q \in Proc
    BY OthersStay DEF BookInv, IInv, Living
<1>2. CASE initTables(p)
    BY <1>1, <1>2, AloneAtWork DEF initTables, BookInv
<1>3. CASE copy_name(p)
    <2>1. pc[p] = "copy" /\ table' = [table EXCEPT ![at[p]] = cmd[p].who]
        BY <1>3 DEF copy_name
    <2>2. cmd[q].kind # "init"
        BY <1>1, <2>1, AloneAtWork DEF BookInv
    <2>3. cmd[p].section # cmd[q].section
        BY <1>1, <2>1, SameSection DEF BookInv
    <2>4. /\ cmd[p] \in Command
          /\ cmd[p].section \in Section /\ cmd[q].section \in Section
        BY <1>1, <2>1, AtWork
    <2>5. at[p] \in TablesOf(cmd[p].section)
        BY <1>1, <2>1, <2>4, SectionsApart DEF BookInv, LookedInv, CopyLooked
    <2>6. at[p] \notin TablesOf(cmd[q].section)
        BY <2>3, <2>4, <2>5, SectionsApart
    <2>7. \A t \in TablesOf(cmd[q].section) : t \in Table /\ t # at[p]
        BY <2>4, <2>6, SectionsApart
    <2> QED BY <1>1, <2>1, <2>2, <2>7 DEF TypeOK
<1>4. CASE ~initTables(p) /\ ~copy_name(p)
    BY <1>4, TableStays
<1> QED BY <1>2, <1>3, <1>4

LEMMA OthersLooked ==
    ASSUME BookInv, NEW p \in Proc, Step(p) \/ User(p), NEW q \in Living, q # p
    PROVE  (InitLooked(q) /\ SomeLooked(q) /\ SpecificLooked(q) /\ CopyLooked(q))'
<1>1. TypeOK /\ q \in Proc
    BY DEF BookInv, IInv, Living
<1>2. pc'[q] = pc[q] /\ at'[q] = at[q] /\ cmd'[q] = cmd[q]
    BY <1>1, OthersStay
<1>3. InitLooked(q) /\ SomeLooked(q) /\ SpecificLooked(q) /\ CopyLooked(q)
    BY DEF BookInv, LookedInv
<1>4. InitLooked(q)'
    BY <1>2, <1>3, TablesOfOthersStay DEF InitLooked
<1>5. SomeLooked(q)'
    BY <1>2, <1>3, TablesOfOthersStay DEF SomeLooked
<1>6. SpecificLooked(q)'
    BY <1>2, <1>3 DEF SpecificLooked
<1>7. CopyLooked(q)'
    <2> SUFFICES ASSUME pc[q] = "copy" PROVE CopyLooked(q)'
        BY <1>2 DEF CopyLooked
    <2>1. cmd[q] \in Command
        BY <1>1, AtWork
    <2>2. at[q] \in TablesOf(cmd[q].section)
        BY <1>3, <2>1, SectionsApart DEF CopyLooked
    <2>3. table'[at[q]] = table[at[q]]
        BY <2>2, TablesOfOthersStay
    <2> QED BY <1>2, <1>3, <2>3 DEF CopyLooked
<1> QED BY <1>4, <1>5, <1>6, <1>7

LEMMA OwnLooked ==
    ASSUME BookInv, NEW p \in Proc, Step(p) \/ User(p)
    PROVE  (InitLooked(p) /\ SomeLooked(p) /\ SpecificLooked(p) /\ CopyLooked(p))'
<1>1. TypeOK /\ p \in Living /\ at[p] \in Table /\ cmd[p] \in Command
    BY OthersStay DEF BookInv, IInv, TypeOK
<1>2. InitLooked(p) /\ SomeLooked(p) /\ SpecificLooked(p) /\ CopyLooked(p)
    BY <1>1 DEF BookInv, LookedInv
<1>3. ASSUME pc'[p] \notin {"work", "copy"}
      PROVE  (InitLooked(p) /\ SomeLooked(p) /\ SpecificLooked(p) /\ CopyLooked(p))'
    BY <1>3 DEF InitLooked, SomeLooked, SpecificLooked, CopyLooked
<1>4. CASE \/ start(p) \/ exit(p) \/ processCmd(p) \/ open_A(p) \/ open_B(p)
           \/ sem_post(p) \/ copy_name(p)
    <2>1. pc'[p] \in {"off", "openA", "openB", "wait", "post", "ready"}
        BY <1>1, <1>4, Turns DEF start, exit, processCmd, open_A, open_B, sem_post,
                                 copy_name
    <2> QED BY <1>3, <2>1
<1>5. CASE sem_wait(p)
    <2>1. CASE at[p] < Last(p)
        BY <1>1, <1>3, <1>5, <2>1, Turns DEF sem_wait
    <2>2. CASE ~(at[p] < Last(p))
        <3>1. pc'[p] = "work" /\ at'[p] = FirstTable(cmd[p]) /\ cmd' = cmd
            BY <1>1, <1>5, <2>2, Turns DEF sem_wait
        <3>2. InitLooked(p)'
            BY <3>1 DEF InitLooked, FirstTable, Table
        <3>3. SomeLooked(p)'
            <4> SUFFICES ASSUME cmd[p].kind = "some" PROVE SomeLooked(p)'
                BY <3>1 DEF SomeLooked
            <4>1. cmd[p].section \in Section
                BY <1>1, CommandType
            <4>2. /\ FirstTable(cmd[p]) \in TablesOf(cmd[p].section)
                  /\ \A t \in TablesOf(cmd[p].section) : ~(t < FirstTable(cmd[p]))
                BY <4>1, BookAssumption DEF FirstTable, TablesOf, Section
            <4> QED BY <3>1, <4>2 DEF SomeLooked
        <3>4. SpecificLooked(p)' /\ CopyLooked(p)'
            BY <3>1 DEF SpecificLooked, CopyLooked, FirstTable
        <3> QED BY <3>2, <3>3, <3>4
    <2> QED BY <2>1, <2>2
<1>6. CASE initTables(p)
    <2>1. CASE at[p] < NA + NB
        <3>1. /\ pc'[p] = "work" /\ at'[p] = at[p] + 1 /\ cmd' = cmd
              /\ cmd[p].kind = "init" /\ table' = [table EXCEPT ![at[p]] = Empty]
            BY <1>1, <1>6, <2>1, Turns DEF initTables
        <3>2. ASSUME NEW t \in Table, t < at[p] + 1 PROVE table'[t] = Empty
            <4>1. t = at[p] \/ t < at[p]
                BY <1>1, <3>2 DEF Table
            <4> QED BY <1>1, <1>2, <1>6, <3>1, <4>1 DEF TypeOK, InitLooked, initTables
        <3> QED BY <3>1, <3>2 DEF InitLooked, SomeLooked, SpecificLooked, CopyLooked
    <2>2. CASE ~(at[p] < NA + NB)
        BY <1>1, <1>3, <1>6, <2>2, Turns DEF initTables
    <2> QED BY <2>1, <2>2
<1>7. CASE printTableInfo(p)
    <2>1. cmd'[p].kind = "status" /\ pc'[p] # "copy"
        BY <1>1, <1>7, Turns DEF printTableInfo
    <2> QED BY <2>1 DEF InitLooked, SomeLooked, SpecificLooked, CopyLooked
<1>8. ASSUME Turn_down(p)
      PROVE  (InitLooked(p) /\ SomeLooked(p) /\ SpecificLooked(p) /\ CopyLooked(p))'
    BY <1>1, <1>3, <1>8, Turns DEF Turn_down
<1>9. CASE reserveSpecificTable(p) /\ ~Turn_down(p)
    <2>1. /\ pc[p] = "work" /\ cmd[p].kind = "specific" /\ cmd' = cmd /\ table' = table
          /\ at[p] \in TablesOf(cmd[p].section) /\ table[at[p]] = Empty
          /\ Goto(p, "copy", at[p])
        BY <1>9 DEF reserveSpecificTable, memory
    <2>2. pc'[p] = "copy" /\ at'[p] = at[p]
        BY <1>1, <2>1, Turns
    <2>3. at[p] = cmd[p].want
        BY <1>2, <2>1 DEF SpecificLooked
    <2> QED BY <2>1, <2>2, <2>3
            DEF InitLooked, SomeLooked, SpecificLooked, CopyLooked, AsksFor, Request
<1>10. CASE reserveSomeTable(p) /\ ~Turn_down(p)
    <2>1. /\ pc[p] = "work" /\ cmd[p].kind = "some" /\ cmd' = cmd /\ table' = table
          /\ cmd[p].section \in Section
        BY <1>1, <1>10, CommandType DEF reserveSomeTable, memory
    <2>2. CASE table[at[p]] = Empty /\ Goto(p, "copy", at[p])
        <3>1. pc'[p] = "copy" /\ at'[p] = at[p]
            BY <1>1, <2>2, Turns
        <3> QED BY <1>2, <2>1, <2>2, <3>1
                DEF InitLooked, SomeLooked, SpecificLooked, CopyLooked, AsksFor, Request
    <2>3. CASE /\ table[at[p]] # Empty /\ at[p] + 1 \in TablesOf(cmd[p].section)
               /\ Goto(p, "work", at[p] + 1)
        <3>1. pc'[p] = "work" /\ at'[p] = at[p] + 1
            BY <1>1, <2>3, Turns
        <3>2. ASSUME NEW t \in TablesOf(cmd[p].section), t < at[p] + 1
              PROVE  table[t] # Empty
            <4>1. t \in Table
                BY <2>1, SectionsApart
            <4>2. t = at[p] \/ t < at[p]
                BY <1>1, <3>2, <4>1 DEF Table
            <4> QED BY <1>2, <2>1, <2>3, <4>2 DEF SomeLooked
        <3> QED BY <2>1, <2>3, <3>1, <3>2
                DEF InitLooked, SomeLooked, SpecificLooked, CopyLooked
    <2> QED BY <1>10, <2>2, <2>3 DEF reserveSomeTable
<1> QED BY <1>4, <1>5, <1>6, <1>7, <1>8, <1>9, <1>10 DEF Step, User

LEMMA NextLooked ==
    ASSUME BookInv, NEW p \in Proc, Step(p) \/ User(p)
    PROVE  LookedInv'
<1>1. Living' = Living
    BY OthersStay DEF BookInv, IInv, Living
<1> QED BY <1>1, OthersLooked, OwnLooked DEF LookedInv
-----------------------------------------------------------------------------
(* Half a book stays hidden until the next initTables.                     *)

LEMMA HandleStays ==
    ASSUME TypeOK, NEW p \in Proc, Step(p) \/ User(p)
    PROVE  /\ \A q \in Proc : q # p => handle'[q] = handle[q]
           /\ ~open_A(p) /\ ~open_B(p) => handle' = handle
<1>1. CASE open_A(p) \/ open_B(p)
    <2>1. PICK s \in Section : sem_open(p, s)
        BY <1>1 DEF open_A, open_B, Section
    <2> QED BY <1>1, <2>1 DEF sem_open, TypeOK
<1>2. CASE ~open_A(p) /\ ~open_B(p)
    BY <1>2 DEF Step, User, start, exit, processCmd, sem_wait, sem_post, initTables,
        printTableInfo, reserveSpecificTable, reserveSomeTable, copy_name, sems
<1> QED BY <1>1, <1>2

(* What a killed process held is not to be had.                            *)
LEMMA StuckWaits ==
    ASSUME IInv, NEW p \in Proc, Stuck(p)
    PROVE  ~sem_wait(p)
<1> SUFFICES ASSUME sem_wait(p) PROVE FALSE
    OBVIOUS
<1>1. PICK r \in killed : Clearing(r) /\ handle[r] = handle[p]
    BY DEF Stuck
<1>2. r \in Proc /\ pc[r] = "work" /\ Holds(r, "A") /\ Holds(r, "B")
    <2>1. r \in Proc /\ pc[r] = "work" /\ cmd[r].kind = "init"
        BY <1>1 DEF IInv, TypeOK, Clearing
    <2> QED BY <2>1, AtWork DEF IInv
<1>3. pc[p] = "wait" /\ sem[Sem(p)][handle[p][Sem(p)]] > 0
    BY DEF sem_wait
<1>4. Sem(p) \in Section
    BY <1>3, SemType DEF IInv
<1>5. sem[Sem(p)][handle[r][Sem(p)]] = 0
    BY <1>2, <1>4 DEF IInv, OneHolder, Section
<1> QED BY <1>1, <1>3, <1>5

LEMMA NextTorn ==
    ASSUME BookInv, NEW p \in Proc, Step(p) \/ User(p)
    PROVE  TornInv'
<1>1. TypeOK /\ IInv
    BY DEF BookInv, IInv
<1>2. /\ p \in Living /\ killed' = killed
      /\ \A q \in Proc : q # p =>
            pc'[q] = pc[q] /\ at'[q] = at[q] /\ cmd'[q] = cmd[q]
    BY <1>1, OthersStay
<1>3. ASSUME NEW q \in Proc, pc'[q] = "ready" PROVE at'[q] = 1
    <2>1. CASE q # p
        BY <1>2, <1>3, <2>1 DEF BookInv, TornInv
    <2>2. CASE q = p
        <3>1. \/ sem_post(p) /\ Goto(p, "ready", 1)
              \/ \E l \in Label \ {"ready"} : \E k : Goto(p, l, k)
            BY DEF Step, User, start, exit, processCmd, open_A, open_B, sem_wait, sem_post,
                   initTables, printTableInfo, reserveSpecificTable, reserveSomeTable,
                   copy_name, Turn_down, Label
        <3> QED BY <1>1, <1>3, <2>2, <3>1, Turns DEF Label
    <2> QED BY <2>1, <2>2
<1>4. ASSUME torn', NEW q \in Living, q # p PROVE (Fresh(q) \/ Stuck(q))'
    <2>1. torn
        BY <1>4 DEF Step, User, initTables
    <2>2. q \in Proc /\ pc'[q] = pc[q] /\ at'[q] = at[q] /\ cmd'[q] = cmd[q]
        BY <1>2, <1>4 DEF Living
    <2>3. CASE Fresh(q)
        BY <2>2, <2>3 DEF Fresh
    <2>4. CASE Stuck(q)
        <3>1. PICK r \in killed : Clearing(r) /\ handle[r] = handle[q]
            BY <2>4 DEF Stuck
        <3>2. r \in Proc /\ r # p
            BY <1>1, <1>2 DEF TypeOK, Living
        <3>3. Clearing(r)' /\ handle'[r] = handle'[q]
            BY <1>1, <1>2, <1>4, <2>2, <3>1, <3>2, HandleStays DEF Clearing
        <3> QED BY <1>2, <2>2, <2>4, <3>3 DEF Stuck
    <2> QED BY <2>1, <2>3, <2>4 DEF BookInv, TornInv
<1>5. ASSUME torn' PROVE (Fresh(p) \/ Stuck(p))'
    <2>1. torn /\ ~initTables(p)
        BY <1>5 DEF Step, User, initTables
    <2>2. CASE Fresh(p)
        <3>1. CASE start(p) \/ open_A(p)
            <4>1. pc'[p] \in {"openA", "openB"}
                BY <1>1, <3>1, Turns DEF start, open_A
            <4> QED BY <4>1 DEF Fresh
        <3>2. CASE open_B(p)
            <4>1. pc'[p] = "wait" /\ cmd'[p].kind = "init"
                BY <1>1, <3>2, Turns DEF open_B, TypeOK, InitCommand
            <4> QED BY <4>1 DEF Fresh
        <3>3. CASE sem_wait(p)
            <4>1. cmd'[p].kind = "init" /\ cmd[p].kind = "init"
                BY <2>2, <3>3 DEF sem_wait, Fresh
            <4>2. pc'[p] = "wait" \/ (pc'[p] = "work" /\ at'[p] = 1)
                BY <1>1, <3>3, <4>1, Turns DEF sem_wait, FirstTable
            <4> QED BY <4>1, <4>2 DEF Fresh
        <3> QED BY <2>1, <2>2, <3>1, <3>2, <3>3
                DEF Fresh, Step, User, exit, processCmd, sem_post, printTableInfo,
                    reserveSpecificTable, reserveSomeTable, copy_name
    <2>3. CASE Stuck(p)
        <3>1. ~sem_wait(p)
            BY <1>1, <2>3, StuckWaits
        <3>2. CASE exit(p)
            <4>1. pc'[p] = "off"
                BY <1>1, <3>2, Turns DEF exit
            <4> QED BY <4>1 DEF Fresh
        <3>3. CASE processCmd(p)
            <4>1. pc'[p] = "wait" /\ at'[p] = 1
                BY <1>1, <3>3, Turns DEF processCmd
            <4>2. PICK r \in killed : Clearing(r) /\ handle[r] = handle[p]
                BY <2>3 DEF Stuck
            <4>3. r \in Proc /\ r # p
                BY <1>1, <1>2 DEF TypeOK, Living
            <4>4. handle' = handle
                BY <3>3 DEF processCmd, sems
            <4>5. Clearing(r)' /\ handle'[r] = handle'[p]
                BY <1>2, <4>2, <4>3, <4>4 DEF Clearing
            <4> QED BY <1>2, <4>1, <4>5 DEF Stuck
        <3> QED BY <2>1, <2>3, <3>1, <3>2, <3>3
                DEF Stuck, Step, User, start, open_A, open_B, sem_post, printTableInfo,
                    reserveSpecificTable, reserveSomeTable, copy_name
    <2> QED BY <1>2, <2>1, <2>2, <2>3 DEF BookInv, TornInv
<1>6. Living' = Living
    BY <1>2 DEF Living
<1> QED BY <1>3, <1>4, <1>5, <1>6 DEF TornInv

(* A process killed in initTables leaves nobody else at work.              *)
LEMMA KillTorn ==
    ASSUME BookInv, NEW p \in Proc, kill(p)
    PROVE  TornInv'
<1>1. /\ UNCHANGED <<pc, cmd, at, handle>> /\ p \in Living
      /\ killed' = killed \cup {p} /\ torn' = (torn \/ Clearing(p))
    BY DEF kill, control, sems, Living
<1>2. TypeOK /\ IInv /\ InPlace
    BY DEF BookInv, IInv
<1>3. ASSUME NEW q \in Living', torn PROVE (Fresh(q) \/ Stuck(q))'
    <2>1. q \in Living
        BY <1>1 DEF Living
    <2>2. Fresh(q) => Fresh(q)'
        BY <1>1 DEF Fresh
    <2>3. Stuck(q) => Stuck(q)'
        BY <1>1 DEF Stuck, Clearing
    <2> QED BY <1>3, <2>1, <2>2, <2>3 DEF BookInv, TornInv
<1>4. ASSUME NEW q \in Living', Clearing(p) PROVE (Fresh(q) \/ Stuck(q))'
    <2>1. q \in Living /\ q # p /\ q \in Proc /\ pc[q] \in Label
        BY <1>1, <1>2 DEF Living, TypeOK, Label
    <2>2. /\ pc[p] = "work" /\ cmd[p].kind = "init"
          /\ Holds(p, "A") /\ Holds(p, "B")
        BY <1>1, <1>2, <1>4, AtWork DEF Clearing
    <2>3. \A s \in Section : ~Holds(q, s)
        BY <1>1, <1>2, <2>1, <2>2, Exclusive DEF BookInv, Section
    <2>4. pc[q] \notin {"work", "copy", "post"}
        <3>1. pc[q] \notin {"work", "copy"}
            BY <1>1, <1>2, <2>1, <2>2, AloneAtWork DEF BookInv
        <3>2. ASSUME pc[q] = "post" PROVE FALSE
            BY <1>2, <2>1, <2>3, <3>2, PostHolds, SemType
        <3> QED BY <3>1, <3>2
    <2>5. CASE pc[q] \in {"off", "openA", "openB"}
        BY <1>1, <2>5 DEF Fresh
    <2>6. CASE pc[q] = "wait" /\ cmd[q].kind = "init"
        BY <1>1, <2>6 DEF Fresh
    <2>7. CASE pc[q] = "ready" \/ (pc[q] = "wait" /\ cmd[q].kind # "init")
        <3>1. at[q] = 1
            <4>1. CASE pc[q] = "ready"
                BY <2>1, <4>1 DEF BookInv, TornInv
            <4>2. CASE pc[q] = "wait"
                <5>1. at[q] \in 1 .. Last(q) /\ Last(q) \in {1, 2}
                    BY <1>2, <2>1, <4>2 DEF InPlace, Last
                <5>2. Last(q) = 2 => ~(at[q] > 1)
                    BY <2>3, <4>2 DEF Holds, Section
                <5> QED BY <5>1, <5>2
            <4> QED BY <2>7, <4>1, <4>2
        <3>2. handle[p] = handle[q]
            <4>1. \A s \in Section : Opened(p, s) /\ Opened(q, s)
                BY <2>2, <2>7 DEF Opened
            <4>2. \A s \in Section : handle[p][s] = handle[q][s]
                BY <1>1, <2>1, <4>1 DEF BookInv, OneGeneration, Living
            <4>3. /\ handle[p] \in [Section -> 0 .. MaxClear + 1]
                  /\ handle[q] \in [Section -> 0 .. MaxClear + 1]
                BY <1>2, <2>1 DEF TypeOK
            <4> QED BY <4>2, <4>3
        <3>3. Clearing(p)' /\ handle'[p] = handle'[q] /\ p \in killed'
            BY <1>1, <1>4, <3>2 DEF Clearing
        <3> QED BY <1>1, <2>7, <3>1, <3>3 DEF Stuck
    <2> QED BY <2>1, <2>4, <2>5, <2>6, <2>7 DEF Label
<1> QED BY <1>1, <1>3, <1>4 DEF BookInv, TornInv

(* kill and clearout leave the tables and what was read of them.           *)
LEMMA FaultsBook ==
    ASSUME BookInv,
           \/ \E p \in Proc : kill(p)
           \/ clearout_start \/ clearout_unlink \/ UNCHANGED vars
    PROVE  AskedInv' /\ LookedInv' /\ TornInv'
<1>1. UNCHANGED <<table, asked, pc, cmd, at, handle>>
    BY DEF kill, clearout_start, clearout_unlink, vars, memory, control, sems
<1>2. AskedInv'
    BY <1>1 DEF BookInv, AskedInv
<1>3. Living' \subseteq Living
    BY DEF kill, clearout_start, clearout_unlink, vars, Living
<1>4. LookedInv'
    BY <1>1, <1>3
       DEF BookInv, LookedInv, InitLooked, SomeLooked, SpecificLooked, CopyLooked
<1>5. ASSUME clearout_start \/ clearout_unlink \/ UNCHANGED vars PROVE TornInv'
    <2>1. killed' = killed /\ torn' = torn
        BY <1>5 DEF clearout_start, clearout_unlink, vars
    <2> QED BY <1>1, <2>1 DEF BookInv, TornInv, Living, Fresh, Stuck, Clearing
<1>6. ASSUME NEW p \in Proc, kill(p) PROVE TornInv'
    BY <1>6, KillTorn
<1>7. TornInv'
    BY <1>5, <1>6
<1> QED BY <1>2, <1>4, <1>7
-----------------------------------------------------------------------------
(* Theorems.                                                               *)

LEMMA InitBook == Init => AskedInv /\ LookedInv /\ TornInv
<1> SUFFICES ASSUME Init PROVE AskedInv /\ LookedInv /\ TornInv
    OBVIOUS
<1>1. AskedInv
    BY DEF Init, AskedInv
<1>2. LookedInv
    BY DEF Init, LookedInv, Living, InitLooked, SomeLooked, SpecificLooked, CopyLooked
<1>3. TornInv
    BY DEF Init, TornInv
<1> QED BY <1>1, <1>2, <1>3

LEMMA NextBook == ASSUME Alone PROVE BookInv /\ [Next]_vars => BookInv'
<1> SUFFICES ASSUME BookInv, [Next]_vars PROVE BookInv'
    OBVIOUS
<1>1. IInv' /\ OneGeneration'
    BY NextType, NextOneHolder, NextOneGeneration DEF BookInv, IInv
<1>2. ASSUME NEW p \in Proc, Step(p) \/ User(p)
      PROVE  AskedInv' /\ LookedInv' /\ TornInv'
    <2>1. AskedInv'
        BY <1>2, NextAsked DEF BookInv, IInv
    <2>2. LookedInv'
        BY <1>2, NextLooked
    <2>3. TornInv'
        BY <1>2, NextTorn
    <2> QED BY <2>1, <2>2, <2>3
<1>3. ASSUME \/ \E p \in Proc : kill(p)
             \/ clearout_start \/ clearout_unlink \/ UNCHANGED vars
      PROVE  AskedInv' /\ LookedInv' /\ TornInv'
    BY <1>3, FaultsBook
<1>4. AskedInv' /\ LookedInv' /\ TornInv'
    BY <1>2, <1>3 DEF Next
<1> QED BY <1>1, <1>4 DEF BookInv

THEOREM BookInvariant == ASSUME Alone PROVE Spec => []BookInv
<1>1. Init => BookInv
    BY InitLemma, InitBook DEF BookInv, IInv
<1>2. BookInv /\ [Next]_vars => BookInv'
    BY NextBook
<1> QED BY <1>1, <1>2, PTL DEF Spec

(* No step changes a table under a status command.                         *)
LEMMA StatusStep ==
    ASSUME BookInv, [Next]_vars, NEW p \in Proc, p \notin killed, pc[p] = "work",
           cmd[p].kind = "status"
    PROVE  table' = table
<1>1. ASSUME NEW q \in Proc, Step(q) \/ User(q) PROVE table' = table
    <2>1. p \in Living /\ q \in Living
        BY <1>1, OthersStay DEF BookInv, IInv, Living
    <2>2. ASSUME initTables(q) \/ copy_name(q) PROVE FALSE
        <3>1. pc[q] \in {"work", "copy"}
            BY <2>2 DEF initTables, copy_name
        <3>2. p = q
            BY <2>1, <3>1, AloneAtWork DEF BookInv
        <3> QED BY <2>2, <3>2 DEF initTables, copy_name
    <2> QED BY <1>1, <2>2, TableStays
<1>2. CASE \/ \E q \in Proc : kill(q)
           \/ clearout_start \/ clearout_unlink \/ UNCHANGED vars
    BY <1>2 DEF kill, clearout_start, clearout_unlink, vars, memory
<1> QED BY <1>1, <1>2 DEF Next

(* printTableInfo shows the tables as they are at one moment: it holds     *)
(* both semaphores of main.c while it reads them.                          *)
THEOREM StatusIsTrue == ASSUME Alone PROVE Spec => StatusIsASnapshot
<1>1. BookInv /\ [Next]_vars =>
         [\A p \in Proc :
             p \notin killed /\ pc[p] = "work" /\ cmd[p].kind = "status"
                => table' = table]_vars
    BY StatusStep
<1> QED BY <1>1, BookInvariant, PTL DEF Spec, StatusIsASnapshot
-----------------------------------------------------------------------------
(* One book.                                                               *)

(* The book others see.                                                    *)
Shown == [t \in Table |-> IF BeingCleared THEN Empty ELSE table[t]]

(* A step that neither begins nor ends a clearing of p.                    *)
LEMMA SameClearing ==
    ASSUME TypeOK, NEW p \in Proc, Step(p) \/ User(p),
           ~initTables(p), ~Clearing(p), ~Clearing(p)'
    PROVE  BeingCleared' = BeingCleared
<1>1. /\ killed' = killed
      /\ \A q \in Proc : q # p =>
            pc'[q] = pc[q] /\ at'[q] = at[q] /\ cmd'[q] = cmd[q]
    BY OthersStay
<1>2. \A q \in Proc : Clearing(q)' <=> Clearing(q)
    BY <1>1 DEF Clearing
<1>3. torn' = torn
    BY DEF Step, User
<1> QED BY <1>1, <1>2, <1>3 DEF BeingCleared

LEMMA NotClearing ==
    ASSUME TypeOK, NEW p \in Proc, Step(p) \/ User(p), ~initTables(p)
    PROVE  ~Clearing(p) /\ ~Clearing(p)'
<1>1. ~Clearing(p)
    BY DEF Clearing, Step, User, start, exit, processCmd, open_A, open_B, sem_wait,
           sem_post, printTableInfo, reserveSpecificTable, reserveSomeTable, copy_name
<1>2. CASE sem_wait(p)
    <2>1. cmd' = cmd
        BY <1>2 DEF sem_wait
    <2>2. pc'[p] = "wait" \/ (pc'[p] = "work" /\ at'[p] = FirstTable(cmd[p]))
        BY <1>2, Turns DEF sem_wait
    <2>3. cmd[p].kind = "init" => FirstTable(cmd[p]) = 1
        BY DEF FirstTable
    <2> QED BY <1>1, <2>1, <2>2, <2>3 DEF Clearing
<1>3. CASE \/ start(p) \/ exit(p) \/ processCmd(p) \/ open_A(p) \/ open_B(p)
           \/ sem_post(p) \/ copy_name(p)
    <2>1. pc'[p] \in {"off", "openA", "openB", "wait", "post", "ready"}
               /\ (pc'[p] = "work" => FALSE)
        BY <1>3, Turns DEF start, exit, processCmd, open_A, open_B, sem_post, copy_name
    <2> QED BY <1>1, <2>1 DEF Clearing
<1>4. CASE printTableInfo(p) \/ reserveSpecificTable(p) \/ reserveSomeTable(p)
    <2>1. cmd'[p] = cmd[p] /\ cmd[p].kind # "init"
        BY <1>4 DEF printTableInfo, reserveSpecificTable, reserveSomeTable
    <2> QED BY <1>1, <2>1 DEF Clearing
<1> QED BY <1>2, <1>3, <1>4 DEF Step, User

(* initTables shows as one clearing of the whole book, at every turn.      *)
LEMMA ClearStep ==
    ASSUME BookInv, NEW p \in Proc, Step(p), initTables(p)
    PROVE  Shown' = [t \in Table |-> Empty] /\ UNCHANGED <<asked, ans>>
<1>1. TypeOK /\ p \in Living /\ at[p] \in Table /\ killed' = killed
    BY OthersStay DEF BookInv, IInv, TypeOK
<1>2. /\ table' = [table EXCEPT ![at[p]] = Empty] /\ cmd' = cmd
      /\ pc[p] = "work" /\ cmd[p].kind = "init"
    BY DEF initTables
<1>3. CASE at[p] < NA + NB
    <2>1. pc'[p] = "work" /\ at'[p] = at[p] + 1
        BY <1>1, <1>3, Turns DEF initTables
    <2>2. at'[p] > 1
        BY <1>1, <2>1 DEF Table
    <2>3. Clearing(p)'
        BY <1>2, <2>1, <2>2 DEF Clearing
    <2>4. BeingCleared'
        BY <1>1, <2>3 DEF BeingCleared, Living
    <2> QED BY <2>4 DEF Shown, initTables
<1>4. CASE ~(at[p] < NA + NB)
    <2>1. ASSUME NEW t \in Table PROVE table'[t] = Empty
        <3>1. t = at[p] \/ t < at[p]
            BY <1>1, <1>4, BookAssumption DEF Table
        <3>2. t < at[p] => table[t] = Empty
            BY <1>1, <1>2 DEF BookInv, LookedInv, InitLooked
        <3> QED BY <1>1, <1>2, <3>1, <3>2 DEF TypeOK
    <2> QED BY <2>1 DEF Shown, initTables
<1> QED BY <1>3, <1>4

(* A reservation writes a table that is shown free.                        *)
LEMMA ReserveStep ==
    ASSUME BookInv, NEW p \in Proc, Step(p), copy_name(p)
    PROVE  \E t \in Table, g \in Guest :
              /\ asked[p] # None /\ t \in asked[p]
              /\ Shown[t] = Empty
              /\ Shown' = [Shown EXCEPT ![t] = g]
              /\ ans' = [ans EXCEPT ![p] = t]
              /\ asked' = [asked EXCEPT ![p] = None]
<1>1. TypeOK /\ p \in Living /\ at[p] \in Table
    BY OthersStay DEF BookInv, IInv, TypeOK
<1>2. /\ pc[p] = "copy" /\ table' = [table EXCEPT ![at[p]] = cmd[p].who]
      /\ ans' = [ans EXCEPT ![p] = at[p]]
      /\ asked' = [asked EXCEPT ![p] = None]
    BY DEF copy_name
<1>3. Request(cmd[p]) /\ at[p] \in AsksFor(cmd[p]) /\ table[at[p]] = Empty
    BY <1>1, <1>2 DEF BookInv, LookedInv, CopyLooked
<1>4. cmd[p] \in Command /\ cmd[p].section \in Section
    BY <1>1, <1>2, AtWork
<1>5. cmd[p].who \in Guest /\ AsksFor(cmd[p]) \subseteq Table
    BY <1>3, <1>4, SectionsApart
<1>6. asked[p] = AsksFor(cmd[p]) /\ asked[p] # None
    BY <1>2, <1>3, <1>5, BookAssumption DEF BookInv, AskedInv
<1>7. ~BeingCleared
    BY <1>1, <1>2, NotBeingCleared
<1>8. BeingCleared' = BeingCleared
    <2>1. ~initTables(p)
        BY <1>2 DEF initTables
    <2> QED BY <1>1, <2>1, NotClearing, SameClearing
<1>9. Shown = [t \in Table |-> table[t]] /\ Shown' = [t \in Table |-> table'[t]]
    BY <1>7, <1>8 DEF Shown
<1>10. Shown[at[p]] = Empty /\ Shown' = [Shown EXCEPT ![at[p]] = cmd[p].who]
    BY <1>1, <1>2, <1>3, <1>9 DEF TypeOK
<1> QED BY <1>1, <1>2, <1>3, <1>5, <1>6, <1>10

(* A request is turned down when none of its tables is shown free.         *)
LEMMA TurnDownStep ==
    ASSUME BookInv, NEW p \in Proc, Step(p),
           reserveSpecificTable(p) \/ reserveSomeTable(p), Turn_down(p),
           \/ cmd[p].kind = "specific"
                 /\ ~(at[p] \in TablesOf(cmd[p].section) /\ table[at[p]] = Empty)
           \/ cmd[p].kind = "some"
                 /\ table[at[p]] # Empty /\ at[p] + 1 \notin TablesOf(cmd[p].section)
    PROVE  /\ asked[p] # None
           /\ \A t \in asked[p] : Shown[t] # Empty
           /\ asked' = [asked EXCEPT ![p] = None]
           /\ UNCHANGED <<Shown, ans>>
<1>1. TypeOK /\ p \in Living /\ at[p] \in Table
    BY OthersStay DEF BookInv, IInv, TypeOK
<1>2. /\ pc[p] = "work" /\ Request(cmd[p]) /\ ~initTables(p) /\ ~copy_name(p)
      /\ cmd[p].kind # "init"
    BY DEF reserveSpecificTable, reserveSomeTable, Request, initTables, copy_name
<1>3. cmd[p] \in Command /\ cmd[p].section \in Section
    BY <1>1, <1>2, AtWork
<1>4. asked[p] = AsksFor(cmd[p]) /\ asked[p] # None /\ AsksFor(cmd[p]) \subseteq Table
    BY <1>2, <1>3, SectionsApart, BookAssumption DEF BookInv, AskedInv
<1>5. ~BeingCleared /\ BeingCleared' = BeingCleared /\ table' = table
    BY <1>1, <1>2, NotBeingCleared, NotClearing, SameClearing, TableStays
<1>6. \A t \in AsksFor(cmd[p]) : table[t] # Empty
    <2>1. CASE cmd[p].kind = "specific"
        <3>1. at[p] = cmd[p].want
            BY <1>1, <1>2, <2>1 DEF BookInv, LookedInv, SpecificLooked
        <3> QED BY <2>1, <3>1 DEF AsksFor
    <2>2. CASE cmd[p].kind = "some"
        <3>1. /\ at[p] \in TablesOf(cmd[p].section)
              /\ \A t \in TablesOf(cmd[p].section) : t < at[p] => table[t] # Empty
            BY <1>1, <1>2, <2>2 DEF BookInv, LookedInv, SomeLooked
        <3>2. \A t \in TablesOf(cmd[p].section) : t < at[p] \/ t = at[p]
            BY <1>3, <2>2, <3>1, BookAssumption DEF TablesOf, Section
        <3> QED BY <2>2, <3>1, <3>2 DEF AsksFor
    <2> QED BY <1>2, <2>1, <2>2 DEF Request
<1>7. Shown' = Shown
    BY <1>5 DEF Shown
<1>8. \A t \in asked[p] : Shown[t] # Empty
    BY <1>4, <1>5, <1>6 DEF Shown
<1> QED BY <1>4, <1>7, <1>8 DEF Turn_down

(* Every other step of a process leaves what is shown.                     *)
LEMMA QuietStep ==
    ASSUME BookInv, NEW p \in Proc, Step(p) \/ User(p),
           ~initTables(p), ~copy_name(p)
    PROVE  Shown' = Shown
<1>1. TypeOK
    BY DEF BookInv, IInv
<1>2. BeingCleared' = BeingCleared /\ table' = table
    BY <1>1, NotClearing, SameClearing, TableStays
<1> QED BY <1>2 DEF Shown

(* A request is taken down when no other of p is under way.                *)
LEMMA AskStep ==
    ASSUME BookInv, NEW p \in Proc, User(p), processCmd(p)
    PROVE  \/ UNCHANGED <<Shown, asked, ans>>
           \/ /\ asked[p] = None
              /\ \E T \in SUBSET Table : asked' = [asked EXCEPT ![p] = T]
              /\ ans' = [ans EXCEPT ![p] = None]
              /\ UNCHANGED Shown
<1>1. Shown' = Shown
    BY QuietStep DEF processCmd, initTables, copy_name
<1>2. PICK c \in Command :
         /\ asked' = [asked EXCEPT ![p] =
               CASE c.kind = "some" -> TablesOf(c.section)
                 [] c.kind = "specific" -> {c.want} \cap TablesOf(c.section)
                 [] OTHER -> None]
         /\ ans' = [ans EXCEPT ![p] =
               IF c.kind \in {"some", "specific"} THEN None ELSE @]
    BY DEF processCmd
<1>3. asked[p] = None
    BY DEF BookInv, AskedInv, processCmd
<1>4. CASE Request(c)
    <2>1. asked' = [asked EXCEPT ![p] = AsksFor(c)]
        BY <1>2, <1>4 DEF Request, AsksFor
    <2>2. AsksFor(c) \in SUBSET Table
        BY CommandType, SectionsApart
    <2>3. ans' = [ans EXCEPT ![p] = None]
        BY <1>2, <1>4 DEF Request
    <2> QED BY <1>1, <1>3, <2>1, <2>2, <2>3
<1>5. CASE ~Request(c)
    <2>1. asked' = [asked EXCEPT ![p] = None] /\ ans' = [ans EXCEPT ![p] = ans[p]]
        BY <1>2, <1>5 DEF Request
    <2>2. asked' = asked /\ ans' = ans
        BY <1>3, <2>1 DEF BookInv, AskedInv, IInv, TypeOK
    <2> QED BY <1>1, <2>2
<1> QED BY <1>4, <1>5

(* Each step of the processes is a step of the book or leaves it.          *)
LEMMA BookStep ==
    ASSUME BookInv, [Next]_vars
    PROVE  [Book!Next]_(Book!vars)
<1> DEFINE Quiet == UNCHANGED <<Shown, asked, ans>>
<1>1. Quiet => [Book!Next]_(Book!vars)
    BY DEF Book!vars, Shown
<1> HIDE DEF Quiet
<1>2. ASSUME NEW p \in Proc, Step(p), initTables(p) PROVE Book!Next
    BY <1>2, ClearStep DEF Book!Next, Book!Clear, Shown
<1>3. ASSUME NEW p \in Proc, Step(p), copy_name(p) PROVE Book!Next
    <2>1. Book!Reserve(p)
        BY <1>3, ReserveStep DEF Book!Reserve, Shown
    <2> QED BY <2>1 DEF Book!Next
<1>4. ASSUME NEW p \in Proc, User(p), processCmd(p) PROVE Quiet \/ Book!Next
    <2>1. Quiet \/ Book!Ask(p)
        BY <1>4, AskStep DEF Quiet, Book!Ask, Shown
    <2> QED BY <2>1 DEF Book!Next
<1>5. ASSUME NEW p \in Proc, Step(p), reserveSpecificTable(p) \/ reserveSomeTable(p)
      PROVE  Quiet \/ Book!Next
    <2>1. CASE UNCHANGED memory
        <3>1. Shown' = Shown
            BY <1>5, QuietStep DEF reserveSpecificTable, reserveSomeTable, initTables,
                                   copy_name
        <3> QED BY <2>1, <3>1 DEF Quiet, memory
    <2>2. CASE ~UNCHANGED memory
        <3>1. /\ asked[p] # None
              /\ \A t \in asked[p] : Shown[t] # Empty
              /\ asked' = [asked EXCEPT ![p] = None]
              /\ UNCHANGED <<Shown, ans>>
            BY <1>5, <2>2, TurnDownStep DEF reserveSpecificTable, reserveSomeTable
        <3>2. Book!TurnDown(p)
            BY <3>1 DEF Book!TurnDown, Shown
        <3> QED BY <3>2 DEF Book!Next
    <2> QED BY <2>1, <2>2
<1>6. ASSUME NEW p \in Proc, Step(p) \/ User(p),
             \/ start(p) \/ exit(p) \/ open_A(p) \/ open_B(p)
             \/ sem_wait(p) \/ sem_post(p) \/ printTableInfo(p)
      PROVE  Quiet
    <2>1. ~initTables(p) /\ ~copy_name(p) /\ UNCHANGED memory
        BY <1>6 DEF start, exit, open_A, open_B, sem_wait, sem_post, printTableInfo,
                    initTables, copy_name
    <2>2. Shown' = Shown
        BY <1>6, <2>1, QuietStep
    <2> QED BY <2>1, <2>2 DEF Quiet, memory
<1>7. ASSUME NEW p \in Proc, kill(p) PROVE Quiet
    <2>1. /\ UNCHANGED <<table, asked, ans, pc, cmd, at>>
          /\ p \in Proc \ killed
          /\ killed' = killed \cup {p} /\ torn' = (torn \/ Clearing(p))
        BY <1>7 DEF kill, memory, control
    <2>2. \A q \in Proc : Clearing(q)' <=> Clearing(q)
        BY <2>1 DEF Clearing
    <2>3. BeingCleared' <=> BeingCleared
        BY <2>1, <2>2 DEF BeingCleared
    <2> QED BY <2>1, <2>3 DEF Quiet, Shown
<1>8. ASSUME clearout_start \/ clearout_unlink \/ UNCHANGED vars PROVE Quiet
    <2>1. UNCHANGED <<table, asked, ans, pc, cmd, at, killed, torn>>
        BY <1>8 DEF clearout_start, clearout_unlink, vars, memory, control
    <2> QED BY <2>1 DEF Quiet, Shown, BeingCleared, Clearing
<1>9. Quiet \/ Book!Next
    <2>1. ASSUME NEW p \in Proc, Step(p) \/ User(p) PROVE Quiet \/ Book!Next
        BY <1>2, <1>3, <1>4, <1>5, <1>6, <2>1 DEF Step, User
    <2> QED BY <1>7, <1>8, <2>1 DEF Next
<1> QED BY <1>1, <1>9

(* The processes of main.c and clearout.c, killed ones among them, keep    *)
(* one book of tables: a reservation is made for a table that is free and  *)
(* stays until the book is cleared, a refusal is right when it is decided, *)
(* and nobody sees half an initTables.                                     *)
THEOREM ProcessesImplementTheBook ==
    ASSUME Alone PROVE Spec => ImplementsTableBook
<1>1. Init => Book!Init
    <2> SUFFICES ASSUME Init PROVE Book!Init
        OBVIOUS
    <2>1. ~BeingCleared
        BY DEF Init, BeingCleared, Clearing
    <2> QED BY <2>1 DEF Init, Book!Init
<1>2. BookInv /\ [Next]_vars => [Book!Next]_(Book!vars)
    BY BookStep
<1> QED BY <1>1, <1>2, BookInvariant, PTL DEF Spec, ImplementsTableBook, Book!Spec
=============================================================================
