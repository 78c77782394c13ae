------------------------- MODULE Reservation_proofs -------------------------
(***************************************************************************)
(* Theorems about Reservation, for any processes and tables and any number *)
(* of kills and clearouts: a semaphore is held by one process at a time,   *)
(* and, when clearout is run only while no process runs, so is a section.  *)
(***************************************************************************)
EXTENDS Reservation, TLAPS

(* The semaphores a process has opened.                                    *)
Opened(p, s) ==
    pc[p] \notin {"off", "openA"} /\ (s = "B" => pc[p] # "openB")

(* Indices and handles lead where the next semaphore call expects them.    *)
InPlace ==
    /\ \A p \in Proc : pc[p] \in {"wait", "post"} => at[p] \in 1 .. Last(p)
    /\ \A p \in Proc, s \in Section : Opened(p, s) => handle[p][s] \in Gen

(* A semaphore that is held is 0, and one process holds it.                *)
OneHolder ==
    \A p \in Proc, s \in Section : Holds(p, s) =>
        /\ sem[s][handle[p][s]] = 0
        /\ \A q \in Proc : Holds(q, s) /\ handle[q][s] = handle[p][s] => q = p

(* A clearout meets no living process, so the living ones have opened the  *)
(* semaphores the names lead to.                                           *)
OneGeneration ==
    /\ clear # "off" => \A p \in Proc \ killed : pc[p] = "off"
    /\ \A p \in Proc \ killed, s \in Section : Opened(p, s) => handle[p][s] = named[s]
-----------------------------------------------------------------------------
(* Types.                                                                  *)

Label == {"off", "openA", "openB", "ready", "wait", "work", "copy", "post"}

LEMMA CommandType ==
    /\ InitCommand \in Command
    /\ \A c \in Command : FirstTable(c) \in Table
    /\ \A c \in Command : c.section \in Section /\ c.who \in Guest \cup {Empty}
    /\ 1 \in Table /\ 2 \in Table
BY BookAssumption DEF Command, InitCommand, FirstTable, Table, Section

LEMMA GotoType ==
    ASSUME TypeOK, NEW p \in Proc, NEW l \in Label, NEW i \in Table, Goto(p, l, i)
    PROVE  pc' \in [Proc -> Label] /\ at' \in [Proc -> Table]
BY DEF TypeOK, Goto, Label

LEMMA InitLemma == Init => TypeOK /\ InPlace /\ OneHolder /\ OneGeneration
<1> SUFFICES ASSUME Init PROVE TypeOK /\ InPlace /\ OneHolder /\ OneGeneration
    OBVIOUS
<1>1. /\ table \in [Table -> Guest \cup {Empty, Blank}]
      /\ sem \in [Section -> [Gen -> {0, 1}]]
      /\ pc \in [Proc -> Label]
      /\ at \in [Proc -> Table] /\ cmd \in [Proc -> Command]
    BY CommandType DEF Init, Label
<1>2. /\ made \in [Section -> 0 .. MaxClear + 1]
      /\ named \in [Section -> 0 .. MaxClear + 1]
      /\ handle \in [Proc -> [Section -> 0 .. MaxClear + 1]]
      /\ clears \in 0 .. MaxClear
    BY BookAssumption DEF Init
<1>3. TypeOK
    BY <1>1, <1>2 DEF Init, TypeOK, Label
<1>4. InPlace /\ OneGeneration
    BY DEF Init, InPlace, OneGeneration, Opened
<1>5. OneHolder
    BY DEF Init, OneHolder, Holds
<1> QED BY <1>3, <1>4, <1>5

(* sem_open leaves a process with a semaphore that exists.                 *)
LEMMA OpenType ==
    ASSUME TypeOK, NEW p \in Proc, NEW s \in Section, sem_open(p, s)
    PROVE  /\ named' \in [Section -> 0 .. MaxClear + 1]
           /\ made' \in [Section -> 0 .. MaxClear + 1]
           /\ handle' \in [Proc -> [Section -> 0 .. MaxClear + 1]]
           /\ handle'[p][s] \in Gen /\ handle'[p][s] = named'[s]
           /\ \A q \in Proc, r \in Section :
                 q # p \/ r # s => handle'[q][r] = handle[q][r]
           /\ \A r \in Section : r # s => named'[r] = named[r]
           /\ named[s] # 0 => named'[s] = named[s]
<1> DEFINE g == IF named[s] # 0 THEN named[s] ELSE made[s] + 1
<1>1. /\ g \in Gen /\ g \in 0 .. MaxClear + 1
      /\ named' = [named EXCEPT ![s] = g]
      /\ made' = [made EXCEPT ![s] = IF named[s] # 0 THEN @ ELSE g]
      /\ handle' = [handle EXCEPT ![p][s] = g]
    BY BookAssumption DEF sem_open, Gen
<1>2. named[s] # 0 => g = named[s]
    OBVIOUS
<1> HIDE DEF g
<1>3. handle' = [handle EXCEPT ![p] = [handle[p] EXCEPT ![s] = g]]
    BY <1>1
<1>4. /\ named' \in [Section -> 0 .. MaxClear + 1]
      /\ named'[s] = g
      /\ \A r \in Section : r # s => named'[r] = named[r]
    BY <1>1 DEF TypeOK
<1>5. made' \in [Section -> 0 .. MaxClear + 1]
    BY <1>1 DEF TypeOK
<1>6. handle' \in [Proc -> [Section -> 0 .. MaxClear + 1]]
    <2>1. [handle[p] EXCEPT ![s] = g] \in [Section -> 0 .. MaxClear + 1]
        BY <1>1 DEF TypeOK
    <2> QED BY <1>3, <2>1 DEF TypeOK
<1>8. handle'[p][s] = g
    BY <1>3 DEF TypeOK
<1>7. \A q \in Proc, r \in Section :
         q # p \/ r # s => handle'[q][r] = handle[q][r]
    BY <1>3 DEF TypeOK
<1> QED BY <1>1, <1>2, <1>4, <1>5, <1>6, <1>7, <1>8

(* A semaphore call of p finds a semaphore that p has opened.              *)
LEMMA SemType ==
    ASSUME TypeOK, InPlace, NEW p \in Proc, pc[p] \in {"wait", "post"}
    PROVE  Sem(p) \in Section /\ handle[p][Sem(p)] \in Gen /\ at[p] \in {1, 2}
<1>1. cmd[p] \in Command /\ cmd[p].section \in Section
    BY CommandType DEF TypeOK
<1>2. at[p] \in {1, 2} /\ (Last(p) = 1 => at[p] = 1)
    BY DEF InPlace, Last
<1>3. Sem(p) \in Section
    BY <1>1, <1>2 DEF Sem, Needs, Section, Last
<1>4. Opened(p, Sem(p))
    BY DEF Opened
<1> QED BY <1>2, <1>3, <1>4 DEF InPlace

(* A process at a sem_post holds the semaphore it gives back.              *)
LEMMA PostHolds ==
    ASSUME TypeOK, InPlace, NEW p \in Proc, pc[p] = "post"
    PROVE  Holds(p, Sem(p))
<1>1. at[p] \in 1 .. Last(p)
    BY DEF InPlace
<1>2. CASE Last(p) = 2
    <2>1. Sem(p) = IF at[p] = 1 THEN "A" ELSE "B"
        BY <1>1, <1>2 DEF Sem, Needs, Last
    <2> QED BY <1>1, <1>2, <2>1 DEF Holds
<1>3. CASE Last(p) = 1
    <2>1. Sem(p) = cmd[p].section /\ at[p] = 1
        BY <1>1, <1>3 DEF Sem, Needs, Last
    <2> QED BY <1>3, <2>1 DEF Holds
<1> QED BY <1>2, <1>3 DEF Last

(* The work of a critical section leaves the semaphores alone.             *)
LEMMA WorkInPlace ==
    ASSUME TypeOK, InPlace, NEW p \in Proc, NEW l \in {"work", "copy", "post"}, NEW k,
           pc[p] \in {"work", "copy"}, Goto(p, l, k), l = "post" => k = 1,
           UNCHANGED <<sems, cmd>>
    PROVE  InPlace'
<1>1. Last(p)' \in {1, 2}
    BY DEF Last
<1>2. \A q \in Proc : Last(q)' = Last(q)
    BY DEF Last
<1>3. \A q \in Proc : pc'[q] \in {"wait", "post"} => at'[q] \in 1 .. Last(q)'
    <2>1. ASSUME NEW q \in Proc, q # p
          PROVE  pc'[q] = pc[q] /\ at'[q] = at[q]
        BY <2>1 DEF Goto, TypeOK
    <2>2. pc'[p] = l /\ at'[p] = k
        BY DEF Goto, TypeOK
    <2>3. 1 \in 1 .. Last(p)'
        BY <1>1
    <2> QED BY <1>2, <2>1, <2>2, <2>3 DEF InPlace
<1>4. \A q \in Proc, s \in Section : Opened(q, s)' => Opened(q, s)
    BY DEF Opened, Goto, TypeOK
<1> QED BY <1>3, <1>4 DEF InPlace, sems, Section, Gen

(* Each action keeps the types and leaves indices and handles in place.    *)
LEMMA NextType ==
    ASSUME TypeOK, InPlace, OneHolder, [Next]_vars
    PROVE  TypeOK' /\ InPlace'
<1>1. ASSUME NEW p \in Proc, start(p) \/ exit(p), killed' = killed, torn' = torn
      PROVE  TypeOK' /\ InPlace'
    <2>1. PICK l \in {"off", "openA"} : Goto(p, l, 1)
        BY <1>1 DEF start, exit
    <2>2. pc' \in [Proc -> Label] /\ at' \in [Proc -> Table]
        BY <2>1, GotoType, CommandType DEF Label
    <2>3. UNCHANGED <<memory, sems, cmd, clearer>>
        BY <1>1 DEF start, exit
    <2>4. TypeOK'
        BY <1>1, <2>2, <2>3 DEF TypeOK, Label, memory, sems, clearer
    <2>5. InPlace'
        BY <2>1, <2>3 DEF InPlace, Opened, Goto, TypeOK, Last, sems
    <2> QED BY <2>4, <2>5
<1>2. ASSUME NEW p \in Proc, open_A(p), killed' = killed, torn' = torn
      PROVE  TypeOK' /\ InPlace'
    <2>1. Goto(p, "openB", 1) /\ sem_open(p, "A") /\ "A" \in Section
        BY <1>2 DEF open_A, Section
    <2>2. pc' \in [Proc -> Label] /\ at' \in [Proc -> Table]
        BY <2>1, GotoType, CommandType DEF Label
    <2>3. UNCHANGED <<memory, cmd, clearer, sem>>
        BY <1>2 DEF open_A, sem_open
    <2>4. TypeOK'
        BY <1>2, <2>1, <2>2, <2>3, OpenType DEF TypeOK, Label, memory, clearer
    <2>5. \A q \in Proc : pc'[q] \in {"wait", "post"} => at'[q] \in 1 .. Last(q)'
        BY <2>1, <2>3 DEF InPlace, Goto, TypeOK, Last
    <2>6. \A q \in Proc, s \in Section : Opened(q, s)' => handle'[q][s] \in Gen
        BY <2>1, OpenType DEF InPlace, Opened, Goto, TypeOK, Section
    <2> QED BY <2>4, <2>5, <2>6 DEF InPlace, Section, Gen
<1>3. ASSUME NEW p \in Proc, open_B(p), killed' = killed, torn' = torn
      PROVE  TypeOK' /\ InPlace'
    <2>1. /\ Goto(p, "wait", 1) /\ sem_open(p, "B") /\ "B" \in Section
          /\ cmd' = [cmd EXCEPT ![p] = InitCommand] /\ pc[p] = "openB"
        BY <1>3 DEF open_B, Section
    <2>2. pc' \in [Proc -> Label] /\ at' \in [Proc -> Table]
        BY <2>1, GotoType, CommandType DEF Label
    <2>3. UNCHANGED <<memory, clearer, sem>>
        BY <1>3 DEF open_B, sem_open
    <2>4. cmd' \in [Proc -> Command]
        BY <2>1, CommandType DEF TypeOK
    <2>5. TypeOK'
        BY <1>3, <2>1, <2>2, <2>3, <2>4, OpenType DEF TypeOK, Label, memory, clearer
    <2>6. \A q \in Proc : pc'[q] \in {"wait", "post"} => at'[q] \in 1 .. Last(q)'
        <3>1. at'[p] = 1 /\ 1 \in 1 .. Last(p)'
            <4>1. at'[p] = 1
                BY <2>1 DEF Goto, TypeOK
            <4>2. Last(p)' \in {1, 2}
                BY DEF Last
            <4> QED BY <4>1, <4>2
        <3>2. ASSUME NEW q \in Proc, q # p
              PROVE  pc'[q] = pc[q] /\ at'[q] = at[q] /\ Last(q)' = Last(q)
            BY <2>1, <3>2 DEF Goto, TypeOK, Last
        <3> QED BY <3>1, <3>2 DEF InPlace
    <2>7. \A q \in Proc, s \in Section : Opened(q, s)' => handle'[q][s] \in Gen
        BY <2>1, OpenType DEF InPlace, Opened, Goto, TypeOK, Section
    <2> QED BY <2>5, <2>6, <2>7 DEF InPlace, Section, Gen
<1>4. ASSUME NEW p \in Proc, processCmd(p), killed' = killed, torn' = torn
      PROVE  TypeOK' /\ InPlace'
    <2>1. PICK c \in Command : cmd' = [cmd EXCEPT ![p] = c]
        BY <1>4 DEF processCmd
    <2>2. pc[p] = "ready" /\ Goto(p, "wait", 1) /\ UNCHANGED <<table, sems, clearer>>
        BY <1>4 DEF processCmd
    <2>3. pc' \in [Proc -> Label] /\ at' \in [Proc -> Table]
        BY <2>2, GotoType, CommandType DEF Label
    <2>4. ans' \in [Proc -> Table \cup {None}]
        BY <1>4 DEF processCmd, TypeOK
    <2>5. TypeOK'
        BY <1>4, <2>1, <2>2, <2>3, <2>4 DEF TypeOK, Label, sems, clearer
    <2>6. InPlace'
        <3>1. at'[p] = 1 /\ 1 \in 1 .. Last(p)'
            <4>1. at'[p] = 1
                BY <2>2 DEF Goto, TypeOK
            <4>2. Last(p)' \in {1, 2}
                BY DEF Last
            <4> QED BY <4>1, <4>2
        <3>2. ASSUME NEW q \in Proc, q # p
              PROVE  pc'[q] = pc[q] /\ at'[q] = at[q] /\ Last(q)' = Last(q)
            BY <2>1, <2>2, <3>2 DEF Goto, TypeOK, Last
        <3>3. \A q \in Proc : pc'[q] \in {"wait", "post"} => at'[q] \in 1 .. Last(q)'
            BY <3>1, <3>2 DEF InPlace
        <3>4. \A q \in Proc, s \in Section : Opened(q, s)' => Opened(q, s)
            BY <2>2 DEF Opened, Goto, TypeOK
        <3> QED BY <2>2, <3>3, <3>4 DEF InPlace, sems, Section, Gen
    <2> QED BY <2>5, <2>6
<1>5. ASSUME NEW p \in Proc, sem_wait(p), killed' = killed, torn' = torn
      PROVE  TypeOK' /\ InPlace'
    <2> DEFINE s == Sem(p)
               g == handle[p][s]
    <2>0. pc[p] = "wait" /\ sem[s][g] > 0
        BY <1>5 DEF sem_wait
    <2>1. /\ s \in Section /\ g \in Gen
          /\ at[p] \in 1 .. Last(p) /\ Last(p) \in {1, 2}
        BY <2>0, SemType DEF InPlace, Last
    <2>2. UNCHANGED <<memory, made, named, handle, cmd, clearer>>
        BY <1>5 DEF sem_wait
    <2>3. sem' = [sem EXCEPT ![s] = [sem[s] EXCEPT ![g] = sem[s][g] - 1]]
        BY <1>5 DEF sem_wait
    <2>4. PICK l \in {"wait", "work"}, k \in Table :
             Goto(p, l, k) /\ (l = "wait" => k \in 1 .. Last(p))
        <3>1. CASE at[p] < Last(p)
            <4>1. at[p] + 1 \in Table /\ at[p] + 1 \in 1 .. Last(p)
                BY <2>1, <3>1, CommandType
            <4>2. Goto(p, "wait", at[p] + 1)
                BY <1>5, <3>1 DEF sem_wait
            <4> QED BY <4>1, <4>2
        <3>2. CASE ~(at[p] < Last(p))
            <4>1. FirstTable(cmd[p]) \in Table
                BY CommandType DEF TypeOK
            <4>2. Goto(p, "work", FirstTable(cmd[p]))
                BY <1>5, <3>2 DEF sem_wait
            <4> QED BY <4>1, <4>2
        <3> QED BY <3>1, <3>2
    <2>5. pc' \in [Proc -> Label] /\ at' \in [Proc -> Table]
        BY <2>4, GotoType DEF Label
    <2>6. sem' \in [Section -> [Gen -> {0, 1}]]
        <3>1. sem[s][g] \in {0, 1} /\ sem[s] \in [Gen -> {0, 1}]
            BY <2>1 DEF TypeOK
        <3>2. [sem[s] EXCEPT ![g] = sem[s][g] - 1] \in [Gen -> {0, 1}]
            <4>1. sem[s][g] - 1 \in {0, 1}
                BY <2>0, <3>1
            <4> HIDE DEF g, s
            <4> QED BY <3>1, <4>1
        <3> HIDE DEF g, s
        <3> QED BY <2>3, <3>2 DEF TypeOK
    <2>7. TypeOK'
        BY <1>5, <2>2, <2>5, <2>6 DEF TypeOK, Label, memory, clearer
    <2>8. InPlace'
        BY <2>0, <2>2, <2>4 DEF InPlace, Opened, Goto, TypeOK, Last, Section
    <2> QED BY <2>7, <2>8
<1>6. ASSUME NEW p \in Proc, sem_post(p), killed' = killed, torn' = torn
      PROVE  TypeOK' /\ InPlace'
    <2> DEFINE s == Sem(p)
               g == handle[p][s]
    <2>0. pc[p] = "post"
        BY <1>6 DEF sem_post
    <2>1. /\ s \in Section /\ g \in Gen
          /\ at[p] \in 1 .. Last(p) /\ Last(p) \in {1, 2}
          /\ sem[s][g] = 0
        BY <2>0, SemType, PostHolds DEF InPlace, Last, OneHolder
    <2>2. UNCHANGED <<memory, made, named, handle, clearer>>
        BY <1>6 DEF sem_post
    <2>3. sem' = [sem EXCEPT ![s] = [sem[s] EXCEPT ![g] = sem[s][g] + 1]]
        BY <1>6 DEF sem_post
    <2>4. PICK l \in {"post", "ready"}, k \in Table :
             /\ Goto(p, l, k) /\ (l = "post" => k \in 1 .. Last(p))
             /\ cmd' = cmd \/ (l = "ready" /\ cmd' = [cmd EXCEPT ![p] = InitCommand])
        <3>1. CASE at[p] < Last(p) /\ Goto(p, "post", at[p] + 1) /\ UNCHANGED cmd
            <4>1. at[p] + 1 \in Table /\ at[p] + 1 \in 1 .. Last(p)
                BY <2>1, <3>1, CommandType
            <4> QED BY <3>1, <4>1
        <3>2. CASE Goto(p, "ready", 1) /\ cmd' = [cmd EXCEPT ![p] = InitCommand]
            BY <3>2, CommandType
        <3> QED BY <1>6, <3>1, <3>2 DEF sem_post
    <2>5. pc' \in [Proc -> Label] /\ at' \in [Proc -> Table]
        BY <2>4, GotoType DEF Label
    <2>6. sem' \in [Section -> [Gen -> {0, 1}]]
        <3> HIDE DEF g, s
        <3>1. sem[s] \in [Gen -> {0, 1}]
            BY <2>1 DEF TypeOK
        <3>2. [sem[s] EXCEPT ![g] = sem[s][g] + 1] \in [Gen -> {0, 1}]
            <4>1. sem[s][g] + 1 \in {0, 1}
                BY <2>1
            <4> QED BY <3>1, <4>1
        <3> QED BY <2>3, <3>2 DEF TypeOK
    <2>7. cmd' \in [Proc -> Command]
        BY <2>4, CommandType DEF TypeOK
    <2>8. TypeOK'
        BY <1>6, <2>2, <2>5, <2>6, <2>7 DEF TypeOK, Label, memory, clearer
    <2>9. \A q \in Proc : pc'[q] \in {"wait", "post"} => at'[q] \in 1 .. Last(q)'
        BY <2>4 DEF InPlace, Goto, TypeOK, Last
    <2>10. \A q \in Proc, r \in Section : Opened(q, r)' => Opened(q, r)
        BY <2>0, <2>4 DEF Opened, Goto, TypeOK
    <2> QED BY <2>2, <2>8, <2>9, <2>10 DEF InPlace, Section, Gen
<1>7. ASSUME NEW p \in Proc, initTables(p) \/ printTableInfo(p), killed' = killed,
             torn' \in BOOLEAN
      PROVE  TypeOK' /\ InPlace'
    <2>1. at[p] \in Table
        BY DEF TypeOK
    <2>2. PICK l \in {"work", "post"}, k \in Table :
             Goto(p, l, k) /\ (l = "post" => k = 1)
        <3>1. CASE at[p] < NA + NB
            <4>1. at[p] + 1 \in Table
                BY <2>1, <3>1, BookAssumption DEF Table
            <4>2. Goto(p, "work", at[p] + 1)
                BY <1>7, <3>1 DEF initTables, printTableInfo
            <4> QED BY <4>1, <4>2
        <3>2. CASE ~(at[p] < NA + NB)
            <4>1. Goto(p, "post", 1)
                BY <1>7, <3>2 DEF initTables, printTableInfo
            <4> QED BY <4>1, CommandType
        <3> QED BY <3>1, <3>2
    <2>3. /\ pc[p] = "work" /\ UNCHANGED <<asked, ans, sems, cmd, clearer>>
          /\ table' = table \/ table' = [table EXCEPT ![at[p]] = Empty]
        BY <1>7 DEF initTables, printTableInfo, memory
    <2>4. pc' \in [Proc -> Label] /\ at' \in [Proc -> Table]
        BY <2>2, GotoType DEF Label
    <2>5. table' \in [Table -> Guest \cup {Empty, Blank}]
        BY <2>1, <2>3 DEF TypeOK
    <2>6. TypeOK'
        BY <1>7, <2>3, <2>4, <2>5 DEF TypeOK, Label, sems, clearer
    <2> QED BY <2>2, <2>3, <2>6, WorkInPlace
<1>8. ASSUME NEW p \in Proc, reserveSpecificTable(p) \/ reserveSomeTable(p),
             killed' = killed, torn' = torn
      PROVE  TypeOK' /\ InPlace'
    <2>1. at[p] \in Table /\ cmd[p].section \in Section
        BY CommandType DEF TypeOK
    <2>2. TablesOf(cmd[p].section) \subseteq Table
        BY <2>1, BookAssumption DEF TablesOf, Table, Section
    <2>3. PICK l \in {"work", "copy", "post"}, k \in Table :
             Goto(p, l, k) /\ (l = "post" => k = 1)
        BY <1>8, <2>1, <2>2, CommandType
           DEF reserveSpecificTable, reserveSomeTable, Turn_down
    <2>4. pc[p] = "work" /\ UNCHANGED <<table, ans, sems, cmd, clearer>>
        BY <1>8 DEF reserveSpecificTable, reserveSomeTable, Turn_down, memory
    <2>5. pc' \in [Proc -> Label] /\ at' \in [Proc -> Table]
        BY <2>3, GotoType DEF Label
    <2>6. TypeOK'
        BY <1>8, <2>4, <2>5 DEF TypeOK, Label, sems, clearer
    <2> QED BY <2>3, <2>4, <2>6, WorkInPlace
<1>9. ASSUME NEW p \in Proc, copy_name(p), killed' = killed, torn' = torn
      PROVE  TypeOK' /\ InPlace'
    <2>1. at[p] \in Table /\ cmd[p].who \in Guest \cup {Empty}
        BY CommandType DEF TypeOK
    <2>2. pc[p] = "copy" /\ Goto(p, "post", 1) /\ UNCHANGED <<sems, cmd, clearer>>
        BY <1>9 DEF copy_name
    <2>3. pc' \in [Proc -> Label] /\ at' \in [Proc -> Table]
        BY <2>2, GotoType, CommandType DEF Label
    <2>4. /\ table' \in [Table -> Guest \cup {Empty, Blank}]
          /\ ans' \in [Proc -> Table \cup {None}]
        BY <1>9, <2>1 DEF copy_name, TypeOK
    <2>5. TypeOK'
        BY <1>9, <2>2, <2>3, <2>4 DEF TypeOK, Label, sems, clearer
    <2> QED BY <2>2, <2>5, WorkInPlace
<1>10. ASSUME NEW p \in Proc, kill(p) PROVE TypeOK' /\ InPlace'
    <2>1. torn' \in BOOLEAN /\ killed' \subseteq Proc
        BY <1>10 DEF kill, TypeOK
    <2>2. UNCHANGED <<memory, sems, control, clearer>>
        BY <1>10 DEF kill
    <2> QED BY <2>1, <2>2
            DEF TypeOK, InPlace, Opened, Last, memory, sems, control, clearer
<1>11. CASE clearout_start
    <2>1. clear' \in {"off", "A", "B"} /\ clears' \in 0 .. MaxClear
        <3>1. clears < MaxClear /\ clears' = clears + 1 /\ clear' = "A"
            BY <1>11 DEF clearout_start
        <3>2. clears \in 0 .. MaxClear
            BY DEF TypeOK
        <3> QED BY <3>1, <3>2, BookAssumption
    <2>2. UNCHANGED <<memory, sems, control, killed, torn>>
        BY <1>11 DEF clearout_start
    <2> QED BY <2>1, <2>2 DEF TypeOK, InPlace, Opened, Last, memory, sems, control
<1>12. CASE clearout_unlink
    <2>1. clear' \in {"off", "A", "B"}
        BY <1>12 DEF clearout_unlink
    <2>3. named' \in [Section -> 0 .. MaxClear + 1]
        <3>1. named' = [named EXCEPT ![clear] = 0] /\ 0 \in 0 .. MaxClear + 1
            BY <1>12, BookAssumption DEF clearout_unlink
        <3> QED BY <3>1 DEF TypeOK
    <2>2. UNCHANGED <<memory, sem, made, handle, control, killed, torn, clears>>
        BY <1>12 DEF clearout_unlink
    <2> QED BY <2>1, <2>2, <2>3 DEF TypeOK, InPlace, Opened, Last, memory, control
<1>13. CASE UNCHANGED vars
    BY <1>13 DEF TypeOK, InPlace, Opened, Last, vars, memory, sems, control, clearer
<1>14. ASSUME NEW p \in Proc, Step(p) PROVE TypeOK' /\ InPlace'
    <2>1. killed' = killed /\ (initTables(p) \/ torn' = torn)
        BY <1>14 DEF Step
    <2>2. CASE initTables(p)
        BY <1>7, <2>1, <2>2 DEF initTables
    <2>3. CASE torn' = torn /\ ~initTables(p)
        BY <1>2, <1>3, <1>5, <1>6, <1>7, <1>8, <1>9, <1>14, <2>1, <2>3 DEF Step, TypeOK
    <2> QED BY <2>1, <2>2, <2>3
<1>15. ASSUME NEW p \in Proc, User(p) PROVE TypeOK' /\ InPlace'
    BY <1>1, <1>4, <1>15 DEF User
<1> QED BY <1>10, <1>11, <1>12, <1>13, <1>14, <1>15 DEF Next
-----------------------------------------------------------------------------
(* One holder per semaphore.                                               *)

(* What Holds reads of a process does not change when another one steps.   *)
LEMMA HoldsAlone ==
    ASSUME TypeOK, NEW p \in Proc, NEW q \in Proc, q # p,
           pc'[q] = pc[q], at'[q] = at[q], cmd'[q] = cmd[q],
           NEW s \in Section
    PROVE  Holds(q, s)' <=> Holds(q, s)
BY DEF Holds, Last

(* A step that takes no semaphore and gives none back, and after which p   *)
(* holds no more than before.                                              *)
LEMMA NoCallOneHolder ==
    ASSUME TypeOK, OneHolder, NEW p \in Proc,
           \A q \in Proc : q # p =>
               pc'[q] = pc[q] /\ at'[q] = at[q] /\ cmd'[q] = cmd[q] /\ handle'[q] = handle[q],
           \A s \in Section : Holds(p, s)' => Holds(p, s) /\ handle'[p][s] = handle[p][s],
           sem' = sem
    PROVE  OneHolder'
<1>1. \A q \in Proc, s \in Section :
         Holds(q, s)' => Holds(q, s) /\ handle'[q][s] = handle[q][s]
    BY HoldsAlone
<1> QED BY <1>1 DEF OneHolder, Section

(* A semaphore that p takes was 1, so nobody held it.                      *)
LEMMA WaitOneHolder ==
    ASSUME TypeOK, InPlace, OneHolder, NEW p \in Proc, sem_wait(p)
    PROVE  OneHolder'
<1> DEFINE s == Sem(p)
           g == handle[p][s]
<1>1. /\ pc[p] = "wait" /\ sem[s][g] > 0
      /\ sem' = [sem EXCEPT ![s] = [sem[s] EXCEPT ![g] = sem[s][g] - 1]]
      /\ UNCHANGED <<handle, cmd>>
    BY DEF sem_wait
<1>2. s \in Section /\ g \in Gen /\ sem[s] \in [Gen -> {0, 1}] /\ sem[s][g] \in {0, 1}
    BY <1>1, SemType DEF TypeOK
<1>3. \A q \in Proc : ~(Holds(q, s) /\ handle[q][s] = g)
    BY <1>1, <1>2 DEF OneHolder
<1>4. at[p] \in 1 .. Last(p) /\ Last(p) \in {1, 2} /\ Last(p)' = Last(p)
    BY <1>1 DEF InPlace, Last
<1>5. ASSUME NEW r \in Section, Holds(p, r)', r # s PROVE Holds(p, r)
    <2>1. s = IF Last(p) = 2 THEN (IF at[p] = 1 THEN "A" ELSE "B") ELSE cmd[p].section
        BY <1>4 DEF Sem, Needs, Last
    <2>2. CASE at[p] < Last(p)
        <3>1. at[p] = 1 /\ Last(p) = 2
            BY <1>4, <2>2
        <3>2. pc'[p] = "wait" /\ at'[p] = 2
            <4>1. Goto(p, "wait", 2)
                BY <2>2, <3>1 DEF sem_wait
            <4> QED BY <4>1 DEF Goto, TypeOK
        <3> QED BY <1>4, <1>5, <2>1, <3>1, <3>2 DEF Holds, Section
    <2>3. CASE ~(at[p] < Last(p))
        <3>1. at[p] = Last(p)
            BY <1>4, <2>3
        <3> QED BY <1>1, <1>4, <1>5, <2>1, <3>1 DEF Holds, Section
    <2> QED BY <2>2, <2>3
<1>6. \A q \in Proc : q # p => pc'[q] = pc[q] /\ at'[q] = at[q] /\ cmd'[q] = cmd[q]
    BY <1>1 DEF sem_wait, Goto, TypeOK
<1>7. ASSUME NEW q \in Proc, NEW r \in Section, Holds(q, r)'
      PROVE  Holds(q, r) \/ (q = p /\ r = s)
    BY <1>5, <1>6, <1>7, HoldsAlone
<1>8. sem'[s][g] = 0
    <2> HIDE DEF s, g
    <2>1. sem'[s] = [sem[s] EXCEPT ![g] = sem[s][g] - 1]
        BY <1>1, <1>2 DEF TypeOK
    <2> QED BY <1>1, <1>2, <2>1
<1>9. ASSUME NEW r \in Section, NEW h, r # s \/ h # g PROVE sem'[r][h] = sem[r][h]
    <2> HIDE DEF s, g
    <2>1. CASE r # s
        BY <1>1, <1>2, <2>1 DEF TypeOK
    <2>2. CASE r = s /\ h # g
        <3>1. sem'[s] = [sem[s] EXCEPT ![g] = sem[s][g] - 1]
            BY <1>1, <1>2 DEF TypeOK
        <3> QED BY <1>2, <2>2, <3>1
    <2> QED BY <1>9, <2>1, <2>2
<1> HIDE DEF s, g
<1>10. g = handle[p][s]
    BY DEF g
<1>11. ASSUME NEW q \in Proc, NEW r \in Section, Holds(q, r)'
       PROVE  /\ sem'[r][handle'[q][r]] = 0
              /\ \A o \in Proc : Holds(o, r)' /\ handle'[o][r] = handle'[q][r] => o = q
    <2>1. CASE r = s /\ handle[q][r] = g
        <3>1. ASSUME NEW o \in Proc, Holds(o, r)', handle[o][r] = g PROVE o = p
            BY <1>3, <1>7, <2>1, <3>1
        <3>2. q = p
            BY <1>11, <2>1, <3>1
        <3> QED BY <1>1, <1>8, <2>1, <3>1, <3>2
    <2>2. CASE r # s \/ handle[q][r] # g
        <3>1. Holds(q, r)
            BY <1>7, <1>10, <1>11, <2>2
        <3>2. ASSUME NEW o \in Proc, Holds(o, r)', handle[o][r] = handle[q][r]
              PROVE  o = q
            <4>1. Holds(o, r)
                BY <1>7, <1>10, <2>2, <3>2
            <4> QED BY <3>1, <3>2, <4>1 DEF OneHolder
        <3>3. sem'[r][handle[q][r]] = 0
            BY <1>9, <2>2, <3>1 DEF OneHolder
        <3> QED BY <1>1, <3>2, <3>3
    <2> QED BY <2>1, <2>2
<1> QED BY <1>11 DEF OneHolder, Section

(* A semaphore that p gives back was held by p alone.                      *)
LEMMA PostOneHolder ==
    ASSUME TypeOK, InPlace, OneHolder, NEW p \in Proc, sem_post(p)
    PROVE  OneHolder'
<1> DEFINE s == Sem(p)
           g == handle[p][s]
<1>1. /\ pc[p] = "post" /\ UNCHANGED handle
      /\ sem' = [sem EXCEPT ![s] = [sem[s] EXCEPT ![g] = sem[s][g] + 1]]
    BY DEF sem_post
<1>2. s \in Section /\ g \in Gen /\ sem[s] \in [Gen -> {0, 1}]
    BY <1>1, SemType DEF TypeOK
<1>3. \A q \in Proc : Holds(q, s) /\ handle[q][s] = g => q = p
    BY <1>1, <1>2, PostHolds DEF OneHolder
<1>4. at[p] \in 1 .. Last(p) /\ Last(p) \in {1, 2}
    BY <1>1 DEF InPlace, Last
<1>5. ASSUME NEW r \in Section, Holds(p, r)' PROVE Holds(p, r) /\ r # s
    <2>1. s = IF Last(p) = 2 THEN (IF at[p] = 1 THEN "A" ELSE "B") ELSE cmd[p].section
        BY <1>4 DEF Sem, Needs, Last
    <2>2. CASE at[p] < Last(p) /\ Goto(p, "post", at[p] + 1) /\ UNCHANGED cmd
        <3>1. at[p] = 1 /\ Last(p) = 2 /\ Last(p)' = 2
            BY <1>4, <2>2 DEF Last
        <3>2. pc'[p] = "post" /\ at'[p] = 2
            <4>1. Goto(p, "post", 2)
                BY <2>2, <3>1
            <4> QED BY <4>1 DEF Goto, TypeOK
        <3> QED BY <1>1, <1>5, <2>1, <3>1, <3>2 DEF Holds, Section
    <2>3. CASE Goto(p, "ready", 1)
        <3>1. pc'[p] = "ready"
            BY <2>3 DEF Goto, TypeOK
        <3> QED BY <1>5, <3>1 DEF Holds
    <2> QED BY <2>2, <2>3 DEF sem_post
<1>6. \A q \in Proc : q # p => pc'[q] = pc[q] /\ at'[q] = at[q] /\ cmd'[q] = cmd[q]
    BY <1>1 DEF sem_post, Goto, TypeOK
<1>7. ASSUME NEW q \in Proc, NEW r \in Section, Holds(q, r)'
      PROVE  Holds(q, r) /\ (r # s \/ handle[q][r] # g)
    <2>1. CASE q = p
        BY <1>5, <1>7, <2>1
    <2>2. CASE q # p
        BY <1>3, <1>6, <1>7, <2>2, HoldsAlone
    <2> QED BY <2>1, <2>2
<1>8. ASSUME NEW r \in Section, NEW h, r # s \/ h # g PROVE sem'[r][h] = sem[r][h]
    <2> HIDE DEF s, g
    <2>1. CASE r # s
        BY <1>1, <1>2, <2>1 DEF TypeOK
    <2>2. CASE r = s /\ h # g
        <3>1. sem'[s] = [sem[s] EXCEPT ![g] = sem[s][g] + 1]
            BY <1>1, <1>2 DEF TypeOK
        <3> QED BY <1>2, <2>2, <3>1
    <2> QED BY <1>8, <2>1, <2>2
<1> HIDE DEF s, g
<1> QED BY <1>1, <1>7, <1>8 DEF OneHolder, Section

LEMMA NextOneHolder ==
    ASSUME TypeOK, InPlace, OneHolder, [Next]_vars
    PROVE  OneHolder'
<1>1. ASSUME NEW p \in Proc, start(p) \/ exit(p) \/ processCmd(p) PROVE OneHolder'
    <2>1. PICK l \in {"off", "openA", "wait"} : Goto(p, l, 1)
        BY <1>1 DEF start, exit, processCmd
    <2>2. pc'[p] = l /\ at'[p] = 1
        BY <2>1, CommandType DEF Goto, TypeOK
    <2>3. \A s \in Section : ~Holds(p, s)'
        BY <2>2 DEF Holds
    <2>4. UNCHANGED sems /\ \A q \in Proc : q # p => cmd'[q] = cmd[q]
        BY <1>1 DEF start, exit, processCmd, TypeOK
    <2>5. \A q \in Proc : q # p => pc'[q] = pc[q] /\ at'[q] = at[q]
        BY <2>1 DEF Goto, TypeOK
    <2> QED BY <2>3, <2>4, <2>5, NoCallOneHolder DEF sems
<1>2. ASSUME NEW p \in Proc, NEW s \in Section, sem_open(p, s),
             NEW l \in {"openB", "wait"}, Goto(p, l, 1),
             cmd' = cmd \/ cmd' = [cmd EXCEPT ![p] = InitCommand]
      PROVE  OneHolder'
    <2>1. pc'[p] = l /\ at'[p] = 1
        BY <1>2, CommandType DEF Goto, TypeOK
    <2>2. \A r \in Section : ~Holds(p, r)'
        BY <2>1 DEF Holds
    <2>3. /\ \A q \in Proc : q # p => cmd'[q] = cmd[q] /\ handle'[q] = handle[q]
          /\ sem' = sem
        BY <1>2 DEF sem_open, TypeOK
    <2>4. \A q \in Proc : q # p => pc'[q] = pc[q] /\ at'[q] = at[q]
        BY <1>2 DEF Goto, TypeOK
    <2> QED BY <2>2, <2>3, <2>4, NoCallOneHolder
<1>3. ASSUME NEW p \in Proc,
             \/ initTables(p) \/ printTableInfo(p) \/ reserveSpecificTable(p)
             \/ reserveSomeTable(p) \/ copy_name(p)
      PROVE  OneHolder'
    <2>1. PICK l \in {"work", "copy", "post"} : \E k : Goto(p, l, k)
        BY <1>3 DEF initTables, printTableInfo, reserveSpecificTable, reserveSomeTable,
                    copy_name, Turn_down
    <2>2. pc[p] \in {"work", "copy"} /\ UNCHANGED <<sems, cmd>>
        BY <1>3 DEF initTables, printTableInfo, reserveSpecificTable, reserveSomeTable,
                    copy_name
    <2>3. \A s \in Section : Holds(p, s)' => Holds(p, s)
        BY <2>2 DEF Holds, Last
    <2>4. \A q \in Proc : q # p => pc'[q] = pc[q] /\ at'[q] = at[q]
        BY <2>1 DEF Goto, TypeOK
    <2> QED BY <2>2, <2>3, <2>4, NoCallOneHolder DEF sems
<1>4. CASE (\E p \in Proc : kill(p)) \/ clearout_start \/ clearout_unlink \/ UNCHANGED vars
    <2>1. UNCHANGED <<sem, handle, control>>
        BY <1>4 DEF kill, clearout_start, clearout_unlink, vars, sems
    <2> QED BY <2>1 DEF OneHolder, Holds, Last, control
<1>5. ASSUME NEW p \in Proc, open_A(p) \/ open_B(p) PROVE OneHolder'
    BY <1>2, <1>5 DEF open_A, open_B, Section
<1> QED BY <1>1, <1>3, <1>4, <1>5, WaitOneHolder, PostOneHolder DEF Next, Step, User
-----------------------------------------------------------------------------
(* One generation of semaphores.                                           *)

LEMMA HoldsOpened ==
    ASSUME NEW p \in Proc, NEW s \in Section, Holds(p, s)
    PROVE  Opened(p, s)
BY DEF Holds, Opened

(* A name that a living process has opened is not made anew.               *)
LEMMA OpenOneGeneration ==
    ASSUME Alone, TypeOK, InPlace, OneGeneration,
           NEW p \in Proc \ killed, NEW s \in Section, sem_open(p, s),
           NEW l \in {"openB", "wait"}, NEW k, Goto(p, l, k),
           pc[p] # "off", \A r \in Section : r # s => (Opened(p, r)' => Opened(p, r)),
           UNCHANGED <<killed, clear>>
    PROVE  OneGeneration'
<1>1. clear = "off"
    BY DEF OneGeneration
<1>2. \A q \in Proc : q # p => pc'[q] = pc[q]
    BY DEF Goto, TypeOK
<1>3. ASSUME NEW q \in Proc \ killed, NEW r \in Section, Opened(q, r)'
      PROVE  handle'[q][r] = named'[r]
    <2>1. CASE q = p /\ r = s
        BY <2>1, OpenType
    <2>2. CASE ~(q = p /\ r = s)
        <3>1. Opened(q, r)
            BY <1>2, <1>3, <2>2 DEF Opened
        <3>2. handle[q][r] = named[r] /\ handle[q][r] \in Gen
            BY <3>1 DEF OneGeneration, InPlace
        <3>3. named[r] # 0
            BY <3>2, BookAssumption DEF Gen
        <3>4. named'[r] = named[r] /\ handle'[q][r] = handle[q][r]
            BY <2>2, <3>3, OpenType
        <3> QED BY <3>2, <3>4
    <2> QED BY <2>1, <2>2
<1> QED BY <1>1, <1>3 DEF OneGeneration, Section

LEMMA NextOneGeneration ==
    ASSUME Alone, TypeOK, InPlace, OneGeneration, [Next]_vars
    PROVE  OneGeneration'
<1>1. ASSUME NEW p \in Proc \ killed, start(p), killed' = killed PROVE OneGeneration'
    <2>1. Goto(p, "openA", 1) /\ UNCHANGED <<sems, clearer>> /\ clear = "off"
        BY <1>1 DEF start
    <2>2. \A q \in Proc, s \in Section : Opened(q, s)' => Opened(q, s)
        BY <2>1 DEF Opened, Goto, TypeOK
    <2> QED BY <1>1, <2>1, <2>2 DEF OneGeneration, sems, clearer, Section
<1>2. ASSUME NEW p \in Proc \ killed, open_A(p) \/ open_B(p), killed' = killed
      PROVE  OneGeneration'
    <2>1. CASE open_A(p)
        <3>1. /\ "A" \in Section /\ sem_open(p, "A") /\ Goto(p, "openB", 1)
              /\ pc[p] = "openA" /\ clear' = clear
            BY <2>1 DEF open_A, Section, clearer
        <3>2. \A r \in Section : r # "A" => ~Opened(p, r)'
            BY <3>1 DEF Opened, Goto, TypeOK, Section
        <3> QED BY <1>2, <3>1, <3>2, OpenOneGeneration
    <2>2. CASE open_B(p)
        <3>1. /\ "B" \in Section /\ sem_open(p, "B") /\ Goto(p, "wait", 1)
              /\ pc[p] = "openB" /\ clear' = clear
            BY <2>2 DEF open_B, Section, clearer
        <3>2. \A r \in Section : r # "B" => Opened(p, r)
            BY <3>1 DEF Opened, Section
        <3> QED BY <1>2, <3>1, <3>2, OpenOneGeneration
    <2> QED BY <1>2, <2>1, <2>2
<1>3. ASSUME NEW p \in Proc \ killed, NEW l, NEW k, Goto(p, l, k),
             pc[p] \notin {"off", "openA", "openB"},
             UNCHANGED <<made, named, handle, clearer, killed>>
      PROVE  OneGeneration'
    <2>1. \A q \in Proc, s \in Section : Opened(q, s)' => Opened(q, s)
        BY <1>3 DEF Opened, Goto, TypeOK
    <2>2. clear = "off"
        BY <1>3 DEF OneGeneration
    <2> QED BY <1>3, <2>1, <2>2 DEF OneGeneration, clearer, Section
<1>4. ASSUME NEW p \in Proc \ killed, killed' = killed,
             \/ sem_wait(p) \/ sem_post(p) \/ initTables(p) \/ printTableInfo(p)
             \/ reserveSpecificTable(p) \/ reserveSomeTable(p) \/ copy_name(p)
             \/ processCmd(p) \/ exit(p)
      PROVE  OneGeneration'
    <2>1. \E l, k : Goto(p, l, k)
        BY <1>4 DEF sem_wait, sem_post, initTables, printTableInfo, reserveSpecificTable,
                    reserveSomeTable, copy_name, processCmd, exit, Turn_down
    <2>2. pc[p] \in {"wait", "post", "work", "copy", "ready"}
        BY <1>4 DEF sem_wait, sem_post, initTables, printTableInfo, reserveSpecificTable,
                    reserveSomeTable, copy_name, processCmd, exit
    <2>3. UNCHANGED <<made, named, handle, clearer>>
        BY <1>4 DEF sem_wait, sem_post, initTables, printTableInfo, reserveSpecificTable,
                    reserveSomeTable, copy_name, processCmd, exit, sems
    <2> QED BY <1>3, <1>4, <2>1, <2>2, <2>3
<1>5. ASSUME NEW p \in Proc, Step(p) \/ User(p) PROVE OneGeneration'
    <2>1. p \in Proc \ killed /\ killed' = killed
        BY <1>5 DEF Step, User
    <2> QED BY <1>1, <1>2, <1>4, <1>5, <2>1 DEF Step, User
<1>6. ASSUME NEW p \in Proc, kill(p) PROVE OneGeneration'
    BY <1>6 DEF kill, OneGeneration, Opened, sems, control, clearer
<1>7. CASE clearout_start
    BY <1>7 DEF clearout_start, OneGeneration, Opened, sems, control
<1>8. CASE clearout_unlink
    BY <1>8 DEF clearout_unlink, OneGeneration, Opened, control
<1>9. CASE UNCHANGED vars
    BY <1>9 DEF OneGeneration, Opened, vars, sems, control, clearer
<1> QED BY <1>5, <1>6, <1>7, <1>8, <1>9 DEF Next
-----------------------------------------------------------------------------
(* Theorems.                                                               *)

IInv == TypeOK /\ InPlace /\ OneHolder

(* Neither the shared memory nor a semaphore, handle or index of main.c    *)
(* takes a value outside its type; a semaphore that is held is 0 and has   *)
(* one holder, whatever is killed and whenever clearout is run.            *)
THEOREM InductiveInvariant == Spec => []IInv
<1>1. Init => IInv
    BY InitLemma DEF IInv
<1>2. IInv /\ [Next]_vars => IInv'
    BY NextType, NextOneHolder DEF IInv
<1> QED BY <1>1, <1>2, PTL DEF Spec

(* The type invariant of main.c and clearout.c: sem_wait and sem_post in   *)
(* initTables, printTableInfo and the two reserve functions are paired, so *)
(* that no semaphore leaves 0 and 1.                                       *)
THEOREM TypeCorrect == Spec => []TypeOK
<1>1. IInv => TypeOK
    BY DEF IInv
<1> QED BY <1>1, InductiveInvariant, PTL

(* When clearout is run only while no process is, no two living processes  *)
(* are between sem_wait and sem_post of one section, although processes    *)
(* start, end and are killed at any time.                                  *)
THEOREM SectionsAreExclusive == ASSUME Alone PROVE Spec => []MutualExclusion
<1>1. Init => OneGeneration
    BY InitLemma
<1>2. IInv /\ OneGeneration /\ [Next]_vars => OneGeneration'
    BY NextOneGeneration DEF IInv
<1>3. IInv /\ OneGeneration => MutualExclusion
    <2> SUFFICES ASSUME IInv, OneGeneration, NEW s \in Section,
                        NEW p \in Proc \ killed, NEW q \in Proc \ killed,
                        Holds(p, s), Holds(q, s)
                 PROVE  p = q
        BY DEF MutualExclusion
    <2>1. handle[p][s] = named[s] /\ handle[q][s] = named[s]
        BY HoldsOpened DEF OneGeneration
    <2> QED BY <2>1 DEF IInv, OneHolder
<1> QED BY <1>1, <1>2, <1>3, InductiveInvariant, PTL DEF Spec

=============================================================================
