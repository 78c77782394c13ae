----------------------------- MODULE Reservation -----------------------------
(***************************************************************************)
(* The reservation system: main.c, started by several processes on one     *)
(* shared memory of tables, and clearout.c, which renews the semaphores.   *)
(*                                                                         *)
(* A step is one semaphore call or one access to one table.  sem_unlink    *)
(* takes away a name only: whoever opened the semaphore goes on with it,   *)
(* and the next sem_open makes another, a new generation.                  *)
(***************************************************************************)
EXTENDS Integers, FiniteSets

CONSTANTS
    Proc,         \* processes
    NA,           \* tables 1 .. NA are section A (100 to 109 in the code)
    NB,           \* tables NA+1 .. NA+NB are section B (200 to 209)
    Guest,        \* names tables are reserved for
    Empty,        \* the name "empty     "
    Blank,        \* the zeros of a new shared memory
    None,         \* no answer, no request
    MaxClear,     \* bound: how often clearout is run
    MaxKill,      \* bound: how many processes are killed
    Alone         \* clearout runs only while no process does

Section == {"A", "B"}
Table   == 1 .. NA + NB
TablesOf(s) == IF s = "A" THEN 1 .. NA ELSE NA + 1 .. NA + NB
Gen     == 1 .. MaxClear + 1

ASSUME BookAssumption ==
    /\ NA \in Nat \ {0} /\ NB \in Nat \ {0}
    /\ MaxClear \in Nat /\ MaxKill \in Nat /\ Alone \in BOOLEAN
    /\ Empty \notin Guest /\ Blank \notin Guest /\ Empty # Blank
    /\ None \notin Table /\ \A T \in SUBSET Table : T # None

VARIABLES
    table,    \* the shared memory: table -> name
    sem,      \* section -> generation -> value of that semaphore
    made,     \* section -> how many semaphores have been made
    named,    \* section -> the generation its name leads to, 0 for none
    handle,   \* process -> section -> the generation it opened
    pc,       \* process -> where it is
    cmd,      \* process -> the command it carries out
    at,       \* process -> index in the semaphores or the tables
    killed,   \* the processes that were killed
    torn,     \* history: a killed initTables left the tables half cleared
    clear,    \* where clearout is: the section it unlinks next, or "off"
    clears,   \* how often clearout was started
    asked,    \* process -> the tables it asks for, or None
    ans       \* process -> the table its last request got, or None

memory  == <<table, asked, ans>>
sems    == <<sem, made, named, handle>>
control == <<pc, cmd, at>>
clearer == <<clear, clears>>
vars    == <<memory, sems, control, killed, torn, clearer>>

(* Mutant: printTableInfo takes B first.                                   *)
Needs_Opposite(c) ==
    CASE c.kind = "init" -> <<"A", "B">>
      [] c.kind = "status" -> <<"B", "A">>
      [] OTHER -> <<c.section>>

(* initTables and printTableInfo take A and then B and give them back in   *)
(* that order; a reservation takes the semaphore of its section.           *)
Needs(c) == IF c.kind \in {"init", "status"} THEN <<"A", "B">> ELSE <<c.section>>

Command ==
    [kind : {"init", "status"}, section : {"A"}, want : {0}, who : {Empty}]
        \cup [kind : {"some"}, section : Section, want : {0}, who : Guest]
        \cup [kind : {"specific"}, section : Section, want : Table, who : Guest]

InitCommand == [kind |-> "init", section |-> "A", want |-> 0, who |-> Empty]

Init ==
    /\ table = [t \in Table |-> Blank]
    /\ sem = [s \in Section |-> [g \in Gen |-> 1]]
    /\ made = [s \in Section |-> 0]
    /\ named = [s \in Section |-> 0]
    /\ handle = [p \in Proc |-> [s \in Section |-> 0]]
    /\ pc = [p \in Proc |-> "off"]
    /\ cmd = [p \in Proc |-> InitCommand]
    /\ at = [p \in Proc |-> 1]
    /\ killed = {}
    /\ torn = FALSE
    /\ clear = "off"
    /\ clears = 0
    /\ asked = [p \in Proc |-> None]
    /\ ans = [p \in Proc |-> None]

Goto(p, l, i) ==
    /\ pc' = [pc EXCEPT ![p] = l]
    /\ at' = [at EXCEPT ![p] = i]

-----------------------------------------------------------------------------
(* Start and end of a process.                                             *)

start(p) ==
    /\ pc[p] = "off"
    /\ Alone => clear = "off"
    /\ Goto(p, "openA", 1)
    /\ UNCHANGED <<memory, sems, cmd, clearer>>

(* sem_open with O_CREAT: the semaphore of that name, or a new one, at 1.  *)
sem_open(p, s) ==
    LET g == IF named[s] # 0 THEN named[s] ELSE made[s] + 1 IN
    /\ g \in Gen
    /\ named' = [named EXCEPT ![s] = g]
    /\ made' = [made EXCEPT ![s] = IF named[s] # 0 THEN @ ELSE g]
    /\ handle' = [handle EXCEPT ![p][s] = g]
    /\ UNCHANGED sem

open_A(p) ==
    /\ pc[p] = "openA"
    /\ sem_open(p, "A")
    /\ Goto(p, "openB", 1)
    /\ UNCHANGED <<memory, cmd, clearer>>

(* main goes on to initTables before it reads any command.                 *)
open_B(p) ==
    /\ pc[p] = "openB"
    /\ sem_open(p, "B")
    /\ cmd' = [cmd EXCEPT ![p] = InitCommand]
    /\ Goto(p, "wait", 1)
    /\ UNCHANGED <<memory, clearer>>

(* The exit command: the semaphores are closed, and nothing is unlinked.   *)
exit(p) ==
    /\ pc[p] = "ready"
    /\ Goto(p, "off", 1)
    /\ UNCHANGED <<memory, sems, cmd, clearer>>

(* A command is read.  A request for a table of the other section is       *)
(* turned down under the semaphore of the section it names.                *)
processCmd(p) == \E c \in Command :
    /\ pc[p] = "ready"
    /\ cmd' = [cmd EXCEPT ![p] = c]
    /\ asked' = [asked EXCEPT ![p] =
           CASE c.kind = "some" -> TablesOf(c.section)
             [] c.kind = "specific" -> {c.want} \cap TablesOf(c.section)
             [] OTHER -> None]
    /\ ans' = [ans EXCEPT ![p] = IF c.kind \in {"some", "specific"} THEN None ELSE @]
    /\ Goto(p, "wait", 1)
    /\ UNCHANGED <<table, sems, clearer>>

-----------------------------------------------------------------------------
(* Critical sections.                                                      *)

(* Mutant: printTableInfo takes the semaphore of section A only.           *)
Last_StatusTakesA(p) == IF cmd[p].kind = "init" THEN 2 ELSE 1

Last(p) == IF cmd[p].kind \in {"init", "status"} THEN 2 ELSE 1

(* Mutant: the two posts are both of sem_A.                                *)
Sem_PostsTheFirst(p) == Needs(cmd[p])[IF pc[p] = "post" THEN 1 ELSE at[p]]

Sem(p) == Needs(cmd[p])[at[p]]

FirstTable(c) ==
    IF c.kind = "specific" THEN c.want
    ELSE IF c.kind = "some" /\ c.section = "B" THEN NA + 1 ELSE 1

(* Mutant: an interrupted sem_wait is taken for a successful one.          *)
sem_wait_Interrupted(p) ==
    LET s == Sem(p)
        g == handle[p][s]
    IN  /\ pc[p] = "wait"
        /\ sem' = [sem EXCEPT ![s][g] = 0]
        /\ IF at[p] < Last(p) THEN Goto(p, "wait", at[p] + 1)
           ELSE Goto(p, "work", FirstTable(cmd[p]))
        /\ UNCHANGED <<memory, made, named, handle, cmd, clearer>>

sem_wait(p) ==
    LET s == Sem(p)
        g == handle[p][s]
    IN  /\ pc[p] = "wait"
        /\ sem[s][g] > 0
        /\ sem' = [sem EXCEPT ![s][g] = @ - 1]
        /\ IF at[p] < Last(p) THEN Goto(p, "wait", at[p] + 1)
           ELSE Goto(p, "work", FirstTable(cmd[p]))
        /\ UNCHANGED <<memory, made, named, handle, cmd, clearer>>

(* A command that is done is forgotten.                                    *)
sem_post(p) ==
    LET s == Sem(p)
        g == handle[p][s]
    IN  /\ pc[p] = "post"
        /\ sem' = [sem EXCEPT ![s][g] = @ + 1]
        /\ \/ at[p] < Last(p) /\ Goto(p, "post", at[p] + 1) /\ UNCHANGED cmd
           \/ /\ at[p] = Last(p) /\ Goto(p, "ready", 1)
              /\ cmd' = [cmd EXCEPT ![p] = InitCommand]
        /\ UNCHANGED <<memory, made, named, handle, clearer>>

(* One turn of the loop of initTables; the sleep is the time to the posts. *)
initTables(p) ==
    /\ pc[p] = "work" /\ cmd[p].kind = "init"
    /\ table' = [table EXCEPT ![at[p]] = Empty]
    /\ torn' = FALSE
    /\ IF at[p] < NA + NB THEN Goto(p, "work", at[p] + 1) ELSE Goto(p, "post", 1)
    /\ UNCHANGED <<asked, ans, sems, cmd, clearer>>

printTableInfo(p) ==
    /\ pc[p] = "work" /\ cmd[p].kind = "status"
    /\ IF at[p] < NA + NB THEN Goto(p, "work", at[p] + 1) ELSE Goto(p, "post", 1)
    /\ UNCHANGED <<memory, sems, cmd, clearer>>

(* The name of the table at hand is compared; the copy is a later step.    *)
Turn_down(p) ==
    /\ asked' = [asked EXCEPT ![p] = None]
    /\ Goto(p, "post", 1)
    /\ UNCHANGED <<table, ans>>

(* Mutant: the table is not compared with "empty".                         *)
reserveSpecificTable_Unchecked(p) ==
    /\ pc[p] = "work" /\ cmd[p].kind = "specific"
    /\ IF at[p] \in TablesOf(cmd[p].section)
       THEN Goto(p, "copy", at[p]) /\ UNCHANGED memory
       ELSE Turn_down(p)
    /\ UNCHANGED <<sems, cmd, clearer>>

reserveSpecificTable(p) ==
    /\ pc[p] = "work" /\ cmd[p].kind = "specific"
    /\ IF at[p] \in TablesOf(cmd[p].section) /\ table[at[p]] = Empty
       THEN Goto(p, "copy", at[p]) /\ UNCHANGED memory
       ELSE Turn_down(p)
    /\ UNCHANGED <<sems, cmd, clearer>>

reserveSomeTable(p) ==
    /\ pc[p] = "work" /\ cmd[p].kind = "some"
    /\ \/ table[at[p]] = Empty /\ Goto(p, "copy", at[p]) /\ UNCHANGED memory
       \/ /\ table[at[p]] # Empty /\ at[p] + 1 \in TablesOf(cmd[p].section)
          /\ Goto(p, "work", at[p] + 1) /\ UNCHANGED memory
       \/ /\ table[at[p]] # Empty /\ at[p] + 1 \notin TablesOf(cmd[p].section)
          /\ Turn_down(p)
    /\ UNCHANGED <<sems, cmd, clearer>>

copy_name(p) ==
    /\ pc[p] = "copy"
    /\ table' = [table EXCEPT ![at[p]] = cmd[p].who]
    /\ ans' = [ans EXCEPT ![p] = at[p]]
    /\ asked' = [asked EXCEPT ![p] = None]
    /\ Goto(p, "post", 1)
    /\ UNCHANGED <<sems, cmd, clearer>>

Step(p) ==
    /\ p \notin killed /\ UNCHANGED killed
    /\ \/ initTables(p)
       \/ UNCHANGED torn /\ (\/ open_A(p) \/ open_B(p) \/ sem_wait(p) \/ sem_post(p)
                            \/ printTableInfo(p) \/ reserveSpecificTable(p)
                            \/ reserveSomeTable(p) \/ copy_name(p))

(* What the user decides: to start a process, to type a command, to leave. *)
User(p) ==
    /\ p \notin killed /\ UNCHANGED <<killed, torn>>
    /\ start(p) \/ processCmd(p) \/ exit(p)

-----------------------------------------------------------------------------
Clearing(p) == pc[p] = "work" /\ cmd[p].kind = "init" /\ at[p] > 1

(* A process is killed, its semaphores as they are.                        *)
kill(p) ==
    /\ p \notin killed /\ pc[p] # "off"
    /\ Cardinality(killed) < MaxKill
    /\ killed' = killed \cup {p}
    /\ torn' = (torn \/ Clearing(p))
    /\ UNCHANGED <<memory, sems, control, clearer>>

(* clearout unlinks the semaphores A and B; its shm_unlink calls are given *)
(* the names of the semaphores, so the memory stays.                       *)
clearout_start ==
    /\ clear = "off" /\ clears < MaxClear
    /\ Alone => \A p \in Proc : pc[p] = "off" \/ p \in killed
    /\ clear' = "A" /\ clears' = clears + 1
    /\ UNCHANGED <<memory, sems, control, killed, torn>>

clearout_unlink ==
    /\ clear # "off"
    /\ named' = [named EXCEPT ![clear] = 0]
    /\ clear' = IF clear = "A" THEN "B" ELSE "off"
    /\ UNCHANGED <<memory, sem, made, handle, control, killed, torn, clears>>

Next ==
    \/ \E p \in Proc : Step(p) \/ User(p) \/ kill(p)
    \/ clearout_start \/ clearout_unlink

(* A process that can take a step takes one; nothing says that the user    *)
(* goes on, that anyone is killed or that clearout is run.                 *)
Fairness == \A p \in Proc : WF_vars(Step(p))

Spec == Init /\ [][Next]_vars /\ Fairness

-----------------------------------------------------------------------------
(* Properties.                                                             *)

(* The variables keep their types: no semaphore leaves 0 and 1, no handle  *)
(* or index leads outside what exists.                                     *)
TypeOK ==
    /\ table \in [Table -> Guest \cup {Empty, Blank}]
    /\ sem \in [Section -> [Gen -> {0, 1}]]
    /\ made \in [Section -> 0 .. MaxClear + 1]
    /\ named \in [Section -> 0 .. MaxClear + 1]
    /\ handle \in [Proc -> [Section -> 0 .. MaxClear + 1]]
    /\ pc \in [Proc -> {"off", "openA", "openB", "ready", "wait", "work", "copy", "post"}]
    /\ cmd \in [Proc -> Command]
    /\ at \in [Proc -> Table]
    /\ killed \subseteq Proc
    /\ torn \in BOOLEAN
    /\ clear \in {"off", "A", "B"}
    /\ clears \in 0 .. MaxClear
    /\ ans \in [Proc -> Table \cup {None}]

(* The sections whose semaphore a process has taken and not given back.    *)
Holds(p, s) ==
    LET k == IF s = "B" /\ Last(p) = 2 THEN 2 ELSE 1 IN
    /\ Last(p) = 2 \/ cmd[p].section = s
    /\ \/ pc[p] = "wait" /\ at[p] > k
       \/ pc[p] \in {"work", "copy"}
       \/ pc[p] = "post" /\ at[p] <= k

(* No two living processes are between the semaphore calls of one section: *)
(* they all map the same memory (README.txt lets them run "in different    *)
(* terminals"), so one of them would write what the other has read.        *)
MutualExclusion ==
    \A s \in Section, p, q \in Proc \ killed : Holds(p, s) /\ Holds(q, s) => p = q

(* Processes that opened both semaphores on different sides of a clearout  *)
(* share no table: it "destroys all the named semaphore and shared memory" *)
(* (README.txt line 21).                                                   *)
ClearoutSeparates ==
    \A s \in Section, p, q \in Proc \ killed :
        Holds(p, s) /\ Holds(q, s) => \E r \in Section : handle[p][r] = handle[q][r]

(* The tables under a status command do not change until it is done.       *)
StatusIsASnapshot ==
    [][\A p \in Proc :
          p \notin killed /\ pc[p] = "work" /\ cmd[p].kind = "status" => table' = table]_vars

(* A clearing of the book under way, of which nobody else sees a part; nor *)
(* of what a killed one left, since a process starts with initTables.      *)
BeingCleared == torn \/ \E p \in Proc \ killed : Clearing(p)

Book == INSTANCE TableBook WITH
    book <- [t \in Table |-> IF BeingCleared THEN Empty ELSE table[t]]

(* The processes together keep one book of tables: a reservation is made   *)
(* for a table that is free and stays until the book is cleared, a refusal *)
(* is right at the moment it is decided, and initTables happens at once.   *)
ImplementsTableBook == Book!Spec

(* Process p waits for the semaphore that q has taken.                     *)
WaitsFor(p, q) ==
    /\ p \notin killed /\ pc[p] = "wait"
    /\ Holds(q, Sem(p)) /\ handle[q][Sem(p)] = handle[p][Sem(p)]

(* What p waits for was taken by a process that was killed, or by one that *)
(* waits for such a process.                                               *)
KeptByKilled(p) ==
    \E k \in killed, q \in Proc : WaitsFor(p, k) \/ (WaitsFor(p, q) /\ WaitsFor(q, k))

(* The processes never all wait for one another: when one waits for a      *)
(* semaphore, some process comes to the end of its critical section (which *)
(* one is up to the kernel: sem_wait keeps no queue), unless what the one  *)
(* waits for was taken by a process that was killed.  A kill anywhere else *)
(* keeps nobody from being served.                                         *)
SomeoneIsServed ==
    \A p \in Proc :
        p \notin killed /\ pc[p] = "wait"
            ~> \/ \E q \in Proc \ killed : pc[q] = "post"
               \/ p \in killed
               \/ KeptByKilled(p)
==============================================================================
