------------------------------ MODULE TableBook ------------------------------
(***************************************************************************)
(* What a guest of the reservation system may rely on: one book of tables, *)
(* written in one step at a time.  Processes, semaphores and shared memory *)
(* do not appear; Reservation.tla is shown to implement this.              *)
(***************************************************************************)
CONSTANTS
    Proc,     \* who asks
    Table,    \* the tables
    Guest,    \* the names tables are reserved for
    Empty,    \* the mark of a table that is free
    Blank,    \* what the book holds before it is first cleared
    None      \* no answer, no request

VARIABLES
    book,     \* table -> a guest, Empty or Blank
    asked,    \* who -> the tables of the request under way, or None
    ans       \* who -> the table obtained, or None

vars == <<book, asked, ans>>

Init ==
    /\ book = [t \in Table |-> Blank]
    /\ asked = [p \in Proc |-> None]
    /\ ans = [p \in Proc |-> None]

Ask(p) ==
    /\ asked[p] = None
    /\ \E T \in SUBSET Table : asked' = [asked EXCEPT ![p] = T]
    /\ ans' = [ans EXCEPT ![p] = None]
    /\ UNCHANGED book

(* A request gets a table it asks for that is free.                        *)
Reserve(p) == \E t \in Table, g \in Guest :
    /\ asked[p] # None /\ t \in asked[p]
    /\ book[t] = Empty
    /\ book' = [book EXCEPT ![t] = g]
    /\ ans' = [ans EXCEPT ![p] = t]
    /\ asked' = [asked EXCEPT ![p] = None]

(* It is turned down only when none of them is free.                       *)
TurnDown(p) ==
    /\ asked[p] # None
    /\ \A t \in asked[p] : book[t] # Empty
    /\ asked' = [asked EXCEPT ![p] = None]
    /\ UNCHANGED <<book, ans>>

(* The whole book is cleared at once.                                      *)
Clear ==
    /\ book' = [t \in Table |-> Empty]
    /\ UNCHANGED <<asked, ans>>

Next == Clear \/ \E p \in Proc : Ask(p) \/ Reserve(p) \/ TurnDown(p)

Spec == Init /\ [][Next]_vars
==============================================================================
