-------------------------------- MODULE Shell --------------------------------
(***************************************************************************)
(* The shell of src/A_simple_shell/main.c.  Every command is run by a      *)
(* child that is forked for it; a child whose builtin returns, or whose    *)
(* command is none, comes back into the command loop: it is a shell of its *)
(* own, nested in the one that waits for it.                               *)
(*                                                                         *)
(* Processes are numbered in the order they are forked; all belong to one  *)
(* process group.                                                          *)
(***************************************************************************)
EXTENDS Integers, Sequences, FiniteSets

CONSTANTS
    MaxProcess,  \* how many processes fork makes before it fails
    MaxLine,     \* bound: how many lines are typed or written to the shell
    MaxStop      \* bound: how often a process is stopped from outside

ASSUME ShellAssumption ==
    /\ MaxProcess \in Nat \ {0}
    /\ MaxLine \in Nat
    /\ MaxStop \in Nat

Process == 1 .. MaxProcess

(* What a line can say: nothing; exit; a builtin that replaces the process *)
(* (ls, cat, cp), changes directory or waits for a job; anything else.     *)
Command == {"nothing", "exit", "program", "cd", "fg", "other"}

VARIABLES
    at,         \* process -> where it stands ("none": not forked yet)
    parent,     \* process -> the one that forked it
    mem,        \* process -> its variables: its global pid, its command args,
                \* its list of jobs (from head_job on), what it has buffered of
                \* stdin, and its working directory
    piped,      \* is the input a pipe? (otherwise a terminal)
    typed,      \* how many lines the input has brought
    stopped,    \* processes that are stopped
    told,       \* stopped processes whose parent knows
    signalled,  \* stopped processes with an interrupt pending
    interrupted,  \* ctrl+C was typed
    everStopped,  \* processes that were stopped at some time
    early       \* processes interrupted between their fork and its assignment

processes == <<at, parent, mem>>
input   == <<piped, typed>>
signals == <<stopped, told, signalled, interrupted, everStopped, early>>
vars    == <<processes, input, signals>>

Gone == {"zombie", "reaped"}
Alive(p) == at[p] \notin Gone \cup {"none"}
Live == {p \in Process : Alive(p)}
Children(p) == {c \in Process : at[c] # "none" /\ parent[c] = p}

At(p, a) == at[p] = a /\ p \notin stopped

Started == [pid |-> -1, args |-> "nothing", jobs |-> <<>>, stdin |-> <<>>, cwd |-> "home"]

(* A step of p alone, with m as its memory after it.  Nothing is left of   *)
(* the memory of a process that has ended.                                 *)
Goes(p, a, m) ==
    /\ at' = [at EXCEPT ![p] = a]
    /\ mem' = [mem EXCEPT ![p] = IF a = "zombie" THEN Started ELSE m]
    /\ UNCHANGED <<parent, input, signals>>

(* Back at the head of the loop, where initialize empties args.            *)
Loops(p, m) == Goes(p, "read", [m EXCEPT !.args = "nothing"])

Init ==
    /\ at = [p \in Process |-> IF p = 1 THEN "read" ELSE "none"]
    /\ parent = [p \in Process |-> 0]
    /\ mem = [p \in Process |-> Started]
    /\ piped \in BOOLEAN
    /\ typed = 0
    /\ stopped = {} /\ told = {} /\ signalled = {}
    /\ interrupted = FALSE
    /\ everStopped = {} /\ early = {}

-----------------------------------------------------------------------------
(* getcmd.  A read of the terminal brings one line; a read of a pipe       *)
(* brings what is there, and getline keeps what it does not need.          *)

getline(p) ==
    /\ At(p, "read") /\ mem[p].stdin = <<>>
    /\ \E n \in 1 .. MaxLine - typed :
        /\ piped \/ n = 1
        /\ \E lines \in [1 .. n -> Command] : mem' = [mem EXCEPT ![p].stdin = lines]
        /\ typed' = typed + n
    /\ UNCHANGED <<at, parent, piped, signals>>

(* The end of the input: ctrl+D, or the writer of the pipe has closed it,  *)
(* and then no process reads anything more.                                *)
getline_end(p) ==
    /\ At(p, "read") /\ mem[p].stdin = <<>>
    /\ typed' = IF piped THEN MaxLine ELSE typed
    /\ at' = [at EXCEPT ![p] = "zombie"]
    /\ mem' = [mem EXCEPT ![p] = Started]
    /\ UNCHANGED <<parent, piped, signals>>

(* Mutant: cd is run before the fork.                                      *)
getcmd_CdHere(p) ==
    LET line == Head(mem[p].stdin)
        m == [mem[p] EXCEPT !.args = line, !.stdin = Tail(@)]
    IN  /\ At(p, "read") /\ mem[p].stdin # <<>>
        /\ CASE line \in {"nothing", "exit"} -> Goes(p, "zombie", m)
             [] line = "cd" -> Loops(p, [m EXCEPT !.cwd = "away"])
             [] OTHER -> Goes(p, "fork", m)

(* The next line.  strcmp with the NULL of an empty line ends the process  *)
(* as well as exit does.                                                   *)
getcmd(p) ==
    LET line == Head(mem[p].stdin) IN
    /\ At(p, "read") /\ mem[p].stdin # <<>>
    /\ Goes(p, IF line \in {"nothing", "exit"} THEN "zombie" ELSE "fork",
               [mem[p] EXCEPT !.args = line, !.stdin = Tail(@)])

-----------------------------------------------------------------------------
(* pid = fork(): the child is there before either of the two has its pid.  *)

Unforked == {p \in Process : at[p] = "none"}

(* Mutant: a child begins with an empty list of jobs.                      *)
fork_FreshList(p) ==
    /\ At(p, "fork")
    /\ \E c \in Unforked :
        /\ \A q \in Unforked : c <= q
        /\ at' = [at EXCEPT ![p] = "forked", ![c] = "born"]
        /\ parent' = [parent EXCEPT ![c] = p]
        /\ mem' = [mem EXCEPT ![c] = [mem[p] EXCEPT !.jobs = <<>>]]
    /\ UNCHANGED <<input, signals>>

fork(p) ==
    /\ At(p, "fork")
    /\ \E c \in Unforked :
        /\ \A q \in Unforked : c <= q
        /\ at' = [at EXCEPT ![p] = "forked", ![c] = "born"]
        /\ parent' = [parent EXCEPT ![c] = p]
        /\ mem' = [mem EXCEPT ![c] = mem[p]]
    /\ UNCHANGED <<input, signals>>

(* Nobody looks for the -1 of a fork that fails.                           *)
fork_fails(p) ==
    /\ At(p, "fork") /\ Unforked = {}
    /\ Goes(p, "wait", [mem[p] EXCEPT !.pid = -1])

(* Mutant: the job is entered before it is waited for.                     *)
fork_parent_JobFirst(p) ==
    /\ At(p, "forked")
    /\ \E c \in Children(p) :
        /\ \A d \in Children(p) : d <= c
        /\ Goes(p, "wait", [mem[p] EXCEPT !.pid = c, !.jobs = Append(@, c)])

(* The newest child of p is the one it has just forked.                    *)
fork_parent(p) ==
    /\ At(p, "forked")
    /\ \E c \in Children(p) :
        /\ \A d \in Children(p) : d <= c
        /\ Goes(p, "wait", [mem[p] EXCEPT !.pid = c])

fork_child(p) ==
    /\ At(p, "born")
    /\ Goes(p, "builtin", [mem[p] EXCEPT !.pid = 0])

-----------------------------------------------------------------------------
(* The builtins, in the child.                                             *)

(* ls, cat, cp: execvp does not return, or fails.                          *)
buildin_program(p) ==
    /\ mem[p].args = "program"
    /\ Goes(p, "program", mem[p]) \/ Loops(p, mem[p])

buildin_cd(p) ==
    /\ mem[p].args = "cd"
    /\ Loops(p, [mem[p] EXCEPT !.cwd = "away"]) \/ Loops(p, mem[p])

(* The number is looked up in the child's copy of the list.  One that is   *)
(* not there ends the child; one that is names no child of this process,   *)
(* which has none, and waitpid returns at once.                            *)
buildin_fg(p) ==
    /\ mem[p].args = "fg"
    /\ Goes(p, "zombie", mem[p]) \/ Loops(p, mem[p])

(* jobs, pwd, or no builtin at all: none has an effect.                    *)
no_effect(p) ==
    /\ mem[p].args = "other"
    /\ Loops(p, mem[p])

builtin(p) ==
    /\ At(p, "builtin")
    /\ buildin_program(p) \/ buildin_cd(p) \/ buildin_fg(p) \/ no_effect(p)

(* A program ends by itself.                                               *)
program_ends(p) ==
    /\ At(p, "program")
    /\ Goes(p, "zombie", mem[p])

-----------------------------------------------------------------------------
(* The parent.                                                             *)

(* The children that waitpid(pid, ..) is about: pid, or all for 0 and -1.  *)
Awaited(p) ==
    {c \in Children(p) : at[c] # "reaped" /\ (mem[p].pid > 0 => c = mem[p].pid)}

Reaps(p, a) ==
    /\ \E c \in Awaited(p) :
        at[c] = "zombie" /\ at' = [at EXCEPT ![p] = a, ![c] = "reaped"]
    /\ mem' = [mem EXCEPT ![p] = IF a = "zombie" THEN Started ELSE @]
    /\ UNCHANGED <<parent, input, signals>>

(* Mutants: WNOHANG; a wait that fails is tried again.                     *)
wait_NoHang(p) ==
    /\ At(p, "wait")
    /\ Reaps(p, "append") \/ Goes(p, "append", mem[p])

wait_Insists(p) ==
    /\ At(p, "wait")
    /\ Reaps(p, "append")

(* waitpid(pid, &status, WUNTRACED) returns for a child that is stopped    *)
(* too, and with -1 when there is no such child.                           *)
wait(p) ==
    /\ At(p, "wait")
    /\ \/ Reaps(p, "append")
       \/ Awaited(p) = {} /\ Goes(p, "append", mem[p])
       \/ /\ \E c \in (Awaited(p) \cap stopped) \ told : told' = told \cup {c}
          /\ at' = [at EXCEPT ![p] = "append"]
          /\ UNCHANGED <<parent, mem, input,
                         stopped, signalled, interrupted, everStopped, early>>

(* Mutant: the number of the job in the place of its pid.                  *)
append_job_Number(p) ==
    /\ At(p, "append")
    /\ Loops(p, [mem[p] EXCEPT !.jobs = Append(@, Len(@))])

(* Every command becomes a job, once it has been waited for.               *)
append_job(p) ==
    /\ At(p, "append")
    /\ Loops(p, [mem[p] EXCEPT !.jobs = Append(@, mem[p].pid)])

-----------------------------------------------------------------------------
(* Signals.                                                                *)

(* Mutants: the handler does not wait; it does not end the shell.          *)
sigHandler_NoWait(p) ==
    /\ At(p, "handler")
    /\ Goes(p, "zombie", mem[p])

sigHandler_Returns(p) ==
    /\ At(p, "handler")
    /\ \/ Reaps(p, "read")
       \/ Awaited(p) = {} /\ Loops(p, mem[p])

(* The handler waits for the process its pid names, then ends.             *)
sigHandler(p) ==
    /\ At(p, "handler")
    /\ \/ Reaps(p, "zombie")
       \/ Awaited(p) = {} /\ Goes(p, "zombie", mem[p])

(* SIGINT: a program is ended, a shell enters its handler.                 *)
AfterInterrupt(p) == IF at[p] = "program" THEN "zombie" ELSE "handler"

(* ctrl+C goes to every process of the group.                              *)
interrupt ==
    /\ ~interrupted
    /\ interrupted' = TRUE
    /\ at' = [p \in Process |->
                 IF p \in Live \ stopped THEN AfterInterrupt(p) ELSE at[p]]
    /\ signalled' = stopped
    /\ early' = {p \in Process : At(p, "forked")}
    /\ mem' = [p \in Process |-> IF at'[p] = "zombie" THEN Started ELSE mem[p]]
    /\ UNCHANGED <<parent, input, stopped, told, everStopped>>

(* SIGSTOP and SIGCONT from outside: ctrl+Z is ignored by every process.   *)
stop(p) ==
    /\ p \in Live \ everStopped
    /\ Cardinality(everStopped) < MaxStop
    /\ stopped' = stopped \cup {p} /\ everStopped' = everStopped \cup {p}
    /\ UNCHANGED <<processes, input, told, signalled, interrupted, early>>

continue(p) ==
    /\ p \in Live \cap stopped
    /\ stopped' = stopped \ {p} /\ told' = told \ {p} /\ signalled' = signalled \ {p}
    /\ \/ p \notin signalled /\ UNCHANGED <<at, early>>
       \/ /\ p \in signalled
          /\ at' = [at EXCEPT ![p] = AfterInterrupt(p)]
          /\ early' = IF at[p] = "forked" THEN early \cup {p} ELSE early
    /\ mem' = [mem EXCEPT ![p] = IF at'[p] = "zombie" THEN Started ELSE @]
    /\ UNCHANGED <<parent, input, interrupted, everStopped>>

-----------------------------------------------------------------------------
Step(p) ==
    \/ getcmd(p)
    \/ fork(p) \/ fork_fails(p) \/ fork_parent(p) \/ fork_child(p)
    \/ builtin(p) \/ program_ends(p)
    \/ wait(p) \/ append_job(p)
    \/ sigHandler(p)

Reads(p) == getline(p) \/ getline_end(p)

Next ==
    \/ \E p \in Process : Step(p) \/ Reads(p) \/ stop(p) \/ continue(p)
    \/ interrupt

ShellSafety == Init /\ [][Next]_vars

(* The processes run, programs end, and a pipe is written to or closed.    *)
(* Nobody need type at a terminal, nor continue what is stopped.           *)
ShellSpec ==
    /\ ShellSafety
    /\ \A p \in Process :
          WF_vars(Step(p)) /\ WF_vars(piped /\ Reads(p))

-----------------------------------------------------------------------------
(* Properties.                                                             *)

Place == {"none", "read", "fork", "forked", "born", "builtin", "program", "wait",
          "append", "handler", "zombie", "reaped"}

Image == [pid : Process \cup {0, -1}, args : Command,
          jobs : Seq(Process \cup {-1}), stdin : Seq(Command),
          cwd : {"home", "away"}]

(* The variables keep their types; a job that is no process number is the  *)
(* -1 of a fork that failed.                                               *)
ShellTypeOK ==
    /\ at \in [Process -> Place]
    /\ parent \in [Process -> Process \cup {0}]
    /\ mem \in [Process -> Image]
    /\ piped \in BOOLEAN /\ typed \in Nat
    /\ stopped \subseteq everStopped /\ everStopped \subseteq Process
    /\ told \subseteq stopped /\ signalled \subseteq stopped
    /\ interrupted \in BOOLEAN
    /\ early \subseteq Process

(* However deep the shells are nested, one process at a time reads the     *)
(* input and acts on it; the others wait, each for the next.  Only a stop  *)
(* from outside lets a second one go on (waitpid has WUNTRACED).           *)
OneReader ==
    everStopped # {} \/ \A p, q \in Process : at[p] = "read" /\ at[q] = "read" => p = q

(* jobs lists what is over: a process gets its number when it has been     *)
(* waited for, so that fg can never find one to wait for, unless it was    *)
(* stopped.                                                                *)
JobsAreDone ==
    \A p \in Live : \A k \in DOMAIN mem[p].jobs :
        LET j == mem[p].jobs[k] IN
        j = -1 \/ j \in everStopped \/ at[j] \in Gone

(* A number means one job in all shells: a nested shell copies the list of *)
(* the one it comes from, which cannot grow its own before this one ends.  *)
NumbersAgree ==
    everStopped # {} \/
        \A p, q \in Live : \A k \in DOMAIN mem[p].jobs \cap DOMAIN mem[q].jobs :
            mem[p].jobs[k] = mem[q].jobs[k]

(* No shell ends before its child, when its input ends, it is killed by an *)
(* empty line, or ctrl+C ends them all; except that the handler waits for  *)
(* the command before, if it comes while the pid of a child is not yet     *)
(* assigned.                                                               *)
ParentsEndLast ==
    \A c \in Live : parent[c] # 0 /\ at[parent[c]] \in Gone =>
        everStopped # {} \/ parent[c] \in early

(* The first shell never leaves its directory: cd is run by a child.       *)
FirstShellStays == mem[1].cwd = "home"

(* ctrl+C ends every shell and every program, if what is stopped is        *)
(* continued: the handlers, each waiting for a child, do not wait for ever.*)
EndsAfterInterrupt == []<>(stopped = {}) => (interrupted ~> Live = {})

(* Commands that come from a pipe come to an end, though each nested shell *)
(* runs what its parent has buffered, and its parent runs it again.        *)
ScriptEnds == []<>(stopped = {}) => (piped ~> Live = {})
=============================================================================
