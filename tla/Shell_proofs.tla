----------------------------- MODULE Shell_proofs -----------------------------
(***************************************************************************)
(* Theorems about Shell, for any number of processes, lines and stops.     *)
(***************************************************************************)
EXTENDS Shell, TLAPS

(* What fork left in pid while a process waits: never the 0 of a child.    *)
WaitsForPid == \A p \in Process : at[p] \in {"wait", "append"} => mem[p].pid # 0

TypeInv == ShellTypeOK /\ WaitsForPid

(* A step of one process keeps the types, if what it writes has them.      *)
LEMMA GoesType ==
    ASSUME TypeInv, NEW p \in Process, NEW a \in Place, NEW m \in Image, Goes(p, a, m),
           a \in {"wait", "append"} => m.pid # 0
    PROVE  TypeInv'
<1>1. Started \in Image
  BY ShellAssumption DEF Started, Image, Command
<1>2. /\ at' = [at EXCEPT ![p] = a]
      /\ mem' = [mem EXCEPT ![p] = IF a = "zombie" THEN Started ELSE m]
      /\ UNCHANGED <<parent, input, signals>>
  BY DEF Goes
<1>3. ShellTypeOK'
  BY <1>1, <1>2 DEF TypeInv, ShellTypeOK, input, signals
<1>4. WaitsForPid'
  BY <1>2 DEF TypeInv, ShellTypeOK, WaitsForPid
<1> QED
  BY <1>3, <1>4 DEF TypeInv

LEMMA LoopsType ==
    ASSUME TypeInv, NEW p \in Process, NEW m \in Image, Loops(p, m)
    PROVE  TypeInv'
<1>1. [m EXCEPT !.args = "nothing"] \in Image
  BY DEF Image, Command
<1> QED
  BY <1>1, GoesType DEF Loops, Place

LEMMA ReapsType ==
    ASSUME TypeInv, NEW p \in Process, NEW a \in Place, Reaps(p, a),
           a = "append" => mem[p].pid # 0, a # "wait"
    PROVE  TypeInv'
<1>1. Started \in Image
  BY ShellAssumption DEF Started, Image, Command
<1>2. PICK c \in Awaited(p) :
        /\ at[c] = "zombie" /\ at' = [at EXCEPT ![p] = a, ![c] = "reaped"]
        /\ mem' = [mem EXCEPT ![p] = IF a = "zombie" THEN Started ELSE @]
        /\ UNCHANGED <<parent, input, signals>>
  BY DEF Reaps
<1>3. c \in Process
  BY DEF Awaited, Children
<1>4. ShellTypeOK'
  BY <1>1, <1>2, <1>3 DEF TypeInv, ShellTypeOK, input, signals, Place
<1>5. WaitsForPid'
  BY <1>2, <1>3 DEF TypeInv, ShellTypeOK, WaitsForPid
<1> QED
  BY <1>4, <1>5 DEF TypeInv

(* No step of any process, signal or stop changes the type of a variable.  *)
LEMMA TypeStep == TypeInv /\ [Next]_vars => TypeInv'
<1> SUFFICES ASSUME TypeInv, [Next]_vars PROVE TypeInv'
  OBVIOUS
<1>a. ShellTypeOK /\ WaitsForPid
  BY DEF TypeInv
<1>b. Started \in Image
  BY ShellAssumption DEF Started, Image, Command
<1>1. CASE \E p \in Process : Step(p)
  <2> PICK p \in Process : Step(p)
    BY <1>1
  <2>m. mem[p] \in Image /\ at[p] \in Place
    BY <1>a DEF ShellTypeOK
  <2>1. CASE getcmd(p)
    <3> DEFINE line == Head(mem[p].stdin)
               m == [mem[p] EXCEPT !.args = line, !.stdin = Tail(@)]
    <3>1. mem[p].stdin \in Seq(Command) /\ mem[p].stdin # <<>>
      BY <2>1, <2>m DEF getcmd, Image
    <3>2. line \in Command /\ Tail(mem[p].stdin) \in Seq(Command)
      BY <3>1
    <3>3. m \in Image
      BY <2>m, <3>2 DEF Image
    <3>4. Goes(p, IF line \in {"nothing", "exit"} THEN "zombie" ELSE "fork", m)
      BY <2>1 DEF getcmd
    <3> QED
      BY <3>3, <3>4, GoesType DEF Place
  <2>2. CASE fork(p)
    <3>1. PICK c \in Unforked :
            /\ at' = [at EXCEPT ![p] = "forked", ![c] = "born"]
            /\ parent' = [parent EXCEPT ![c] = p]
            /\ mem' = [mem EXCEPT ![c] = mem[p]]
            /\ UNCHANGED <<input, signals>>
      BY <2>2 DEF fork
    <3>2. c \in Process
      BY DEF Unforked
    <3>3. ShellTypeOK'
      BY <1>a, <2>m, <3>1, <3>2 DEF ShellTypeOK, Place, input, signals
    <3>4. WaitsForPid'
      BY <1>a, <3>1, <3>2 DEF ShellTypeOK, WaitsForPid
    <3> QED
      BY <3>3, <3>4 DEF TypeInv
  <2>3. CASE fork_fails(p)
    <3>1. [mem[p] EXCEPT !.pid = -1] \in Image
      BY <2>m DEF Image
    <3>2. Goes(p, "wait", [mem[p] EXCEPT !.pid = -1])
      BY <2>3 DEF fork_fails
    <3>3. [mem[p] EXCEPT !.pid = -1].pid # 0
      BY <2>m DEF Image
    <3> QED
      BY <3>1, <3>2, <3>3, GoesType DEF Place
  <2>4. CASE fork_parent(p)
    <3>1. PICK c \in Children(p) : Goes(p, "wait", [mem[p] EXCEPT !.pid = c])
      BY <2>4 DEF fork_parent
    <3>2. c \in Process
      BY DEF Children
    <3>3. [mem[p] EXCEPT !.pid = c] \in Image /\ [mem[p] EXCEPT !.pid = c].pid # 0
      BY <2>m, <3>2 DEF Image, Process
    <3> QED
      BY <3>1, <3>3, GoesType DEF Place
  <2>5. CASE fork_child(p)
    <3>1. [mem[p] EXCEPT !.pid = 0] \in Image
      BY <2>m DEF Image
    <3>2. Goes(p, "builtin", [mem[p] EXCEPT !.pid = 0])
      BY <2>5 DEF fork_child
    <3> QED
      BY <3>1, <3>2, GoesType DEF Place
  <2>6. CASE builtin(p)
    <3>1. [mem[p] EXCEPT !.cwd = "away"] \in Image
      BY <2>m DEF Image
    <3>2. \/ \E a \in {"program", "zombie"} : Goes(p, a, mem[p])
          \/ \E m \in {mem[p], [mem[p] EXCEPT !.cwd = "away"]} : Loops(p, m)
      BY <2>6 DEF builtin, buildin_program, buildin_cd, buildin_fg, no_effect
    <3> QED
      BY <2>m, <3>1, <3>2, GoesType, LoopsType DEF Place
  <2>7. CASE program_ends(p)
    BY <2>7, <2>m, GoesType DEF program_ends, Place
  <2>8. CASE wait(p)
    <3>1. mem[p].pid # 0 /\ at[p] = "wait"
      BY <2>8, <1>a DEF wait, At, WaitsForPid
    <3>2. CASE Reaps(p, "append")
      BY <3>1, <3>2, ReapsType DEF Place
    <3>3. CASE Goes(p, "append", mem[p])
      BY <2>m, <3>1, <3>3, GoesType DEF Place
    <3>4. CASE /\ \E c \in (Awaited(p) \cap stopped) \ told : told' = told \cup {c}
               /\ at' = [at EXCEPT ![p] = "append"]
               /\ UNCHANGED <<parent, mem, input,
                              stopped, signalled, interrupted, everStopped, early>>
      <4>1. ShellTypeOK'
        BY <1>a, <3>4 DEF ShellTypeOK, Place, input
      <4>2. WaitsForPid'
        BY <1>a, <3>1, <3>4 DEF ShellTypeOK, WaitsForPid
      <4> QED
        BY <4>1, <4>2 DEF TypeInv
    <3> QED
      BY <2>8, <3>2, <3>3, <3>4 DEF wait
  <2>9. CASE append_job(p)
    <3>1. mem[p].pid \in Process \cup {-1}
      BY <2>9, <2>m, <1>a DEF append_job, At, WaitsForPid, Image
    <3>2. Append(mem[p].jobs, mem[p].pid) \in Seq(Process \cup {-1})
      BY <2>m, <3>1 DEF Image
    <3>3. [mem[p] EXCEPT !.jobs = Append(@, mem[p].pid)] \in Image
      BY <2>m, <3>2 DEF Image
    <3> QED
      BY <2>9, <3>3, LoopsType DEF append_job
  <2>10. CASE sigHandler(p)
    BY <2>10, <2>m, GoesType, ReapsType DEF sigHandler, Place
  <2> QED
    BY <2>1, <2>2, <2>3, <2>4, <2>5, <2>6, <2>7, <2>8, <2>9, <2>10 DEF Step
<1>2. CASE \E p \in Process : Reads(p)
  <2> PICK p \in Process : Reads(p)
    BY <1>2
  <2>1. CASE getline(p)
    <3>1. PICK n \in 1 .. MaxLine - typed :
            /\ \E lines \in [1 .. n -> Command] : mem' = [mem EXCEPT ![p].stdin = lines]
            /\ typed' = typed + n
      BY <2>1 DEF getline
    <3>2. PICK lines \in [1 .. n -> Command] : mem' = [mem EXCEPT ![p].stdin = lines]
      BY <3>1
    <3>3. n \in Nat /\ typed' \in Nat
      BY <1>a, <3>1, ShellAssumption DEF ShellTypeOK
    <3>4. lines \in Seq(Command)
      BY <3>2, <3>3
    <3>5. mem' \in [Process -> Image]
      <4>1. mem \in [Process -> Image] /\ mem[p] \in Image
        BY <1>a DEF ShellTypeOK
      <4>2. [mem[p] EXCEPT !.stdin = lines] \in Image
        BY <3>4, <4>1 DEF Image
      <4>3. mem' = [mem EXCEPT ![p] = [mem[p] EXCEPT !.stdin = lines]]
        BY <3>2
      <4> QED
        BY <4>1, <4>2, <4>3
    <3>6. UNCHANGED <<at, parent, piped, signals>>
      BY <2>1 DEF getline
    <3>7. \A q \in Process : mem'[q].pid = mem[q].pid
      BY <1>a, <3>2 DEF ShellTypeOK, Image
    <3> QED
      BY <1>a, <3>3, <3>5, <3>6, <3>7 DEF TypeInv, ShellTypeOK, WaitsForPid, signals
  <2>2. CASE getline_end(p)
    <3>1. /\ typed' = IF piped THEN MaxLine ELSE typed
          /\ at' = [at EXCEPT ![p] = "zombie"] /\ mem' = [mem EXCEPT ![p] = Started]
          /\ UNCHANGED <<parent, piped, signals>>
      BY <2>2 DEF getline_end
    <3>2. ShellTypeOK'
      BY <1>a, <1>b, <3>1, ShellAssumption DEF ShellTypeOK, Place, signals
    <3>3. WaitsForPid'
      BY <1>a, <3>1 DEF ShellTypeOK, WaitsForPid
    <3> QED
      BY <3>2, <3>3 DEF TypeInv
  <2> QED
    BY <2>1, <2>2 DEF Reads
<1>3. CASE interrupt
  <2>1. at' \in [Process -> Place] /\ mem' \in [Process -> Image]
    BY <1>3, <1>a, <1>b DEF interrupt, AfterInterrupt, ShellTypeOK, Place
  <2>2. ShellTypeOK'
    BY <1>3, <1>a, <2>1 DEF interrupt, ShellTypeOK, input, At
  <2>3. WaitsForPid'
    BY <1>3, <1>a DEF interrupt, AfterInterrupt, ShellTypeOK, WaitsForPid
  <2> QED
    BY <2>2, <2>3 DEF TypeInv
<1>4. CASE \E p \in Process : stop(p)
  BY <1>4, <1>a DEF stop, processes, input, TypeInv, ShellTypeOK, WaitsForPid
<1>5. CASE \E p \in Process : continue(p)
  <2> PICK p \in Process : continue(p)
    BY <1>5
  <2>1. /\ at' \in [Process -> Place] /\ mem' \in [Process -> Image]
        /\ \A q \in Process : at'[q] \in {"wait", "append"} => at'[q] = at[q]
        /\ \A q \in Process : at'[q] \in {"wait", "append"} => mem'[q] = mem[q]
    BY <1>a, <1>b DEF continue, AfterInterrupt, ShellTypeOK, Place
  <2>2. /\ stopped' \subseteq everStopped' /\ everStopped' \subseteq Process
        /\ told' \subseteq stopped' /\ signalled' \subseteq stopped' /\ early' \subseteq Process
        /\ UNCHANGED <<parent, piped, typed, interrupted>>
    BY <1>a DEF continue, ShellTypeOK, input
  <2>3. ShellTypeOK'
    BY <1>a, <2>1, <2>2 DEF ShellTypeOK
  <2>4. WaitsForPid'
    BY <1>a, <2>1 DEF WaitsForPid
  <2> QED
    BY <2>3, <2>4 DEF TypeInv
<1>6. CASE UNCHANGED vars
  BY <1>6, <1>a DEF vars, processes, input, signals, TypeInv, ShellTypeOK, WaitsForPid
<1> QED
  BY <1>1, <1>2, <1>3, <1>4, <1>5, <1>6 DEF Next

(* The variables of the shells keep their types.                           *)
THEOREM ShellTypeCorrect == ShellSafety => []ShellTypeOK
<1>1. Init => TypeInv
  <2> SUFFICES ASSUME Init PROVE TypeInv
    OBVIOUS
  <2>1. Started \in Image
    BY ShellAssumption DEF Started, Image, Command
  <2> QED
    BY <2>1, ShellAssumption
    DEF Init, TypeInv, ShellTypeOK, WaitsForPid, Place
<1>2. TypeInv => ShellTypeOK
  BY DEF TypeInv
<1> QED
  BY <1>1, <1>2, TypeStep, PTL DEF ShellSafety

-----------------------------------------------------------------------------
(* What no step undoes: that a process has ended, was stopped, or was      *)
(* forked, and by which one.                                               *)
Kept ==
    /\ everStopped \subseteq everStopped'
    /\ \A j \in Process :
        /\ at[j] \in Gone => at'[j] \in Gone
        /\ at[j] # "none" => at'[j] # "none" /\ parent'[j] = parent[j]

LEMMA GoesKept ==
    ASSUME TypeInv, NEW p \in Process, NEW a \in Place, NEW m, Goes(p, a, m),
           at[p] \notin Gone, a # "none"
    PROVE  Kept
BY DEF Goes, Kept, TypeInv, ShellTypeOK, signals, Gone

LEMMA LoopsKept ==
    ASSUME TypeInv, NEW p \in Process, NEW m, Loops(p, m), at[p] \notin Gone
    PROVE  Kept
BY GoesKept DEF Loops, Place

LEMMA ReapsKept ==
    ASSUME TypeInv, NEW p \in Process, NEW a \in Place, Reaps(p, a),
           at[p] \notin Gone, a # "none"
    PROVE  Kept
BY DEF Reaps, Kept, TypeInv, ShellTypeOK, signals, Gone, Awaited, Children

LEMMA StepKept == TypeInv /\ [Next]_vars => Kept
<1> SUFFICES ASSUME TypeInv, [Next]_vars PROVE Kept
  OBVIOUS
<1>a. ShellTypeOK
  BY DEF TypeInv
<1>1. CASE \E p \in Process : Step(p)
  <2> PICK p \in Process : Step(p)
    BY <1>1
  <2>1. CASE getcmd(p)
    <3>1. \E a \in {"zombie", "fork"}, m \in {[mem[p] EXCEPT !.args = Head(mem[p].stdin),
                                                           !.stdin = Tail(@)]} :
              Goes(p, a, m) /\ at[p] \notin Gone
      BY <2>1 DEF getcmd, At, Gone
    <3> QED
      BY <3>1, GoesKept DEF Place
  <2>2. CASE fork(p)
    BY <2>2, <1>a DEF fork, At, Unforked, Kept, ShellTypeOK, signals, Gone
  <2>3. CASE fork_fails(p)
    BY <2>3, GoesKept DEF fork_fails, At, Gone, Place
  <2>4. CASE fork_parent(p)
    BY <2>4, GoesKept DEF fork_parent, At, Gone, Place
  <2>5. CASE fork_child(p)
    BY <2>5, GoesKept DEF fork_child, At, Gone, Place
  <2>6. CASE builtin(p)
    <3>1. at[p] \notin Gone
      BY <2>6 DEF builtin, At, Gone
    <3> QED
      BY <2>6, <3>1, GoesKept, LoopsKept
      DEF builtin, buildin_program, buildin_cd, buildin_fg, no_effect, Place
  <2>7. CASE program_ends(p)
    BY <2>7, GoesKept DEF program_ends, At, Gone, Place
  <2>8. CASE wait(p)
    <3>1. at[p] \notin Gone
      BY <2>8 DEF wait, At, Gone
    <3>2. CASE Reaps(p, "append")
      BY <3>1, <3>2, ReapsKept DEF Place
    <3>3. CASE Goes(p, "append", mem[p])
      BY <3>1, <3>3, GoesKept DEF Place
    <3>4. CASE at' = [at EXCEPT ![p] = "append"] /\ UNCHANGED <<parent, everStopped>>
      BY <3>1, <3>4, <1>a DEF Kept, ShellTypeOK, Gone
    <3> QED
      BY <2>8, <3>2, <3>3, <3>4 DEF wait
  <2>9. CASE append_job(p)
    BY <2>9, LoopsKept DEF append_job, At, Gone
  <2>10. CASE sigHandler(p)
    BY <2>10, GoesKept, ReapsKept DEF sigHandler, At, Gone, Place
  <2> QED
    BY <2>1, <2>2, <2>3, <2>4, <2>5, <2>6, <2>7, <2>8, <2>9, <2>10 DEF Step
<1>2. CASE \E p \in Process : Reads(p)
  BY <1>2, <1>a DEF Reads, getline, getline_end, At, Kept, ShellTypeOK, signals, Gone
<1>3. CASE interrupt
  BY <1>3, <1>a DEF interrupt, AfterInterrupt, Live, Alive, Kept, ShellTypeOK, Gone
<1>4. CASE \E p \in Process : stop(p)
  BY <1>4, <1>a DEF stop, processes, Kept, ShellTypeOK
<1>5. CASE \E p \in Process : continue(p)
  BY <1>5, <1>a DEF continue, AfterInterrupt, Live, Alive, Kept, ShellTypeOK, Gone
<1>6. CASE UNCHANGED vars
  BY <1>6 DEF vars, processes, signals, Kept
<1> QED
  BY <1>1, <1>2, <1>3, <1>4, <1>5, <1>6 DEF Next

-----------------------------------------------------------------------------
(* The list of jobs.                                                       *)

(* What may be entered in a list.                                          *)
Over(j) == j = -1 \/ j \in everStopped \/ at[j] \in Gone

(* The same in the state after a step.                                     *)
OverNext(j) == j = -1 \/ j \in everStopped' \/ at'[j] \in Gone

(* A process is about to enter what is over; while it waits, its pid is    *)
(* that of a child of its own.                                             *)
JobInv ==
    /\ JobsAreDone
    /\ \A p \in Process : at[p] = "append" => Over(mem[p].pid)
    /\ \A p \in Process : at[p] = "wait" /\ mem[p].pid > 0 =>
          at[mem[p].pid] # "none" /\ parent[mem[p].pid] = p

(* What is over stays over, and a child stays a child.                     *)
LEMMA OverKept ==
    ASSUME TypeInv, Kept, NEW j \in Process \cup {-1}, Over(j)
    PROVE  OverNext(j)
BY DEF Kept, Over, OverNext, TypeInv, ShellTypeOK

(* A step that keeps the jobs of all live processes, and where only p      *)
(* changes its place and its memory.                                       *)
LEMMA JobStep ==
    ASSUME TypeInv, TypeInv', JobInv, Kept, NEW p \in Process,
           \A q \in Process \ {p} :
              /\ mem'[q] = mem[q]
              /\ at'[q] # at[q] => at'[q] \notin {"append", "wait"} /\ (q \in Live' => q \in Live),
           p \in Live' => \A k \in DOMAIN mem'[p].jobs : OverNext(mem'[p].jobs[k]),
           at'[p] = "append" => OverNext(mem'[p].pid),
           at'[p] = "wait" /\ mem'[p].pid > 0 =>
              at'[mem'[p].pid] # "none" /\ parent'[mem'[p].pid] = p
    PROVE  JobInv'
<1>1. \A q \in Process : /\ mem[q] \in Image /\ mem'[q] \in Image
                        /\ \A k \in DOMAIN mem[q].jobs : mem[q].jobs[k] \in Process \cup {-1}
  <2> TAKE q \in Process
  <2>1. mem[q] \in Image /\ mem'[q] \in Image
    BY DEF TypeInv, ShellTypeOK
  <2>2. mem[q].jobs \in Seq(Process \cup {-1})
    BY <2>1 DEF Image
  <2> QED
    BY <2>1, <2>2
<1>2. JobsAreDone'
  <2> SUFFICES ASSUME NEW q \in Live', NEW k \in DOMAIN mem'[q].jobs
               PROVE  OverNext(mem'[q].jobs[k])
    BY DEF JobsAreDone, OverNext
  <2>0. q \in Process
    BY DEF Live
  <2>1. CASE q = p
    BY <2>1
  <2>2. CASE q # p
    <3>1. mem'[q] = mem[q] /\ q \in Live
      BY <2>0, <2>2 DEF Live, Alive
    <3>2. Over(mem[q].jobs[k])
      BY <3>1 DEF JobInv, JobsAreDone, Over
    <3>3. mem[q].jobs[k] \in Process \cup {-1}
      BY <1>1, <2>0, <3>1
    <3> QED
      BY <3>1, <3>2, <3>3, OverKept
  <2> QED
    BY <2>1, <2>2
<1>3. ASSUME NEW q \in Process, at'[q] = "append" PROVE OverNext(mem'[q].pid)
  <2>1. CASE q = p
    BY <2>1, <1>3
  <2>2. CASE q # p
    <3>1. mem'[q] = mem[q] /\ at[q] = "append"
      BY <2>2, <1>3
    <3>2. mem[q].pid \in Process \cup {-1}
      BY <1>1, <3>1 DEF TypeInv, WaitsForPid, Image
    <3>3. Over(mem[q].pid)
      BY <3>1 DEF JobInv
    <3> QED
      BY <3>1, <3>2, <3>3, OverKept
  <2> QED
    BY <2>1, <2>2
<1>4. ASSUME NEW q \in Process, at'[q] = "wait", mem'[q].pid > 0
      PROVE  at'[mem'[q].pid] # "none" /\ parent'[mem'[q].pid] = q
  <2>1. CASE q = p
    BY <2>1, <1>4
  <2>2. CASE q # p
    <3>1. mem'[q] = mem[q] /\ at[q] = "wait"
      BY <2>2, <1>4
    <3>2. mem[q].pid \in Process
      BY <1>1, <1>4, <3>1 DEF Image, Process
    <3> QED
      BY <1>4, <3>1, <3>2 DEF JobInv, Kept
  <2> QED
    BY <2>1, <2>2
<1> QED
  BY <1>2, <1>3, <1>4 DEF JobInv, Over, OverNext

(* The jobs a process has listed are still over after a step.              *)
LEMMA OldJobs ==
    ASSUME TypeInv, JobInv, Kept, NEW p \in Process, p \in Live,
           NEW k \in DOMAIN mem[p].jobs
    PROVE  mem[p].jobs[k] \in Process \cup {-1} /\ OverNext(mem[p].jobs[k])
<1>1. mem[p].jobs \in Seq(Process \cup {-1})
  BY DEF TypeInv, ShellTypeOK, Image
<1>2. mem[p].jobs[k] \in Process \cup {-1}
  BY <1>1
<1>3. Over(mem[p].jobs[k])
  BY DEF JobInv, JobsAreDone, Over
<1> QED
  BY <1>2, <1>3, OverKept

(* A step of one process that keeps its list, and does not come to wait    *)
(* for a child.                                                            *)
LEMMA GoesJobs ==
    ASSUME TypeInv, TypeInv', JobInv, Kept, NEW p \in Process, p \in Live,
           NEW a \in Place, NEW m, Goes(p, a, m),
           m.jobs = mem[p].jobs, a # "append", a = "wait" => m.pid = -1
    PROVE  JobInv'
<1>1. /\ at' = [at EXCEPT ![p] = a]
      /\ mem' = [mem EXCEPT ![p] = IF a = "zombie" THEN Started ELSE m]
  BY DEF Goes
<1>2. at'[p] = a /\ mem'[p] = (IF a = "zombie" THEN Started ELSE m)
  BY <1>1 DEF TypeInv, ShellTypeOK
<1>3. \A q \in Process \ {p} : mem'[q] = mem[q] /\ at'[q] = at[q]
  BY <1>1 DEF TypeInv, ShellTypeOK
<1>4. p \in Live' => \A k \in DOMAIN mem'[p].jobs : OverNext(mem'[p].jobs[k])
  BY <1>2, OldJobs DEF Live, Alive, Gone
<1>5. at'[p] # "append" /\ (at'[p] = "wait" => ~ (mem'[p].pid > 0))
  BY <1>2
<1> QED
  BY <1>3, <1>4, <1>5, JobStep

LEMMA LoopsJobs ==
    ASSUME TypeInv, TypeInv', JobInv, Kept, NEW p \in Process, p \in Live,
           NEW m \in Image, Loops(p, m), m.jobs = mem[p].jobs
    PROVE  JobInv'
<1>1. [m EXCEPT !.args = "nothing"].jobs = mem[p].jobs
  BY DEF Image
<1> QED
  BY <1>1, GoesJobs DEF Loops, Place

LEMMA JobsStep == TypeInv /\ TypeInv' /\ JobInv /\ [Next]_vars => JobInv'
<1> SUFFICES ASSUME TypeInv, TypeInv', JobInv, [Next]_vars PROVE JobInv'
  OBVIOUS
<1>k. Kept
  BY StepKept
<1>a. ShellTypeOK /\ WaitsForPid
  BY DEF TypeInv
<1>1. CASE \E p \in Process : Step(p)
  <2> PICK p \in Process : Step(p)
    BY <1>1
  <2>m. mem[p] \in Image /\ at[p] \in Place
    BY <1>a DEF ShellTypeOK
  <2>l. p \in Live
    BY DEF Step, getcmd, fork, fork_fails, fork_parent, fork_child, builtin, program_ends,
           wait, append_job, sigHandler, At, Live, Alive, Gone
  <2>1. CASE getcmd(p)
    <3>1. [mem[p] EXCEPT !.args = Head(mem[p].stdin), !.stdin = Tail(@)].jobs = mem[p].jobs
      BY <2>m DEF Image
    <3>2. \E a \in {"zombie", "fork"} :
             Goes(p, a, [mem[p] EXCEPT !.args = Head(mem[p].stdin), !.stdin = Tail(@)])
      BY <2>1 DEF getcmd
    <3> QED
      BY <1>k, <2>l, <3>1, <3>2, GoesJobs DEF Place
  <2>2. CASE fork(p)
    <3>1. PICK c \in Unforked :
            /\ at' = [at EXCEPT ![p] = "forked", ![c] = "born"]
            /\ parent' = [parent EXCEPT ![c] = p]
            /\ mem' = [mem EXCEPT ![c] = mem[p]]
      BY <2>2 DEF fork
    <3>2. c \in Process /\ c # p /\ at[c] = "none"
      BY <2>l DEF Unforked, Live, Alive
    <3>3. /\ at'[p] = "forked" /\ at'[c] = "born" /\ mem'[c] = mem[p]
          /\ \A q \in Process \ {c} : mem'[q] = mem[q]
          /\ \A q \in Process \ {p, c} : at'[q] = at[q]
      BY <1>a, <3>1, <3>2 DEF ShellTypeOK
    <3>4. JobsAreDone'
      <4> SUFFICES ASSUME NEW q \in Live', NEW k \in DOMAIN mem'[q].jobs
                   PROVE  OverNext(mem'[q].jobs[k])
        BY DEF JobsAreDone, OverNext
      <4>1. PICK r \in Process : r \in Live /\ mem'[q] = mem[r]
        BY <2>l, <3>2, <3>3 DEF Live, Alive
      <4> QED
        BY <1>k, <4>1, OldJobs
    <3>5. ASSUME NEW q \in Process, at'[q] = "append" PROVE OverNext(mem'[q].pid)
      <4>1. at[q] = "append" /\ mem'[q] = mem[q]
        BY <3>2, <3>3, <3>5
      <4>2. Over(mem[q].pid) /\ mem[q].pid \in Process \cup {-1}
        BY <1>a, <4>1 DEF JobInv, ShellTypeOK, WaitsForPid, Image
      <4> QED
        BY <1>k, <4>1, <4>2, OverKept
    <3>6. ASSUME NEW q \in Process, at'[q] = "wait", mem'[q].pid > 0
          PROVE  at'[mem'[q].pid] # "none" /\ parent'[mem'[q].pid] = q
      <4>1. at[q] = "wait" /\ mem'[q] = mem[q]
        BY <3>2, <3>3, <3>6
      <4>2. mem[q].pid \in Process
        BY <1>a, <3>6, <4>1 DEF ShellTypeOK, Image, Process
      <4> QED
        BY <1>k, <3>6, <4>1, <4>2 DEF JobInv, Kept
    <3> QED
      BY <3>4, <3>5, <3>6 DEF JobInv, Over, OverNext
  <2>3. CASE fork_fails(p)
    <3>1. /\ [mem[p] EXCEPT !.pid = -1].jobs = mem[p].jobs
          /\ [mem[p] EXCEPT !.pid = -1].pid = -1
      BY <2>m DEF Image
    <3> QED
      BY <1>k, <2>3, <2>l, <3>1, GoesJobs DEF fork_fails, Place
  <2>4. CASE fork_parent(p)
    <3>1. PICK c \in Children(p) : Goes(p, "wait", [mem[p] EXCEPT !.pid = c])
      BY <2>4 DEF fork_parent
    <3>2. c \in Process /\ at[c] # "none" /\ parent[c] = p
      BY DEF Children
    <3>3. /\ at' = [at EXCEPT ![p] = "wait"]
          /\ mem' = [mem EXCEPT ![p] = [mem[p] EXCEPT !.pid = c]]
      BY <3>1 DEF Goes
    <3>4. /\ at'[p] = "wait" /\ mem'[p].pid = c /\ mem'[p].jobs = mem[p].jobs
          /\ \A q \in Process \ {p} : mem'[q] = mem[q] /\ at'[q] = at[q]
      BY <1>a, <2>m, <3>3 DEF ShellTypeOK, Image
    <3>5. at'[c] # "none" /\ parent'[c] = p
      BY <1>k, <3>2 DEF Kept
    <3>6. \A k \in DOMAIN mem'[p].jobs : OverNext(mem'[p].jobs[k])
      BY <1>k, <2>l, <3>4, OldJobs
    <3> QED
      BY <1>k, <3>4, <3>5, <3>6, JobStep
  <2>5. CASE fork_child(p)
    <3>1. [mem[p] EXCEPT !.pid = 0].jobs = mem[p].jobs
      BY <2>m DEF Image
    <3> QED
      BY <1>k, <2>5, <2>l, <3>1, GoesJobs DEF fork_child, Place
  <2>6. CASE builtin(p)
    <3>1. /\ [mem[p] EXCEPT !.cwd = "away"] \in Image
          /\ [mem[p] EXCEPT !.cwd = "away"].jobs = mem[p].jobs
      BY <2>m DEF Image
    <3>2. \/ \E a \in {"program", "zombie"} : Goes(p, a, mem[p])
          \/ \E m \in {mem[p], [mem[p] EXCEPT !.cwd = "away"]} : Loops(p, m)
      BY <2>6 DEF builtin, buildin_program, buildin_cd, buildin_fg, no_effect
    <3> QED
      BY <1>k, <2>m, <2>l, <3>1, <3>2, GoesJobs, LoopsJobs DEF Place
  <2>7. CASE program_ends(p)
    BY <1>k, <2>7, <2>l, GoesJobs DEF program_ends, Place
  <2>8. CASE wait(p)
    <3>0. at[p] = "wait" /\ mem[p].pid \in Process \cup {-1}
      BY <2>8, <1>a, <2>m DEF wait, At, WaitsForPid, Image
    <3>p. mem[p].pid \in Process => mem[p].pid \in Children(p)
      BY <3>0 DEF JobInv, Children, Process
    <3>1. CASE Reaps(p, "append")
      <4>1. PICK c \in Awaited(p) :
              /\ at[c] = "zombie" /\ at' = [at EXCEPT ![p] = "append", ![c] = "reaped"]
              /\ mem' = [mem EXCEPT ![p] = mem[p]]
        BY <3>1, <1>a DEF Reaps, ShellTypeOK
      <4>2. c \in Process /\ c # p /\ (mem[p].pid \in Process => c = mem[p].pid)
        BY <4>1, <3>0 DEF Awaited, Children, Process
      <4>3. /\ at'[p] = "append" /\ at'[c] = "reaped" /\ mem' = mem
            /\ \A q \in Process \ {p, c} : at'[q] = at[q]
        BY <1>a, <4>1, <4>2 DEF ShellTypeOK
      <4>4. OverNext(mem'[p].pid)
        BY <3>0, <4>2, <4>3 DEF OverNext, Gone
      <4>5. \A k \in DOMAIN mem'[p].jobs : OverNext(mem'[p].jobs[k])
        BY <1>k, <2>l, <4>3, OldJobs
      <4>6. \A q \in Process \ {p} :
              /\ mem'[q] = mem[q]
              /\ at'[q] # at[q] => at'[q] \notin {"append", "wait"} /\ (q \in Live' => q \in Live)
        BY <4>2, <4>3 DEF Live, Alive, Gone
      <4> QED
        BY <1>k, <4>3, <4>4, <4>5, <4>6, JobStep
    <3>2. CASE Awaited(p) = {} /\ Goes(p, "append", mem[p])
      <4>1. at' = [at EXCEPT ![p] = "append"] /\ mem' = [mem EXCEPT ![p] = mem[p]]
        BY <3>2 DEF Goes
      <4>2. /\ at'[p] = "append" /\ mem' = mem
            /\ \A q \in Process \ {p} : at'[q] = at[q]
        BY <1>a, <4>1 DEF ShellTypeOK
      <4>3. mem[p].pid \in Process => at[mem[p].pid] = "reaped"
        BY <3>p, <3>2 DEF Awaited
      <4>4. OverNext(mem'[p].pid)
        BY <1>k, <3>0, <4>2, <4>3 DEF OverNext, Kept, Gone
      <4>5. \A k \in DOMAIN mem'[p].jobs : OverNext(mem'[p].jobs[k])
        BY <1>k, <2>l, <4>2, OldJobs
      <4> QED
        BY <1>k, <4>2, <4>4, <4>5, JobStep
    <3>3. CASE /\ \E c \in (Awaited(p) \cap stopped) \ told : told' = told \cup {c}
               /\ at' = [at EXCEPT ![p] = "append"]
               /\ UNCHANGED <<parent, mem, everStopped>>
      <4>1. /\ at'[p] = "append" /\ mem' = mem
            /\ \A q \in Process \ {p} : at'[q] = at[q]
        BY <1>a, <3>3 DEF ShellTypeOK
      <4>2. mem[p].pid \in Process => mem[p].pid \in everStopped
        BY <1>a, <3>0, <3>3 DEF Awaited, ShellTypeOK, Process
      <4>3. OverNext(mem'[p].pid)
        BY <3>0, <3>3, <4>1, <4>2 DEF OverNext
      <4>4. \A k \in DOMAIN mem'[p].jobs : OverNext(mem'[p].jobs[k])
        BY <1>k, <2>l, <4>1, OldJobs
      <4> QED
        BY <1>k, <4>1, <4>3, <4>4, JobStep
    <3> QED
      BY <2>8, <3>1, <3>2, <3>3 DEF wait
  <2>9. CASE append_job(p)
    <3> DEFINE m == [mem[p] EXCEPT !.jobs = Append(@, mem[p].pid)]
    <3>0. at[p] = "append" /\ mem[p].pid \in Process \cup {-1} /\ Over(mem[p].pid)
      BY <2>9, <1>a, <2>m DEF append_job, At, WaitsForPid, Image, JobInv
    <3>1. mem[p].jobs \in Seq(Process \cup {-1})
      BY <2>m DEF Image
    <3>2. m \in Image /\ m.jobs = Append(mem[p].jobs, mem[p].pid)
      <4>1. Append(mem[p].jobs, mem[p].pid) \in Seq(Process \cup {-1})
        BY <3>0, <3>1
      <4> QED
        BY <2>m, <4>1 DEF Image
    <3>3. Goes(p, "read", [m EXCEPT !.args = "nothing"])
      BY <2>9 DEF append_job, Loops
    <3>4. [m EXCEPT !.args = "nothing"].jobs = Append(mem[p].jobs, mem[p].pid)
      BY <3>2 DEF Image
    <3>5. /\ at'[p] = "read" /\ mem'[p].jobs = Append(mem[p].jobs, mem[p].pid)
          /\ \A q \in Process \ {p} : mem'[q] = mem[q] /\ at'[q] = at[q]
      BY <1>a, <3>3, <3>4 DEF Goes, ShellTypeOK
    <3>6. OverNext(mem[p].pid)
      BY <1>k, <3>0, OverKept
    <3>7. ASSUME NEW k \in DOMAIN mem'[p].jobs PROVE OverNext(mem'[p].jobs[k])
      <4>1. \/ k \in DOMAIN mem[p].jobs /\ mem'[p].jobs[k] = mem[p].jobs[k]
            \/ mem'[p].jobs[k] = mem[p].pid
        BY <3>1, <3>0, <3>5, <3>7
      <4> QED
        BY <1>k, <2>l, <3>6, <4>1, OldJobs
    <3> QED
      BY <1>k, <3>5, <3>7, JobStep
  <2>10. CASE sigHandler(p)
    <3>1. CASE Reaps(p, "zombie")
      <4>1. PICK c \in Awaited(p) :
              /\ at[c] = "zombie" /\ at' = [at EXCEPT ![p] = "zombie", ![c] = "reaped"]
              /\ mem' = [mem EXCEPT ![p] = Started]
        BY <3>1 DEF Reaps
      <4>2. c \in Process /\ at'[c] = "reaped" /\ at'[p] \in Gone
        BY <1>a, <4>1 DEF Awaited, Children, ShellTypeOK, Gone
      <4>3. \A q \in Process \ {p} :
              /\ mem'[q] = mem[q]
              /\ at'[q] # at[q] => at'[q] \notin {"append", "wait"} /\ (q \in Live' => q \in Live)
        BY <1>a, <4>1, <4>2 DEF Live, Alive, Gone, ShellTypeOK
      <4> QED
        BY <1>k, <4>2, <4>3, JobStep DEF Live, Alive, Gone
    <3>2. CASE Goes(p, "zombie", mem[p])
      BY <1>k, <2>l, <3>2, GoesJobs DEF Place
    <3> QED
      BY <2>10, <3>1, <3>2 DEF sigHandler
  <2> QED
    BY <2>1, <2>2, <2>3, <2>4, <2>5, <2>6, <2>7, <2>8, <2>9, <2>10 DEF Step
<1>2. CASE \E p \in Process : Reads(p)
  <2> PICK p \in Process : Reads(p)
    BY <1>2
  <2>1. /\ at[p] = "read" /\ at'[p] \in {"read", "zombie"}
        /\ \A q \in Process \ {p} : mem'[q] = mem[q] /\ at'[q] = at[q]
        /\ at'[p] = "read" => mem'[p].jobs = mem[p].jobs
    BY <1>a DEF Reads, getline, getline_end, At, ShellTypeOK, Image
  <2>2. p \in Live' => \A k \in DOMAIN mem'[p].jobs : OverNext(mem'[p].jobs[k])
    BY <1>k, <2>1, OldJobs DEF Live, Alive, Gone
  <2> QED
    BY <1>k, <2>1, <2>2, JobStep
<1>3. CASE \/ interrupt \/ UNCHANGED vars
           \/ \E p \in Process : stop(p) \/ continue(p)
  <2>1. \A q \in Process :
          /\ q \in Live' => q \in Live /\ mem'[q] = mem[q]
          /\ at'[q] \in {"append", "wait"} => at'[q] = at[q] /\ mem'[q] = mem[q]
    BY <1>3, <1>a DEF interrupt, stop, continue, vars, processes, AfterInterrupt, Live, Alive,
                      Gone, ShellTypeOK
  <2>2. JobsAreDone'
    BY <1>k, <2>1, OldJobs DEF JobsAreDone, OverNext, Live
  <2>3. ASSUME NEW q \in Process, at'[q] = "append" PROVE OverNext(mem'[q].pid)
    <3>1. at[q] = "append" /\ mem'[q] = mem[q]
      BY <2>1, <2>3
    <3>2. Over(mem[q].pid) /\ mem[q].pid \in Process \cup {-1}
      BY <1>a, <3>1 DEF JobInv, ShellTypeOK, WaitsForPid, Image
    <3> QED
      BY <1>k, <3>1, <3>2, OverKept
  <2>4. ASSUME NEW q \in Process, at'[q] = "wait", mem'[q].pid > 0
        PROVE  at'[mem'[q].pid] # "none" /\ parent'[mem'[q].pid] = q
    <3>1. at[q] = "wait" /\ mem'[q] = mem[q]
      BY <2>1, <2>4
    <3>2. mem[q].pid \in Process
      BY <1>a, <2>4, <3>1 DEF ShellTypeOK, Image, Process
    <3> QED
      BY <1>k, <2>4, <3>1, <3>2 DEF JobInv, Kept
  <2> QED
    BY <2>2, <2>3, <2>4 DEF JobInv, Over, OverNext
<1> QED
  BY <1>1, <1>2, <1>3 DEF Next

(* Nothing is listed by jobs that is not over, or was stopped once: the    *)
(* invariant adds what a process is about to enter, and for whom it waits. *)
THEOREM JobsDone == ShellSafety => []JobsAreDone
<1>1. Init => TypeInv /\ JobInv
  <2> SUFFICES ASSUME Init PROVE TypeInv /\ JobInv
    OBVIOUS
  <2>1. Started \in Image
    BY ShellAssumption DEF Started, Image, Command
  <2>2. TypeInv
    BY <2>1, ShellAssumption DEF Init, TypeInv, ShellTypeOK, WaitsForPid, Place
  <2>3. \A p \in Process : mem[p].jobs = << >> /\ at[p] \in {"read", "none"}
    BY DEF Init, Started
  <2>4. JobInv
    BY <2>3 DEF JobInv, JobsAreDone, Live
  <2> QED
    BY <2>2, <2>4
<1>2. TypeInv /\ JobInv /\ [Next]_vars => (TypeInv /\ JobInv)'
  BY TypeStep, JobsStep
<1>3. JobInv => JobsAreDone
  BY DEF JobInv
<1> QED
  BY <1>1, <1>2, <1>3, PTL DEF ShellSafety

-----------------------------------------------------------------------------
(* The shells are nested: while nothing was ever stopped, every live       *)
(* process but the last has come past a fork and waits, or is about to,    *)
(* for the child that leads to it.                                         *)

(* No live process comes after p.                                          *)
Front(p) == \A q \in Live : q <= p

(* c is the last child of p, and leads to all that live after p.           *)
Leads(p, c) ==
    /\ c \in Children(p)
    /\ \A d \in Children(p) : d <= c
    /\ Front(p) \/ (Alive(c) /\ \A q \in Live : q > p => q >= c)

(* Processes are forked in the order of their numbers.                     *)
ForkOrder ==
    /\ \A p, q \in Process : at[p] = "none" /\ p < q => at[q] = "none"
    /\ \A c \in Process : at[c] # "none" => parent[c] < c

(* Only the last of the live processes is not about to wait.              *)
InLine == \A p, q \in Live : p < q => at[p] \in {"forked", "wait", "handler"}

(* The child just forked, and the child waited for, lead on.               *)
ForkLeads == \A p \in Process : at[p] = "forked" => \E c \in Process : Leads(p, c)
PidLeads ==
    \A p \in Process : at[p] = "wait" =>
        IF mem[p].pid > 0 THEN Leads(p, mem[p].pid) ELSE Front(p)

(* An interrupt leaves handlers and nothing else.                          *)
HandlersOnly == \A p \in Live : at[p] = "handler" <=> interrupted
NoneEarly == ~interrupted => early = {}

(* Who is in the handler names the child that lives, unless the interrupt  *)
(* came before pid was assigned.                                           *)
HandlersKnow ==
    \A p \in Process : at[p] = "handler" /\ p \notin early =>
        \A c \in Children(p) \cap Live : c = mem[p].pid

NoOrphans == \A c \in Live : parent[c] # 0 /\ at[parent[c]] \in Gone => parent[c] \in early

(* A list of jobs, and one that holds it.                                  *)
Grown(s, t) == DOMAIN s \subseteq DOMAIN t /\ \A k \in DOMAIN s : t[k] = s[k]
ListsGrow == \A p, q \in Live : p < q => Grown(mem[p].jobs, mem[q].jobs)

Chain ==
    /\ InLine /\ ForkLeads /\ PidLeads
    /\ HandlersOnly /\ NoneEarly /\ HandlersKnow
    /\ NoOrphans /\ ListsGrow

Nested == ForkOrder /\ (everStopped = {} => Chain)

(* Only fork brings a process about.                                       *)
LEMMA ForksOnly ==
    ASSUME TypeInv, [Next]_vars, \A p \in Process : ~fork(p)
    PROVE  parent' = parent /\ \A q \in Process : at'[q] = "none" <=> at[q] = "none"
<1>a. ShellTypeOK
  BY DEF TypeInv
<1>1. ASSUME NEW p \in Process, NEW a \in Place, NEW m, Goes(p, a, m), at[p] # "none", a # "none"
      PROVE  parent' = parent /\ \A q \in Process : at'[q] = "none" <=> at[q] = "none"
  BY <1>1, <1>a DEF Goes, ShellTypeOK
<1>2. ASSUME NEW p \in Process, NEW m, Loops(p, m), at[p] # "none"
      PROVE  parent' = parent /\ \A q \in Process : at'[q] = "none" <=> at[q] = "none"
  BY <1>1, <1>2 DEF Loops, Place
<1>3. ASSUME NEW p \in Process, NEW a \in Place, Reaps(p, a), at[p] # "none", a # "none"
      PROVE  parent' = parent /\ \A q \in Process : at'[q] = "none" <=> at[q] = "none"
  BY <1>3, <1>a DEF Reaps, Awaited, Children, ShellTypeOK
<1>4. ASSUME NEW p \in Process, Step(p)
      PROVE  parent' = parent /\ \A q \in Process : at'[q] = "none" <=> at[q] = "none"
  <2>1. CASE getcmd(p) \/ fork_fails(p) \/ fork_parent(p) \/ fork_child(p)
    <3>1. at[p] # "none" /\ \E a \in {"zombie", "fork", "wait", "builtin"} : \E m : Goes(p, a, m)
      BY <2>1 DEF getcmd, fork_fails, fork_parent, fork_child, At
    <3> QED
      BY <3>1, <1>1 DEF Place
  <2>2. CASE builtin(p) \/ program_ends(p) \/ append_job(p)
    <3>1. at[p] # "none"
      BY <2>2 DEF builtin, program_ends, append_job, At
    <3>2. \/ \E a \in {"zombie", "program"} : \E m : Goes(p, a, m)
          \/ \E m : Loops(p, m)
      BY <2>2 DEF builtin, program_ends, append_job, buildin_program, buildin_cd, buildin_fg,
                  no_effect
    <3> QED
      BY <3>1, <3>2, <1>1, <1>2 DEF Place
  <2>3. CASE wait(p)
    <3>1. at[p] = "wait"
      BY <2>3 DEF wait, At
    <3>2. CASE Reaps(p, "append")
      BY <3>1, <3>2, <1>3 DEF Place
    <3>3. CASE Goes(p, "append", mem[p])
      BY <3>1, <3>3, <1>1 DEF Place
    <3>4. CASE at' = [at EXCEPT ![p] = "append"] /\ parent' = parent
      BY <3>1, <3>4, <1>a DEF ShellTypeOK
    <3> QED
      BY <2>3, <3>2, <3>3, <3>4 DEF wait
  <2>4. CASE sigHandler(p)
    BY <2>4, <1>1, <1>3 DEF sigHandler, At, Place
  <2> QED
    BY <1>4, <2>1, <2>2, <2>3, <2>4 DEF Step
<1>5. CASE \E p \in Process : Reads(p)
  BY <1>5, <1>a DEF Reads, getline, getline_end, At, ShellTypeOK
<1>6. CASE interrupt
  BY <1>6, <1>a DEF interrupt, AfterInterrupt, Live, Alive, ShellTypeOK
<1>7. CASE \E p \in Process : stop(p) \/ continue(p)
  BY <1>7, <1>a DEF stop, continue, processes, AfterInterrupt, Live, Alive, ShellTypeOK
<1>8. CASE UNCHANGED vars
  BY <1>8 DEF vars, processes
<1> QED
  BY <1>4, <1>5, <1>6, <1>7, <1>8 DEF Next

LEMMA ForkOrderStep == TypeInv /\ ForkOrder /\ [Next]_vars => ForkOrder'
<1> SUFFICES ASSUME TypeInv, ForkOrder, [Next]_vars PROVE ForkOrder'
  OBVIOUS
<1>1. CASE \A p \in Process : ~fork(p)
  BY <1>1, ForksOnly DEF ForkOrder
<1>2. ASSUME NEW p \in Process, fork(p) PROVE ForkOrder'
  <2>1. PICK c \in Unforked :
          /\ \A q \in Unforked : c <= q
          /\ at' = [at EXCEPT ![p] = "forked", ![c] = "born"]
          /\ parent' = [parent EXCEPT ![c] = p]
    BY <1>2 DEF fork
  <2>2. c \in Process /\ at[c] = "none" /\ at[p] = "fork" /\ c # p
    BY <1>2 DEF Unforked, fork, At
  <2>3. p < c
    BY <2>2 DEF ForkOrder, Process
  <2>4. /\ \A q \in Process : at'[q] = "none" <=> at[q] = "none" /\ q # c
        /\ \A q \in Process \ {c} : parent'[q] = parent[q]
        /\ parent'[c] = p
    BY <2>1, <2>2 DEF TypeInv, ShellTypeOK
  <2>5. \A q \in Process : q < c => at[q] # "none"
    BY <2>1 DEF Unforked, Process
  <2>6. ASSUME NEW q \in Process, NEW r \in Process, at'[q] = "none", q < r
        PROVE  at'[r] = "none"
    <3>1. at[q] = "none" /\ q # c /\ at[r] = "none"
      BY <2>4, <2>6 DEF ForkOrder
    <3>2. r # c
      BY <2>5, <2>6, <3>1
    <3> QED
      BY <2>4, <3>1, <3>2
  <2>7. \A d \in Process : at'[d] # "none" => parent'[d] < d
    BY <2>2, <2>3, <2>4 DEF ForkOrder
  <2> QED
    BY <2>6, <2>7 DEF ForkOrder
<1> QED
  BY <1>1, <1>2

(* Who neither waits nor is about to is the last live process.             *)
LEMMA FrontOf ==
    ASSUME Chain, NEW p \in Live, at[p] \notin {"forked", "wait", "handler"}
    PROVE  Front(p) /\ ~interrupted /\ early = {}
<1>1. ASSUME NEW q \in Live, ~(q <= p) PROVE FALSE
  BY <1>1 DEF Chain, InLine, Live, Process
<1>2. ~interrupted
  BY DEF Chain, HandlersOnly
<1> QED
  BY <1>1, <1>2 DEF Front, Chain, NoneEarly

LEMMA GrownTrans ==
    ASSUME NEW s, NEW t, NEW u, Grown(s, t), Grown(t, u)
    PROVE  Grown(s, u)
BY DEF Grown

(* What a step of the last process, p, leaves of the others: all but a     *)
(* zombie that is reaped stays as it is.                                   *)
FrontMoves(p) ==
    /\ at'[p] \notin {"none", "forked", "handler"}
    /\ at'[p] = "wait" => mem'[p].pid <= 0
    /\ at'[p] \notin Gone => Grown(mem[p].jobs, mem'[p].jobs)
    /\ \A q \in Process \ {p} :
        /\ mem'[q] = mem[q]
        /\ at'[q] = at[q] \/ (at[q] = "zombie" /\ at'[q] = "reaped")
    /\ UNCHANGED <<parent, signals>>

LEMMA FrontStep ==
    ASSUME TypeInv, TypeInv', ForkOrder, Chain, NEW p \in Live, Front(p), FrontMoves(p),
           ~interrupted
    PROVE  Chain'
<1>a. ShellTypeOK /\ p \in Process /\ at[p] \notin Gone \cup {"none"}
  BY DEF TypeInv, Live, Alive
<1>b. /\ parent' = parent /\ interrupted' = interrupted /\ early' = early /\ early = {}
  BY DEF FrontMoves, signals, Chain, NoneEarly
<1>c. /\ Live' \subseteq Live /\ Live \ {p} \subseteq Live'
      /\ \A q \in Process \ {p} : at[q] \notin Gone => at'[q] = at[q]
      /\ \A q \in Process \ {p} : at'[q] \notin Gone => at'[q] = at[q]
      /\ \A q \in Process \ {p} : at'[q] \in Gone => at[q] \in Gone
      /\ \A q \in Process : at'[q] = "none" <=> at[q] = "none"
  BY <1>a DEF FrontMoves, Live, Alive, Gone
<1>d. \A q \in Process : Children(q)' = Children(q)
  BY <1>b, <1>c DEF Children
<1>e. \A q \in Live' \ {p} : at'[q] = at[q]
  BY <1>c DEF Live, Alive
<1>f. \A q \in Live : q \in Process /\ q <= p
  BY DEF Front, Live
<1>1. InLine'
  BY <1>a, <1>c, <1>e, <1>f DEF Chain, InLine, Process
<1>2. ASSUME NEW r \in Live, r # p, NEW c \in Process, Leads(r, c) PROVE Leads(r, c)'
  <2>1. r \in Process /\ ~Front(r)
    BY <1>a, <1>f, <1>2 DEF Front, Process
  <2>2. c \in Children(r) /\ \A d \in Children(r) : d <= c
    BY <1>2 DEF Leads
  <2>3. Alive(c) /\ \A q \in Live : q > r => q >= c
    BY <1>2, <2>1 DEF Leads
  <2>4. CASE Alive(c)'
    BY <1>c, <1>d, <2>1, <2>2, <2>3, <2>4 DEF Leads
  <2>5. CASE ~Alive(c)'
    <3>1. c = p /\ p \notin Live'
      BY <1>a, <1>c, <2>3, <2>5 DEF Live, Alive
    <3>2. ASSUME NEW q \in Live' PROVE q <= r
      <4>1. q \in Live /\ q # p /\ q <= p /\ q \in Process /\ r \in Process
        BY <1>c, <1>f, <3>1, <3>2 DEF Live
      <4> QED
        BY <2>3, <3>1, <4>1 DEF Process
    <3> QED
      BY <1>d, <2>1, <2>2, <3>2 DEF Leads, Front
  <2> QED
    BY <2>4, <2>5
<1>3. ForkLeads'
  <2> SUFFICES ASSUME NEW r \in Process, at'[r] = "forked"
               PROVE  \E c \in Process : Leads(r, c)'
    BY DEF ForkLeads
  <2>1. r # p /\ at[r] = "forked" /\ r \in Live
    BY <1>c DEF FrontMoves, Live, Alive, Gone
  <2>2. PICK c \in Process : Leads(r, c)
    BY <2>1 DEF Chain, ForkLeads
  <2> QED
    BY <1>2, <2>1, <2>2
<1>4. PidLeads'
  <2> SUFFICES ASSUME NEW r \in Process, at'[r] = "wait", NEW c, c = mem'[r].pid
               PROVE  IF c > 0 THEN Leads(r, c)' ELSE Front(r)'
    BY DEF PidLeads, Leads, Front, Children, Alive
  <2>1. CASE r = p
    <3>1. Front(p)'
      BY <1>c DEF Front
    <3>2. ~(c > 0)
      BY <2>1, <1>a DEF FrontMoves, TypeInv, ShellTypeOK, Image, Process
    <3> QED
      BY <2>1, <3>1, <3>2
  <2>2. CASE r # p
    <3>1. at[r] = "wait" /\ r \in Live /\ mem'[r] = mem[r]
      BY <1>c, <2>2 DEF FrontMoves, Live, Alive, Gone
    <3>2. c > 0 /\ Leads(r, c)
      BY <1>a, <1>f, <2>2, <3>1 DEF Chain, PidLeads, Front, Process
    <3>3. c \in Process
      BY <3>2 DEF Leads, Children
    <3> QED
      BY <1>2, <2>2, <3>1, <3>2, <3>3
  <2> QED
    BY <2>1, <2>2
<1>5. HandlersOnly'
  BY <1>b, <1>c, <1>e DEF Chain, HandlersOnly, FrontMoves
<1>6. NoneEarly'
  BY <1>b DEF NoneEarly
<1>7. HandlersKnow'
  BY <1>c, <1>5, <1>b DEF HandlersKnow, HandlersOnly, Live, Alive, Gone
<1>8. NoOrphans'
  <2> SUFFICES ASSUME NEW c \in Live', parent'[c] # 0, at'[parent'[c]] \in Gone
               PROVE  FALSE
    BY DEF NoOrphans
  <2>1. c \in Live /\ c \in Process /\ parent'[c] = parent[c] /\ parent[c] \in Process
    BY <1>a, <1>b, <1>c DEF Live, ShellTypeOK
  <2>2. at[parent[c]] \notin Gone
    BY <1>b, <2>1 DEF Chain, NoOrphans
  <2>3. parent[c] = p
    BY <1>c, <2>1, <2>2
  <2>4. p < c
    BY <2>1, <2>3 DEF ForkOrder, Live, Alive
  <2> QED
    BY <1>a, <1>f, <2>1, <2>4 DEF Process
<1>9. ListsGrow'
  <2> SUFFICES ASSUME NEW q \in Live', NEW r \in Live', q < r
               PROVE  Grown(mem'[q].jobs, mem'[r].jobs)
    BY DEF ListsGrow
  <2>1. q \in Live /\ r \in Live /\ q \in Process /\ r \in Process /\ q # p
    BY <1>a, <1>c, <1>f DEF Process, Live
  <2>2. Grown(mem[q].jobs, mem[r].jobs) /\ mem'[q] = mem[q]
    BY <2>1 DEF Chain, ListsGrow, FrontMoves
  <2>3. CASE r = p
    <3>1. Grown(mem[p].jobs, mem'[p].jobs)
      BY <2>3 DEF FrontMoves, Live, Alive
    <3> QED
      BY <2>2, <2>3, <3>1, GrownTrans
  <2>4. CASE r # p
    BY <2>1, <2>2, <2>4 DEF FrontMoves
  <2> QED
    BY <2>3, <2>4
<1> QED
  BY <1>1, <1>3, <1>4, <1>5, <1>6, <1>7, <1>8, <1>9 DEF Chain

(* The steps of the last process, whatever it does.                        *)
LEMMA GoesFront ==
    ASSUME TypeInv, NEW p \in Live, NEW a \in Place, NEW m \in Image, Goes(p, a, m),
           a \notin {"none", "forked", "handler"}, a = "wait" => m.pid <= 0,
           a \notin Gone => Grown(mem[p].jobs, m.jobs)
    PROVE  FrontMoves(p)
<1>1. p \in Process /\ at \in [Process -> Place] /\ mem \in [Process -> Image]
  BY DEF TypeInv, ShellTypeOK, Live
<1>2. /\ at' = [at EXCEPT ![p] = a]
      /\ mem' = [mem EXCEPT ![p] = IF a = "zombie" THEN Started ELSE m]
      /\ UNCHANGED <<parent, signals>>
  BY DEF Goes
<1>3. /\ at'[p] = a /\ (a \notin Gone => mem'[p] = m)
      /\ \A q \in Process \ {p} : mem'[q] = mem[q] /\ at'[q] = at[q]
  BY <1>1, <1>2 DEF Gone
<1> QED
  BY <1>2, <1>3 DEF FrontMoves, Gone

LEMMA LoopsFront ==
    ASSUME TypeInv, NEW p \in Live, NEW m \in Image, Loops(p, m), Grown(mem[p].jobs, m.jobs)
    PROVE  FrontMoves(p)
<1>1. [m EXCEPT !.args = "nothing"] \in Image /\ [m EXCEPT !.args = "nothing"].jobs = m.jobs
  BY DEF Image, Command
<1> QED
  BY <1>1, GoesFront DEF Loops, Place

(* A process that is not stopped, nor about to wait, nor waiting, nor in   *)
(* the handler takes a step: it is the last one.                           *)
LEMMA FrontActs ==
    ASSUME TypeInv, Chain, NEW p \in Process,
           \/ getcmd(p) \/ fork_fails(p) \/ fork_child(p) \/ builtin(p) \/ program_ends(p)
           \/ append_job(p) \/ Reads(p)
    PROVE  p \in Live /\ Front(p) /\ ~interrupted /\ FrontMoves(p)
<1>a. mem[p] \in Image /\ ShellTypeOK
  BY DEF TypeInv, ShellTypeOK
<1>g. \A j : Grown(j, j)
  BY DEF Grown
<1>1. at[p] \notin {"forked", "wait", "handler", "none"} \cup Gone
  BY DEF getcmd, fork_fails, fork_child, builtin, program_ends, append_job, Reads, getline,
         getline_end, At, Gone
<1>2. p \in Live
  BY <1>1 DEF Live, Alive
<1>3. Front(p) /\ ~interrupted
  BY <1>1, <1>2, FrontOf
<1>4. CASE getcmd(p)
  <2> DEFINE line == Head(mem[p].stdin)
             m == [mem[p] EXCEPT !.args = line, !.stdin = Tail(@)]
  <2>1. mem[p].stdin \in Seq(Command) /\ mem[p].stdin # <<>>
    BY <1>4, <1>a DEF getcmd, Image
  <2>2. m \in Image /\ m.jobs = mem[p].jobs
    <3>1. line \in Command /\ Tail(mem[p].stdin) \in Seq(Command)
      BY <2>1
    <3> QED
      BY <1>a, <3>1 DEF Image
  <2>3. \E a \in {"zombie", "fork"} : Goes(p, a, m)
    BY <1>4 DEF getcmd
  <2>4. FrontMoves(p)
    BY <1>2, <1>g, <2>2, <2>3, GoesFront DEF Place
  <2> QED
    BY <1>2, <1>3, <2>4
<1>5. CASE fork_fails(p)
  <2> DEFINE m == [mem[p] EXCEPT !.pid = -1]
  <2>1. m \in Image /\ m.jobs = mem[p].jobs /\ m.pid <= 0
    BY <1>a DEF Image
  <2>2. Goes(p, "wait", m)
    BY <1>5 DEF fork_fails
  <2>3. FrontMoves(p)
    BY <1>2, <1>g, <2>1, <2>2, GoesFront DEF Place
  <2> QED
    BY <1>2, <1>3, <2>3
<1>6. CASE fork_child(p)
  <2> DEFINE m == [mem[p] EXCEPT !.pid = 0]
  <2>1. m \in Image /\ m.jobs = mem[p].jobs
    BY <1>a DEF Image
  <2>2. Goes(p, "builtin", m)
    BY <1>6 DEF fork_child
  <2>3. FrontMoves(p)
    BY <1>2, <1>g, <2>1, <2>2, GoesFront DEF Place
  <2> QED
    BY <1>2, <1>3, <2>3
<1>7. CASE builtin(p)
  <2>1. /\ [mem[p] EXCEPT !.cwd = "away"] \in Image
        /\ [mem[p] EXCEPT !.cwd = "away"].jobs = mem[p].jobs
    BY <1>a DEF Image
  <2>2. \/ \E a \in {"program", "zombie"} : Goes(p, a, mem[p])
        \/ \E m \in {mem[p], [mem[p] EXCEPT !.cwd = "away"]} : Loops(p, m)
    BY <1>7 DEF builtin, buildin_program, buildin_cd, buildin_fg, no_effect
  <2>3. FrontMoves(p)
    BY <1>a, <1>2, <1>g, <2>1, <2>2, GoesFront, LoopsFront DEF Place
  <2> QED
    BY <1>2, <1>3, <2>3
<1>8. CASE program_ends(p)
  <2>1. FrontMoves(p)
    BY <1>a, <1>2, <1>8, GoesFront DEF program_ends, Place, Gone
  <2> QED
    BY <1>2, <1>3, <2>1
<1>9. CASE append_job(p)
  <2> DEFINE m == [mem[p] EXCEPT !.jobs = Append(@, mem[p].pid)]
  <2>1. mem[p].jobs \in Seq(Process \cup {-1}) /\ mem[p].pid \in Process \cup {-1}
    BY <1>9, <1>a DEF append_job, At, TypeInv, WaitsForPid, Image
  <2>2. /\ Append(mem[p].jobs, mem[p].pid) \in Seq(Process \cup {-1})
        /\ Grown(mem[p].jobs, Append(mem[p].jobs, mem[p].pid))
    BY <2>1 DEF Grown
  <2>3. m \in Image /\ m.jobs = Append(mem[p].jobs, mem[p].pid)
    BY <1>a, <2>2 DEF Image
  <2>4. Loops(p, m)
    BY <1>9 DEF append_job
  <2>5. FrontMoves(p)
    BY <1>2, <2>2, <2>3, <2>4, LoopsFront
  <2> QED
    BY <1>2, <1>3, <2>5
<1>10. CASE Reads(p)
  <2>1. /\ at[p] = "read" /\ at'[p] \in {"read", "zombie"}
        /\ \A q \in Process \ {p} : mem'[q] = mem[q] /\ at'[q] = at[q]
        /\ at'[p] = "read" => mem'[p].jobs = mem[p].jobs
        /\ UNCHANGED <<parent, signals>>
    BY <1>10, <1>a DEF Reads, getline, getline_end, At, ShellTypeOK, Image
  <2>2. FrontMoves(p)
    BY <1>g, <2>1 DEF FrontMoves, Gone
  <2> QED
    BY <1>2, <1>3, <2>2
<1> QED
  BY <1>4, <1>5, <1>6, <1>7, <1>8, <1>9, <1>10

(* waitpid returns, unless a stop was seen, to the last process.           *)
LEMMA WaitActs ==
    ASSUME TypeInv, Chain, NEW p \in Process, wait(p), everStopped = {}
    PROVE  p \in Live /\ Front(p) /\ ~interrupted /\ FrontMoves(p)
<1>a. ShellTypeOK /\ stopped = {}
  BY DEF TypeInv, ShellTypeOK
<1>1. at[p] = "wait" /\ p \in Live /\ mem[p] \in Image
  BY <1>a DEF wait, At, Live, Alive, Gone, ShellTypeOK
<1>2. ~interrupted
  BY <1>1 DEF Chain, HandlersOnly
<1>3. mem[p].pid > 0 => Leads(p, mem[p].pid)
  BY <1>1 DEF Chain, PidLeads
<1>4. ~(mem[p].pid > 0) => Front(p)
  BY <1>1 DEF Chain, PidLeads
<1>5. CASE Reaps(p, "append")
  <2>1. PICK c \in Awaited(p) :
          /\ at[c] = "zombie" /\ at' = [at EXCEPT ![p] = "append", ![c] = "reaped"]
          /\ mem' = [mem EXCEPT ![p] = mem[p]]
          /\ UNCHANGED <<parent, input, signals>>
    BY <1>5, <1>a DEF Reaps, ShellTypeOK
  <2>2. c \in Process /\ c # p /\ (mem[p].pid > 0 => c = mem[p].pid)
    BY <1>1, <2>1 DEF Awaited, Children
  <2>3. Front(p)
    BY <1>3, <1>4, <2>1, <2>2 DEF Leads, Alive, Gone
  <2>4. /\ at'[p] = "append" /\ at'[c] = "reaped" /\ mem' = mem
        /\ \A q \in Process \ {p, c} : at'[q] = at[q]
    BY <1>a, <2>1, <2>2 DEF ShellTypeOK
  <2>5. FrontMoves(p)
    BY <2>1, <2>2, <2>4 DEF FrontMoves, Gone, Grown
  <2> QED
    BY <1>1, <1>2, <2>3, <2>5
<1>6. CASE Awaited(p) = {} /\ Goes(p, "append", mem[p])
  <2>1. mem[p].pid > 0 => at[mem[p].pid] = "reaped"
    BY <1>3, <1>6 DEF Leads, Awaited
  <2>2. Front(p)
    BY <1>3, <1>4, <2>1 DEF Leads, Alive, Gone
  <2>3. FrontMoves(p)
    BY <1>1, <1>6, GoesFront DEF Place, Grown
  <2> QED
    BY <1>1, <1>2, <2>2, <2>3
<1> QED
  BY <1>a, <1>5, <1>6 DEF wait

(* The last process forks one that comes after it.                         *)
LEMMA ForkChain ==
    ASSUME TypeInv, ForkOrder, Chain, NEW p \in Process, fork(p)
    PROVE  Chain'
<1>a. ShellTypeOK /\ at[p] = "fork"
  BY DEF TypeInv, fork, At
<1>b. p \in Live /\ Front(p) /\ ~interrupted /\ early = {}
  <2>1. p \in Live
    BY <1>a DEF Live, Alive, Gone
  <2> QED
    BY <1>a, <2>1, FrontOf
<1>c. PICK c \in Unforked :
        /\ \A q \in Unforked : c <= q
        /\ at' = [at EXCEPT ![p] = "forked", ![c] = "born"]
        /\ parent' = [parent EXCEPT ![c] = p]
        /\ mem' = [mem EXCEPT ![c] = mem[p]]
        /\ UNCHANGED <<input, signals>>
  BY DEF fork
<1>d. c \in Process /\ at[c] = "none" /\ c # p
  BY <1>a DEF Unforked
<1>e. /\ at'[p] = "forked" /\ at'[c] = "born" /\ parent'[c] = p
      /\ \A q \in Process \ {p, c} : at'[q] = at[q]
      /\ \A q \in Process \ {c} : parent'[q] = parent[q] /\ mem'[q] = mem[q]
      /\ mem'[c] = mem[p]
      /\ interrupted' = interrupted /\ early' = early
  BY <1>a, <1>c, <1>d DEF ShellTypeOK, signals
<1>f. \A q \in Process : at[q] # "none" => q < c
  BY <1>d DEF ForkOrder, Process
<1>g. Live' = Live \cup {c} /\ (\A q \in Live : q \in Process /\ q <= p /\ q < c)
  <2>1. Live' = Live \cup {c}
    BY <1>a, <1>d, <1>e DEF Live, Alive, Gone
  <2>2. \A q \in Live : q \in Process /\ at[q] # "none"
    BY DEF Live, Alive
  <2> QED
    BY <1>b, <1>f, <2>1, <2>2 DEF Front
<1>h. /\ \A r \in Process \ {p} : Children(r)' = Children(r)
      /\ Children(p)' = Children(p) \cup {c}
  BY <1>a, <1>d, <1>e DEF Children
<1>1. InLine'
  <2> SUFFICES ASSUME NEW q \in Live', NEW r \in Live', q < r
               PROVE  at'[q] \in {"forked", "wait", "handler"}
    BY DEF InLine
  <2>1. q \in Live
    BY <1>d, <1>g DEF Process
  <2>2. CASE q # p
    <3>1. q < p
      BY <1>d, <1>b, <1>g, <2>1, <2>2 DEF Process, Live
    <3>2. at[q] \in {"forked", "wait", "handler"}
      BY <1>b, <2>1, <3>1 DEF Chain, InLine
    <3>3. at'[q] = at[q]
      BY <1>d, <1>e, <1>g, <2>1, <2>2, <3>2
    <3> QED
      BY <3>2, <3>3
  <2> QED
    BY <1>e, <2>2
<1>2. ASSUME NEW r \in Live, r # p, NEW d \in Process, Leads(r, d) PROVE Leads(r, d)'
  <2>1. ~Front(r) /\ r \in Process
    BY <1>b, <1>g, <1>2 DEF Front, Process
  <2>2. /\ d \in Children(r) /\ \A e \in Children(r) : e <= d
        /\ Alive(d) /\ \A q \in Live : q > r => q >= d
    BY <1>2, <2>1 DEF Leads
  <2>3. d < c /\ Alive(d)' /\ Children(r)' = Children(r)
    BY <1>a, <1>e, <1>f, <1>h, <1>2, <2>1, <2>2 DEF Alive, Gone, Children
  <2>4. \A q \in Live' : q > r => q >= d
    BY <1>d, <1>g, <2>2, <2>3 DEF Process
  <2> QED
    BY <2>2, <2>3, <2>4 DEF Leads
<1>3. ForkLeads'
  <2> SUFFICES ASSUME NEW r \in Process, at'[r] = "forked"
               PROVE  \E d \in Process : Leads(r, d)'
    BY DEF ForkLeads
  <2>1. CASE r = p
    <3>1. c \in Children(p)' /\ \A d \in Children(p)' : d <= c
      BY <1>d, <1>f, <1>h DEF Children, Process
    <3>2. Alive(c)' /\ \A q \in Live' : q > p => q >= c
      BY <1>d, <1>e, <1>g DEF Alive, Gone, Process
    <3>3. Leads(p, c)'
      BY <3>1, <3>2 DEF Leads
    <3> QED
      BY <1>d, <2>1, <3>3
  <2>2. CASE r # p
    <3>1. r \in Live /\ at[r] = "forked"
      BY <1>e, <2>2 DEF Live, Alive, Gone
    <3>2. PICK d \in Process : Leads(r, d)
      BY <3>1 DEF Chain, ForkLeads
    <3> QED
      BY <1>2, <2>2, <3>1, <3>2
  <2> QED
    BY <2>1, <2>2
<1>4. PidLeads'
  <2> SUFFICES ASSUME NEW r \in Process, at'[r] = "wait", NEW d, d = mem'[r].pid
               PROVE  IF d > 0 THEN Leads(r, d)' ELSE Front(r)'
    BY DEF PidLeads, Leads, Front, Children, Alive
  <2>1. r \in Live /\ at[r] = "wait" /\ r # p /\ mem'[r] = mem[r]
    BY <1>e DEF Live, Alive, Gone
  <2>2. d > 0 /\ Leads(r, d)
    BY <1>b, <1>g, <2>1 DEF Chain, PidLeads, Front, Process
  <2>3. d \in Process
    BY <2>2 DEF Leads, Children
  <2> QED
    BY <1>2, <2>1, <2>2, <2>3
<1>5. HandlersOnly' /\ NoneEarly'
  BY <1>b, <1>d, <1>e, <1>g DEF Chain, HandlersOnly, NoneEarly
<1>6. HandlersKnow'
  BY <1>b, <1>e, <1>5 DEF HandlersKnow, HandlersOnly, Live, Alive, Gone
<1>7. NoOrphans'
  <2> SUFFICES ASSUME NEW d \in Live', parent'[d] # 0, at'[parent'[d]] \in Gone
               PROVE  FALSE
    BY DEF NoOrphans
  <2>1. d # c /\ d \in Live /\ d \in Process
    BY <1>e, <1>g DEF Gone
  <2>2. parent'[d] = parent[d] /\ parent[d] \in Process
    BY <1>a, <1>e, <2>1 DEF ShellTypeOK
  <2>3. at[parent[d]] \in Gone
    BY <1>e, <2>2 DEF Gone
  <2> QED
    BY <1>b, <2>1, <2>2, <2>3 DEF Chain, NoOrphans
<1>8. ListsGrow'
  <2> SUFFICES ASSUME NEW q \in Live', NEW r \in Live', q < r
               PROVE  Grown(mem'[q].jobs, mem'[r].jobs)
    BY DEF ListsGrow
  <2>1. q \in Live /\ q \in Process /\ q # c /\ mem'[q] = mem[q]
    BY <1>d, <1>e, <1>g DEF Process
  <2>2. CASE r = c
    <3>1. CASE q = p
      BY <1>e, <2>1, <2>2, <3>1 DEF Grown
    <3>2. CASE q # p
      <4>1. q < p
        BY <1>d, <1>b, <1>g, <2>1, <3>2 DEF Process, Live
      <4>2. Grown(mem[q].jobs, mem[p].jobs)
        BY <1>b, <2>1, <4>1 DEF Chain, ListsGrow
      <4> QED
        BY <1>e, <2>1, <2>2, <4>2
    <3> QED
      BY <3>1, <3>2
  <2>3. CASE r # c
    <3>1. r \in Live /\ mem'[r] = mem[r]
      BY <1>e, <1>g, <2>3 DEF Live
    <3> QED
      BY <2>1, <3>1 DEF Chain, ListsGrow
  <2> QED
    BY <2>2, <2>3
<1> QED
  BY <1>1, <1>3, <1>4, <1>5, <1>6, <1>7, <1>8 DEF Chain

(* A step in which no process is forked or ends, and only p changes its    *)
(* place.                                                                  *)
LEMMA ForkParentChain ==
    ASSUME TypeInv, ForkOrder, Chain, NEW p \in Process, fork_parent(p)
    PROVE  Chain'
<1>a. ShellTypeOK /\ at[p] = "forked"
  BY DEF TypeInv, fork_parent, At
<1>b. p \in Live
  BY <1>a DEF Live, Alive, Gone
<1>c. ~interrupted /\ early = {}
  BY <1>a, <1>b DEF Chain, HandlersOnly, NoneEarly
<1>d. PICK c \in Children(p) :
        /\ \A d \in Children(p) : d <= c
        /\ Goes(p, "wait", [mem[p] EXCEPT !.pid = c])
  BY DEF fork_parent
<1>e. /\ at'[p] = "wait" /\ mem'[p].pid = c
      /\ \A q \in Process \ {p} : at'[q] = at[q] /\ mem'[q] = mem[q]
      /\ \A q \in Process : mem'[q].jobs = mem[q].jobs
      /\ UNCHANGED <<parent, interrupted, early>>
  BY <1>a, <1>d DEF Goes, ShellTypeOK, Image, signals
<1>f. /\ Live' = Live /\ \A r \in Process : Children(r)' = Children(r)
      /\ \A r \in Process : Alive(r)' <=> Alive(r)
      /\ \A r \in Process : at'[r] \in Gone <=> at[r] \in Gone
  BY <1>a, <1>e DEF Live, Alive, Children, Gone
<1>g. ASSUME NEW r \in Process, NEW d \in Process, Leads(r, d) PROVE Leads(r, d)'
  BY <1>f, <1>g DEF Leads, Front
<1>1. InLine'
  BY <1>e, <1>f DEF Chain, InLine, Live
<1>2. ForkLeads'
  <2> SUFFICES ASSUME NEW r \in Process, at'[r] = "forked"
               PROVE  \E d \in Process : Leads(r, d)'
    BY DEF ForkLeads
  <2>1. PICK d \in Process : Leads(r, d)
    BY <1>e DEF Chain, ForkLeads
  <2> QED
    BY <1>g, <2>1
<1>3. PidLeads'
  <2> SUFFICES ASSUME NEW r \in Process, at'[r] = "wait", NEW d, d = mem'[r].pid
               PROVE  IF d > 0 THEN Leads(r, d)' ELSE Front(r)'
    BY DEF PidLeads, Leads, Front, Children, Alive
  <2>1. CASE r = p
    <3>1. PICK e \in Process : Leads(p, e)
      BY <1>a DEF Chain, ForkLeads
    <3>2. e = c /\ c \in Process
      BY <1>d, <3>1 DEF Leads, Children, Process
    <3>3. d = c /\ d > 0
      BY <1>e, <2>1, <3>2 DEF Process
    <3> QED
      BY <1>g, <2>1, <3>1, <3>2, <3>3
  <2>2. CASE r # p
    <3>1. at[r] = "wait" /\ mem'[r] = mem[r]
      BY <1>e, <2>2
    <3>2. CASE d > 0
      <4>1. Leads(r, d)
        BY <3>1, <3>2 DEF Chain, PidLeads
      <4>2. d \in Process
        BY <4>1 DEF Leads, Children
      <4> QED
        BY <1>g, <3>2, <4>1, <4>2
    <3>3. CASE ~(d > 0)
      <4>1. Front(r)
        BY <3>1, <3>3 DEF Chain, PidLeads
      <4> QED
        BY <1>f, <3>3, <4>1 DEF Front
    <3> QED
      BY <3>2, <3>3
  <2> QED
    BY <2>1, <2>2
<1>4. HandlersOnly' /\ NoneEarly'
  BY <1>c, <1>e, <1>f DEF Chain, HandlersOnly, NoneEarly, Live
<1>5. HandlersKnow'
  BY <1>c, <1>e, <1>4 DEF HandlersKnow, HandlersOnly, Live, Alive, Gone
<1>6. NoOrphans'
  <2> SUFFICES ASSUME NEW d \in Live', parent'[d] # 0, at'[parent'[d]] \in Gone
               PROVE  FALSE
    BY DEF NoOrphans
  <2>1. d \in Live /\ parent[d] # 0 /\ parent[d] \in Process /\ at[parent[d]] \in Gone
    BY <1>a, <1>e, <1>f DEF Live, ShellTypeOK
  <2> QED
    BY <1>c, <2>1 DEF Chain, NoOrphans
<1>7. ListsGrow'
  BY <1>e, <1>f DEF Chain, ListsGrow, Live
<1> QED
  BY <1>1, <1>2, <1>3, <1>4, <1>5, <1>6, <1>7 DEF Chain

(* After the interrupt only handlers end, and each that is not early knows *)
(* the child it waits for.                                                 *)
LEMMA HandlerChain ==
    ASSUME TypeInv, Chain, NEW p \in Process, sigHandler(p)
    PROVE  Chain'
<1>a. ShellTypeOK /\ at[p] = "handler"
  BY DEF TypeInv, sigHandler, At
<1>b. p \in Live
  BY <1>a DEF Live, Alive, Gone
<1>c. interrupted /\ \A q \in Live : at[q] = "handler"
  BY <1>a, <1>b DEF Chain, HandlersOnly
<1>d. /\ at'[p] = "zombie"
      /\ \A q \in Process \ {p} :
            /\ mem'[q] = mem[q]
            /\ at'[q] = at[q] \/ (at[q] = "zombie" /\ at'[q] = "reaped")
      /\ UNCHANGED <<parent, interrupted, early>>
  <2>1. CASE Reaps(p, "zombie")
    <3>1. PICK c \in Awaited(p) :
            /\ at[c] = "zombie" /\ at' = [at EXCEPT ![p] = "zombie", ![c] = "reaped"]
            /\ mem' = [mem EXCEPT ![p] = Started]
            /\ UNCHANGED <<parent, interrupted, early>>
      BY <2>1 DEF Reaps, signals
    <3>2. c \in Process /\ c # p
      BY <1>a, <3>1 DEF Awaited, Children
    <3> QED
      BY <1>a, <3>1, <3>2 DEF ShellTypeOK
  <2>2. CASE Goes(p, "zombie", mem[p])
    BY <1>a, <2>2 DEF Goes, ShellTypeOK, signals
  <2> QED
    BY <2>1, <2>2 DEF sigHandler
<1>e. \A c \in Live : c \in Children(p) => c # mem[p].pid
  <2> SUFFICES ASSUME NEW c \in Live, c \in Children(p), c = mem[p].pid PROVE FALSE
    OBVIOUS
  <2>1. c \in Awaited(p) /\ \A d \in Awaited(p) : d = c
    BY <1>c DEF Awaited, Children, Process
  <2>2. \E d \in Awaited(p) : at[d] = "zombie"
    BY <2>1 DEF sigHandler, Reaps
  <2> QED
    BY <1>c, <2>1, <2>2
<1>f. /\ Live' \subseteq Live \ {p}
      /\ \A q \in Live' : q \in Process /\ at'[q] = "handler" /\ mem'[q] = mem[q]
      /\ \A q \in Process : at'[q] = "handler" => q \in Live
      /\ \A q \in Process : at'[q] \in Gone \cup {"none", "handler"} \/ at'[q] = at[q]
      /\ \A q \in Process : at'[q] \in Gone => at[q] \in Gone \/ q = p
      /\ \A q \in Process : Children(q)' = Children(q)
  BY <1>a, <1>b, <1>c, <1>d DEF Live, Alive, Gone, Children
<1>1. InLine'
  BY <1>f DEF InLine
<1>2. \A q \in Process : at'[q] \notin {"forked", "wait"}
  <2> SUFFICES ASSUME NEW q \in Process, at'[q] \in {"forked", "wait"} PROVE FALSE
    OBVIOUS
  <2>1. q \in Live'
    BY DEF Live, Alive, Gone
  <2> QED
    BY <1>f, <2>1
<1>3. ForkLeads' /\ PidLeads'
  BY <1>2 DEF ForkLeads, PidLeads
<1>4. HandlersOnly' /\ NoneEarly'
  BY <1>c, <1>d, <1>f DEF HandlersOnly, NoneEarly
<1>5. HandlersKnow'
  <2> SUFFICES ASSUME NEW q \in Process, at'[q] = "handler", q \notin early',
                      NEW c \in Process, c \in Children(q)', c \in Live'
               PROVE  c = mem'[q].pid
    BY DEF HandlersKnow, Children, Live
  <2>1. q \in Live /\ at[q] = "handler" /\ mem'[q] = mem[q]
    BY <1>c, <1>d, <1>f DEF Gone
  <2>2. c \in Children(q) /\ c \in Live /\ q \notin early
    BY <1>d, <1>f
  <2> QED
    BY <2>1, <2>2 DEF Chain, HandlersKnow
<1>6. NoOrphans'
  <2> SUFFICES ASSUME NEW c \in Live', parent'[c] # 0, at'[parent'[c]] \in Gone
               PROVE  parent'[c] \in early'
    BY DEF NoOrphans
  <2>1. c \in Live /\ c \in Process /\ parent'[c] = parent[c] /\ parent[c] \in Process
    BY <1>a, <1>d, <1>f DEF Live, ShellTypeOK
  <2>2. CASE at[parent[c]] \in Gone
    BY <1>d, <2>1, <2>2 DEF Chain, NoOrphans
  <2>3. CASE parent[c] = p
    <3>1. c \in Children(p)
      BY <1>c, <2>1, <2>3 DEF Children
    <3>2. p \in early
      BY <1>a, <1>e, <2>1, <3>1 DEF Chain, HandlersKnow
    <3> QED
      BY <1>d, <2>1, <2>3, <3>2
  <2> QED
    BY <1>f, <2>1, <2>2, <2>3
<1>7. ListsGrow'
  BY <1>f DEF Chain, ListsGrow
<1> QED
  BY <1>1, <1>3, <1>4, <1>5, <1>6, <1>7 DEF Chain

(* The interrupt finds every process but the last with its child known or  *)
(* not yet assigned.                                                       *)
LEMMA InterruptChain ==
    ASSUME TypeInv, ForkOrder, Chain, interrupt, stopped = {}
    PROVE  Chain'
<1>a. ShellTypeOK /\ ~interrupted /\ interrupted' = TRUE /\ parent' = parent /\ early = {}
  BY DEF TypeInv, interrupt, Chain, NoneEarly
<1>b. \A q \in Process : at'[q] = IF q \in Live THEN AfterInterrupt(q) ELSE at[q]
  BY DEF interrupt
<1>c. /\ Live' \subseteq Live
      /\ \A q \in Live' : q \in Process /\ at'[q] = "handler" /\ at[q] # "program"
                                                             /\ mem'[q] = mem[q]
      /\ \A q \in Process : at'[q] \notin {"forked", "wait"}
      /\ \A q \in Process : at'[q] \in Gone => at[q] \in Gone \/ at[q] = "program"
      /\ \A q \in Process : Children(q)' = Children(q)
      /\ \A q \in Process : at'[q] = "handler" => q \in Live' /\ q \in Live
  BY <1>a, <1>b DEF AfterInterrupt, Live, Alive, Gone, Children, interrupt, Chain,
                    HandlersOnly
<1>1. InLine' /\ ForkLeads' /\ PidLeads' /\ HandlersOnly' /\ NoneEarly'
  BY <1>a, <1>c DEF InLine, ForkLeads, PidLeads, HandlersOnly, NoneEarly
<1>d. ASSUME NEW q \in Live, NEW c \in Live, parent[c] = q
      PROVE  at[q] \in {"forked", "wait"} /\ q < c
  <2>1. q < c /\ q \in Process /\ at[q] # "handler"
    BY <1>a, <1>d DEF ForkOrder, Live, Alive, Chain, HandlersOnly
  <2> QED
    BY <1>d, <2>1 DEF Chain, InLine
<1>2. HandlersKnow'
  <2> SUFFICES ASSUME NEW q \in Process, at'[q] = "handler", q \notin early',
                      NEW c \in Process, c \in Children(q)', c \in Live'
               PROVE  c = mem'[q].pid
    BY DEF HandlersKnow, Children, Live
  <2>1. q \in Live /\ c \in Live /\ parent[c] = q /\ mem'[q] = mem[q] /\ c \in Children(q)
    BY <1>c DEF Children
  <2>2. at[q] = "wait" /\ q < c
    <3>1. at[q] # "forked"
      BY <1>a DEF interrupt, At
    <3> QED
      BY <1>d, <2>1, <3>1
  <2>3. ~Front(q)
    BY <2>1, <2>2 DEF Front, Process
  <2>4. Leads(q, mem[q].pid)
    BY <2>2, <2>3 DEF Chain, PidLeads
  <2>5. mem[q].pid \in Process /\ c <= mem[q].pid /\ c >= mem[q].pid
    BY <2>1, <2>2, <2>3, <2>4 DEF Leads, Children
  <2> QED
    BY <2>1, <2>5 DEF Process
<1>3. NoOrphans'
  <2> SUFFICES ASSUME NEW c \in Live', parent'[c] # 0, at'[parent'[c]] \in Gone
               PROVE  FALSE
    BY DEF NoOrphans
  <2>1. c \in Live /\ c \in Process /\ parent'[c] = parent[c] /\ parent[c] \in Process
    BY <1>a, <1>c DEF Live, ShellTypeOK
  <2>2. at[parent[c]] \notin Gone
    BY <1>a, <2>1 DEF Chain, NoOrphans
  <2>3. at[parent[c]] = "program"
    BY <1>c, <2>1, <2>2
  <2>4. parent[c] \in Live
    BY <2>1, <2>3 DEF Live, Alive, Gone
  <2> QED
    BY <1>d, <2>1, <2>3, <2>4
<1>4. ListsGrow'
  BY <1>c DEF Chain, ListsGrow
<1> QED
  BY <1>1, <1>2, <1>3, <1>4 DEF Chain

LEMMA ChainStep == TypeInv /\ Nested /\ [Next]_vars => Nested'
<1> SUFFICES ASSUME TypeInv, Nested, [Next]_vars PROVE Nested'
  OBVIOUS
<1>1. TypeInv' /\ Kept /\ ForkOrder /\ ForkOrder'
  BY TypeStep, StepKept, ForkOrderStep DEF Nested
<1> SUFFICES ASSUME everStopped' = {} PROVE Chain'
  BY <1>1 DEF Nested
<1>2. everStopped = {} /\ stopped = {} /\ Chain
  BY <1>1 DEF Kept, TypeInv, ShellTypeOK, Nested
<1>3. ASSUME NEW p \in Process, Step(p) \/ Reads(p) PROVE Chain'
  <2>1. CASE \/ getcmd(p) \/ fork_fails(p) \/ fork_child(p) \/ builtin(p) \/ program_ends(p)
             \/ append_job(p) \/ Reads(p)
    <3>1. p \in Live /\ Front(p) /\ ~interrupted /\ FrontMoves(p)
      BY <1>2, <2>1, FrontActs
    <3> QED
      BY <1>1, <1>2, <3>1, FrontStep
  <2>2. CASE wait(p)
    <3>1. p \in Live /\ Front(p) /\ ~interrupted /\ FrontMoves(p)
      BY <1>2, <2>2, WaitActs
    <3> QED
      BY <1>1, <1>2, <3>1, FrontStep
  <2>3. CASE fork(p)
    BY <1>1, <1>2, <2>3, ForkChain
  <2>4. CASE fork_parent(p)
    BY <1>1, <1>2, <2>4, ForkParentChain
  <2>5. CASE sigHandler(p)
    BY <1>2, <2>5, HandlerChain
  <2> QED
    BY <1>3, <2>1, <2>2, <2>3, <2>4, <2>5 DEF Step
<1>4. CASE interrupt
  BY <1>1, <1>2, <1>4, InterruptChain
<1>5. CASE \E p \in Process : stop(p) \/ continue(p)
  BY <1>2, <1>5 DEF stop, continue
<1>6. CASE UNCHANGED vars
  <2>1. /\ at' = at /\ mem' = mem /\ parent' = parent
        /\ interrupted' = interrupted /\ early' = early
    BY <1>6 DEF vars, processes, signals
  <2> QED
    BY <1>2, <2>1 DEF Chain, InLine, ForkLeads, PidLeads, HandlersOnly, NoneEarly, HandlersKnow,
       NoOrphans, ListsGrow, Leads, Front, Children, Live, Alive
<1> QED
  BY <1>3, <1>4, <1>5, <1>6 DEF Next

(* The nesting of the shells, while nothing was stopped from outside.       *)
LEMMA StayNested == ShellSafety => [](TypeInv /\ Nested)
<1>1. Init => TypeInv /\ Nested
  <2> SUFFICES ASSUME Init PROVE TypeInv /\ Nested
    OBVIOUS
  <2>1. Started \in Image
    BY ShellAssumption DEF Started, Image, Command
  <2>2. TypeInv
    BY <2>1, ShellAssumption DEF Init, TypeInv, ShellTypeOK, WaitsForPid, Place
  <2>3. /\ \A q \in Process : at[q] = IF q = 1 THEN "read" ELSE "none"
        /\ \A q \in Process : parent[q] = 0 /\ mem[q] = Started
        /\ interrupted = FALSE /\ early = {} /\ 1 \in Process
    BY ShellAssumption DEF Init, Process
  <2>4. Live = {1}
    BY <2>3 DEF Live, Alive, Gone
  <2>5. ForkOrder
    BY <2>3 DEF ForkOrder, Process
  <2>6. Chain
    BY <2>3, <2>4 DEF Chain, InLine, ForkLeads, PidLeads, HandlersOnly, NoneEarly,
                      HandlersKnow, NoOrphans, ListsGrow
  <2> QED
    BY <2>2, <2>5, <2>6 DEF Nested
<1>2. TypeInv /\ Nested /\ [Next]_vars => (TypeInv /\ Nested)'
  BY TypeStep, ChainStep
<1> QED
  BY <1>1, <1>2, PTL DEF ShellSafety

(* While nothing was stopped from outside, one shell of all that were      *)
(* forked reads the input.                                                 *)
THEOREM OneShellReads == ShellSafety => []OneReader
<1>1. TypeInv /\ Nested => OneReader
  <2> SUFFICES ASSUME TypeInv, Chain, NEW p \in Process, NEW q \in Process,
                      at[p] = "read", at[q] = "read"
               PROVE  p = q
    BY DEF Nested, OneReader
  <2>1. p \in Live /\ q \in Live
    BY DEF Live, Alive, Gone
  <2>2. ~(p < q) /\ ~(q < p)
    BY <2>1 DEF Chain, InLine
  <2> QED
    BY <2>2 DEF Process
<1> QED
  BY <1>1, StayNested, PTL

(* A job number means the same process in every list of jobs that has it.  *)
THEOREM JobNumbersAgree == ShellSafety => []NumbersAgree
<1>1. TypeInv /\ Nested => NumbersAgree
  <2> SUFFICES ASSUME TypeInv, Chain, NEW p \in Live, NEW q \in Live,
                      NEW k \in DOMAIN mem[p].jobs \cap DOMAIN mem[q].jobs
               PROVE  mem[p].jobs[k] = mem[q].jobs[k]
    BY DEF Nested, NumbersAgree
  <2>1. p < q \/ q < p \/ p = q
    BY DEF Live, Process
  <2> QED
    BY <2>1 DEF Chain, ListsGrow, Grown
<1> QED
  BY <1>1, StayNested, PTL

(* No shell ends before its child, but for the one that ctrl+C meets       *)
(* between fork and the assignment of its result.                          *)
THEOREM ParentsOutlive == ShellSafety => []ParentsEndLast
<1>1. TypeInv /\ Nested => ParentsEndLast
  BY DEF Nested, ParentsEndLast, Chain, NoOrphans
<1> QED
  BY <1>1, StayNested, PTL

-----------------------------------------------------------------------------
(* The first shell is never a child, and only children run builtins.       *)
FirstInv ==
    at[1] \notin {"none", "born", "builtin", "program"} /\ FirstShellStays

(* A step leaves the first shell alone, or is one of a parent.             *)
LEMMA FirstGoes ==
    ASSUME TypeInv, FirstInv, NEW p \in Process, NEW a, NEW m, Goes(p, a, m),
           p = 1 => a \notin {"none", "born", "builtin", "program"} /\ m.cwd = mem[1].cwd
    PROVE  FirstInv'
BY ShellAssumption DEF TypeInv, ShellTypeOK, FirstInv, FirstShellStays, Goes, Process, Started

LEMMA FirstReaps ==
    ASSUME TypeInv, FirstInv, NEW p \in Process, Reaps(p, "append") \/ Reaps(p, "zombie")
    PROVE  FirstInv'
<1>1. /\ at \in [Process -> Place] /\ mem \in [Process -> Image] /\ 1 \in Process
      /\ at[1] \notin {"none", "born", "builtin", "program"} /\ mem[1].cwd = "home"
    BY ShellAssumption DEF TypeInv, ShellTypeOK, FirstInv, FirstShellStays, Process
<1>2. PICK a \in {"append", "zombie"}, c \in Process :
          /\ at' = [at EXCEPT ![p] = a, ![c] = "reaped"]
          /\ mem' = [mem EXCEPT ![p] = IF a = "zombie" THEN Started ELSE @]
    BY DEF Reaps, Awaited, Children
<1>3. at'[1] \in {at[1], a, "reaped"}
    BY <1>1, <1>2
<1>4. mem'[1] \in {mem[1], Started}
    BY <1>1, <1>2
<1>5. Started.cwd = "home"
    BY DEF Started
<1> QED BY <1>1, <1>3, <1>4, <1>5 DEF FirstInv, FirstShellStays

LEMMA FirstStep == TypeInv /\ FirstInv /\ [Next]_vars => FirstInv'
<1> SUFFICES ASSUME TypeInv, FirstInv, [Next]_vars PROVE FirstInv'
  OBVIOUS
<1>a. /\ ShellTypeOK /\ 1 \in Process /\ mem[1] \in Image
      /\ at[1] \notin {"none", "born", "builtin", "program"}
  BY ShellAssumption DEF TypeInv, ShellTypeOK, FirstInv, Process
<1>1. ASSUME NEW p \in Process, Step(p) PROVE FirstInv'
  <2>1. CASE getcmd(p) \/ fork_fails(p) \/ fork_parent(p) \/ append_job(p)
    <3>2. CASE getcmd(p)
      <4> DEFINE m == [mem[p] EXCEPT !.args = Head(mem[p].stdin), !.stdin = Tail(@)]
      <4>1. m.cwd = mem[p].cwd
        BY <1>a DEF ShellTypeOK, TypeInv, Image
      <4>2. \E a \in {"zombie", "fork"} : Goes(p, a, m)
        BY <3>2 DEF getcmd
      <4> QED
        BY <4>1, <4>2, FirstGoes
    <3>3. CASE fork_fails(p)
      BY <1>a, <3>3, FirstGoes DEF fork_fails, Image
    <3>4. CASE fork_parent(p)
      BY <1>a, <3>4, FirstGoes DEF fork_parent, Image
    <3>5. CASE append_job(p)
      <4> DEFINE m == [[mem[p] EXCEPT !.jobs = Append(@, mem[p].pid)] EXCEPT !.args = "nothing"]
      <4>1. m.cwd = mem[p].cwd
        BY <1>a DEF ShellTypeOK, TypeInv, Image
      <4>2. Goes(p, "read", m)
        BY <3>5 DEF append_job, Loops
      <4> QED
        BY <4>1, <4>2, FirstGoes
    <3> QED
      BY <2>1, <3>2, <3>3, <3>4, <3>5
  <2>2. CASE fork_child(p) \/ builtin(p) \/ program_ends(p)
    <3>1. p # 1
      BY <1>a, <2>2 DEF fork_child, builtin, program_ends, At
    <3>2. \E a, m : Goes(p, a, m)
      BY <2>2 DEF fork_child, builtin, program_ends, buildin_program, buildin_cd, buildin_fg,
                  no_effect, Loops
    <3> QED
      BY <3>1, <3>2, FirstGoes
  <2>3. CASE fork(p)
    BY <1>a, <2>3 DEF fork, Unforked, ShellTypeOK, FirstInv, FirstShellStays
  <2>4. CASE wait(p)
    <3>1. CASE Reaps(p, "append")
      BY <3>1, FirstReaps
    <3>2. CASE Goes(p, "append", mem[p])
      BY <3>2, FirstGoes
    <3>3. CASE at' = [at EXCEPT ![p] = "append"] /\ mem' = mem
      BY <1>a, <3>3 DEF ShellTypeOK, FirstInv, FirstShellStays
    <3> QED
      BY <2>4, <3>1, <3>2, <3>3 DEF wait
  <2>5. CASE sigHandler(p)
    BY <2>5, FirstReaps, FirstGoes DEF sigHandler
  <2> QED
    BY <1>1, <2>1, <2>2, <2>3, <2>4, <2>5 DEF Step
<1>2. CASE \E p \in Process : Reads(p)
  <2> PICK p \in Process : Reads(p)
    BY <1>2
  <2>1. CASE getline(p)
    <3>1. PICK lines : mem' = [mem EXCEPT ![p].stdin = lines]
      BY <2>1 DEF getline
    <3>2. mem'[1].cwd = mem[1].cwd /\ at' = at
      BY <1>a, <2>1, <3>1 DEF getline, ShellTypeOK, Image
    <3> QED
      BY <3>2 DEF FirstInv, FirstShellStays
  <2>2. CASE getline_end(p)
    BY <1>a, <2>2 DEF getline_end, ShellTypeOK, FirstInv, FirstShellStays, Started
  <2> QED
    BY <2>1, <2>2 DEF Reads
<1>3. CASE \/ interrupt \/ UNCHANGED vars
           \/ \E p \in Process : stop(p) \/ continue(p)
  BY <1>3, <1>a DEF interrupt, stop, continue, vars, processes, AfterInterrupt, ShellTypeOK,
                    FirstInv, FirstShellStays, Started
<1> QED
  BY <1>1, <1>2, <1>3 DEF Next

(* cd has no effect on the shell it is typed to.                           *)
THEOREM CdStaysInChild == ShellSafety => []FirstShellStays
<1>1. Init => TypeInv /\ FirstInv
  <2> SUFFICES ASSUME Init PROVE TypeInv /\ FirstInv
    OBVIOUS
  <2>1. Started \in Image
    BY ShellAssumption DEF Started, Image, Command
  <2>2. TypeInv
    BY <2>1, ShellAssumption DEF Init, TypeInv, ShellTypeOK, WaitsForPid, Place
  <2> QED
    BY <2>2, ShellAssumption DEF Init, FirstInv, FirstShellStays, Started, Process
<1>2. TypeInv /\ FirstInv /\ [Next]_vars => (TypeInv /\ FirstInv)'
  BY TypeStep, FirstStep
<1>3. FirstInv => FirstShellStays
  BY DEF FirstInv
<1> QED
  BY <1>1, <1>2, <1>3, PTL DEF ShellSafety
=============================================================================
