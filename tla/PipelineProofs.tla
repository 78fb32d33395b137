--------------------------- MODULE PipelineProofs ---------------------------
(***************************************************************************)
(* The shell's pipelines for any lines, programs and pipes: every process  *)
(* has the descriptors it should (Layout), so every reader sees the end of *)
(* its input, the prompt finds a clean shell, and what is on the screen is *)
(* the composition of the commands (Flow), so the shell implements Shell.  *)
(*                                                                         *)
(* Layout names the pipes of the line, f[m] being the one between commands *)
(* m and m + 1, and says for each process, by the stage it has come to, at *)
(* what numbers it holds ends of which: pipe() gives 3 and 4, or 5 and 6,  *)
(* in turns, and no process ever holds ends of more than two.  Flow names  *)
(* what command j has printed, out[j], and says where it is: read by the   *)
(* next command, in the pipe, or on the screen.                            *)
(***************************************************************************)
EXTENDS Pipeline, TLAPS, FiniteSetTheorems, WellFoundedInduction, SequenceTheorems

\* The lowest two numbers free in the shell, which it gives to pipe m of a line.
Place(m) == IF m % 2 = 1 THEN 3 ELSE 5
Pair(m) == <<Place(m), Place(m) + 1>>

\* A table with the ends of pipe a from p on and of pipe b from q on; 0 is no pipe.
Tab(in, out, p, a, q, b) ==
  [n \in FD |->
     IF n = 0 THEN in
     ELSE IF n = 1 THEN out
     ELSE IF n = 2 THEN Screen
     ELSE IF n = p /\ a # 0 THEN R(a)
     ELSE IF n = p + 1 /\ a # 0 THEN W(a)
     ELSE IF n = q /\ b # 0 THEN R(b)
     ELSE IF n = q + 1 /\ b # 0 THEN W(b)
     ELSE Closed]
\* One with a as pipe m of the line, and b as the pipe before.
Table(in, out, m, a, b) == Tab(in, out, Place(m), a, Place(m - 1), b)

\* Where command j reads and writes, pipe m of the line being f[m].
In(f, j) == IF j > 1 THEN R(f[j - 1]) ELSE Keyboard
Out(f, j) == IF j < ncmds THEN W(f[j]) ELSE Screen
Own(f, j) == IF j < ncmds THEN 0 ELSE f[j]

ShellTable(f) ==
  fds[Shell] = IF pc = "fork" THEN Table(Keyboard, Screen, i, f[i], 0)
               ELSE IF pc = "parent" THEN Table(Keyboard, Screen, i + 1, f[i + 1], f[i])
               ELSE IF pc = "aborted" THEN NoneOpen
               ELSE Terminal

ShellArrays ==
  /\ pc = "fork" /\ i > 0 => fwdpip[Shell] = Pair(i) /\ bckpip[Shell] = Pair(i)
  /\ pc = "parent" => fwdpip[Shell] = Pair(i + 1) /\ (i > 0 => bckpip[Shell] = Pair(i))

Early(j) == child[j] \in {"born", "stdout"}
Late(j) == child[j] \in {"exec", "run"}

ChildTable(f, j) ==
  fds[j] = IF Early(j) THEN Table(Keyboard, Screen, j, f[j], f[j - 1])
           ELSE IF child[j] = "stdin" THEN Table(Keyboard, Out(f, j), j, Own(f, j), f[j - 1])
           ELSE IF Late(j) THEN Table(In(f, j), Out(f, j), j, Own(f, j), 0)
           ELSE NoneOpen

ChildArrays(j) ==
  /\ Early(j) => fwdpip[j] = Pair(j)
  /\ (Early(j) \/ child[j] = "stdin") /\ j > 1 => bckpip[j] = Pair(j - 1)

\* How many commands of the line have been forked.
Forked == IF pc \in {"fork", "aborted"} THEN i ELSE IF pc = "parent" THEN i + 1 ELSE ncmds

Stages ==
  /\ pc \in {"fork", "parent", "wait"} => ncmds > 0
  /\ pc \in {"parent", "aborted"} => i < ncmds
  /\ \A j \in Child : child[j] # "none" => j <= Forked
  /\ pc \in {"fork", "parent"} => \A j \in 1..Forked : child[j] # "none"
  /\ pc \in {"prompt", "exit"} => \A j \in Child : child[j] = "none"
  /\ pc = "wait" => Cardinality({j \in 1..ncmds : child[j] = "none"}) = i

\* The pipes of the line a process holds an end of.
Uses(p) ==
  IF p = Shell
    THEN IF pc = "fork" THEN {i} ELSE IF pc = "parent" THEN {i, i + 1} ELSE {}
    ELSE IF child[p] \in {"none", "dead"} THEN {} ELSE {p - 1, p}
Distinct(f) ==
  \A p, q \in Process : \A m \in Uses(p) \ {0}, n \in Uses(q) \ {0} : f[m] = f[n] => m = n

Numbering(f) == f \in [0..MaxCommands -> Nat] /\ f[0] = 0 /\ \A m \in Child : f[m] \in Pipe

\* Where every end of the line's pipes is, whatever the processes have come to.
Layout(f) ==
  /\ Numbering(f) /\ ShellTable(f) /\ ShellArrays /\ Stages /\ Distinct(f)
  /\ \A j \in Child : ChildTable(f, j) /\ ChildArrays(j)

Entry == {Closed, Keyboard, Screen} \cup {R(k) : k \in Pipe} \cup {W(k) : k \in Pipe}

\* How the items flow: out[j] is what command j of the line has printed.
Gone(j) == child[j] = "dead" \/ (child[j] = "none" /\ j <= Forked)
Taken(j) == IF child[j] = "run" THEN Copies[cmds[j]] - toCopy[j] ELSE 0
Makings(line, j) == [m \in 1..Makes[line[j]] |-> <<j, m>>]
Rest(s, n) == SubSeq(s, n + 1, Len(s))
\* Command j reads, or will when it is forked, what the one before prints.
Reads(j) == IF child[j] = "none" THEN pc \in {"fork", "parent"} /\ j = Forked + 1 ELSE child[j] # "dead"
Excused == interrupted \/ pc = "aborted"

Ran(out, j) ==
  child[j] = "run" =>
    /\ cmds[j] # Missing /\ toCopy[j] <= Copies[cmds[j]] /\ Taken(j) <= Len(out[j - 1])
    /\ out[j] \o toWrite[j] = Makings(cmds, j) \o SubSeq(out[j - 1], 1, Taken(j))
Idle(out, j) == ~Gone(j) /\ child[j] # "run" => out[j] = << >>
Fills(f, out, j) ==
  Reads(j) => (IF j = 1 THEN tty ELSE pipe[f[j - 1]]) = Rest(out[j - 1], Taken(j))
Ended(out, j) ==
  Gone(j) /\ ~Excused => out[j] = Printed(cmds)[j] \/ (j < ncmds /\ Gone(j + 1))

Flow(f, out) ==
  /\ out \in [0..MaxCommands -> Seq(Item)] /\ out[0] = Typed
  /\ \A j \in 1..ncmds : /\ Ran(out, j) /\ Idle(out, j) /\ Fills(f, out, j) /\ Ended(out, j)
                         /\ IsPrefix(out[j], Printed(cmds)[j])
  /\ screen = out[ncmds]
-----------------------------------------------------------------------------

LEMMA Constants ==
  /\ MaxCommands \in Nat /\ PipeSize \in Nat /\ PipeSize > 0
  /\ \A l \in Lines : l \in Seq(DOMAIN Makes \cup {Missing}) /\ l # << >> /\ Len(l) <= MaxCommands
  /\ Child \subseteq Nat /\ Shell = 0 /\ 0 \notin Child /\ 0 \notin Pipe /\ 1 \in Pipe
  /\ \A j \in Child : j \in Nat /\ j > 0 /\ j <= MaxCommands
BY LinesAssumption, PipeAssumption DEF Child, Shell, Pipe

LEMMA EndsDiffer ==
  /\ Keyboard # Closed /\ Screen # Closed /\ Keyboard # Screen
  /\ \A k : /\ R(k) # Closed /\ W(k) # Closed /\ R(k) # Keyboard /\ R(k) # Screen
            /\ W(k) # Keyboard /\ W(k) # Screen
  /\ \A k, l : R(k) # W(l) /\ (R(k) = R(l) => k = l) /\ (W(k) = W(l) => k = l)
BY DEF R, W, Keyboard, Screen, Closed

LEMMA Places ==
  ASSUME NEW m \in Nat
  PROVE  /\ Place(m) \in {3, 5} /\ Place(m + 1) \in {3, 5} /\ Place(m) # Place(m + 1)
         /\ (m + 1) - 1 = m /\ (m = 0 => Place(m + 1) = 3)
BY DEF Place

\* What open and closed numbers the tables of the shell and of its children have.
LEMMA Entries ==
  ASSUME MaxCommands \in Nat, MaxCommands > 0, NEW in, NEW out, NEW a, NEW b,
         NEW p \in {3, 5}, NEW q \in {3, 5}, p # q
  PROVE  /\ 0..6 \subseteq FD /\ FD \subseteq Nat
         /\ DOMAIN Tab(in, out, p, a, q, b) = FD
         /\ Tab(in, out, p, a, q, b)[0] = in /\ Tab(in, out, p, a, q, b)[1] = out
         /\ Tab(in, out, p, a, q, b)[2] = Screen
         /\ Tab(in, out, p, a, q, b)[p] = IF a # 0 THEN R(a) ELSE Closed
         /\ Tab(in, out, p, a, q, b)[p + 1] = IF a # 0 THEN W(a) ELSE Closed
         /\ Tab(in, out, p, a, q, b)[q] = IF b # 0 THEN R(b) ELSE Closed
         /\ Tab(in, out, p, a, q, b)[q + 1] = IF b # 0 THEN W(b) ELSE Closed
         /\ \A n \in FD : n \notin {0, 1, 2, p, p + 1, q, q + 1} => Tab(in, out, p, a, q, b)[n] = Closed
<1>1. 0..6 \subseteq FD /\ FD \subseteq Nat
  BY DEF FD
<1>2. 0 \in FD /\ 1 \in FD /\ 2 \in FD /\ p \in FD /\ p + 1 \in FD /\ q \in FD /\ q + 1 \in FD
  BY <1>1
<1> QED BY <1>1, <1>2 DEF Tab

LEMMA ToPipe ==
  ASSUME MaxCommands \in Nat, MaxCommands > 0, NEW in, NEW out, NEW a, NEW b,
         NEW p \in {3, 5}, NEW q \in {3, 5}, p # q, a # 0
  PROVE  Dup2(Close(Tab(in, out, p, a, q, b), 1), p + 1, 1) = Tab(in, W(a), p, a, q, b)
<1> DEFINE t == Tab(in, out, p, a, q, b)
           u == Close(t, 1)
<1>1. 1 \in FD /\ p + 1 \in FD /\ p + 1 # 1 /\ u[p + 1] = W(a)
  BY Entries DEF Close, Put
<1>2. Dup2(u, p + 1, 1) = Put(u, 1, W(a))
  BY <1>1, EndsDiffer DEF Dup2
<1>3. Put(u, 1, W(a)) = [n \in FD |-> IF n = 1 THEN W(a) ELSE t[n]]
  BY <1>1 DEF Tab, Close, Put
<1>4. Tab(in, W(a), p, a, q, b) = [n \in FD |-> IF n = 1 THEN W(a) ELSE t[n]]
  BY DEF Tab
<1> QED BY <1>2, <1>3, <1>4

LEMMA FromPipe ==
  ASSUME MaxCommands \in Nat, MaxCommands > 0, NEW in, NEW out, NEW a, NEW b,
         NEW p \in {3, 5}, NEW q \in {3, 5}, p # q, b # 0
  PROVE  Dup2(Close(Tab(in, out, p, a, q, b), 0), q, 0) = Tab(R(b), out, p, a, q, b)
<1> DEFINE t == Tab(in, out, p, a, q, b)
           u == Close(t, 0)
<1>1. 0 \in FD /\ q \in FD /\ q # 0 /\ u[q] = R(b)
  BY Entries DEF Close, Put
<1>2. Dup2(u, q, 0) = Put(u, 0, R(b))
  BY <1>1, EndsDiffer DEF Dup2
<1>3. Put(u, 0, R(b)) = [n \in FD |-> IF n = 0 THEN R(b) ELSE t[n]]
  BY <1>1 DEF Tab, Close, Put
<1>4. Tab(R(b), out, p, a, q, b) = [n \in FD |-> IF n = 0 THEN R(b) ELSE t[n]]
  BY DEF Tab
<1> QED BY <1>2, <1>3, <1>4

LEMMA ClosePipe ==
  ASSUME MaxCommands \in Nat, MaxCommands > 0, NEW in, NEW out, NEW a, NEW b,
         NEW p \in {3, 5}, NEW q \in {3, 5}, p # q
  PROVE  /\ close_pipes(Tab(in, out, p, a, q, b), <<p, p + 1>>) = Tab(in, out, p, 0, q, b)
         /\ close_pipes(Tab(in, out, p, a, q, b), <<q, q + 1>>) = Tab(in, out, p, a, q, 0)
         /\ Tab(in, out, p, a, q, b) = Tab(in, out, q, b, p, a)
<1> DEFINE t == Tab(in, out, p, a, q, b)
<1>1. p \in FD /\ p + 1 \in FD /\ q \in FD /\ q + 1 \in FD
  BY Entries
<1>2. ASSUME NEW r \in FD, r + 1 \in FD
      PROVE  close_pipes(t, <<r, r + 1>>) = [n \in FD |-> IF n = r \/ n = r + 1 THEN Closed ELSE t[n]]
  BY <1>2 DEF Tab, close_pipes, Close, Put
<1>3. Tab(in, out, p, 0, q, b) = [n \in FD |-> IF n = p \/ n = p + 1 THEN Closed ELSE t[n]]
  BY DEF Tab
<1>4. Tab(in, out, p, a, q, 0) = [n \in FD |-> IF n = q \/ n = q + 1 THEN Closed ELSE t[n]]
  BY DEF Tab
<1>5. Tab(in, out, p, a, q, b) = Tab(in, out, q, b, p, a)
  BY DEF Tab
<1> QED BY <1>1, <1>2, <1>3, <1>4, <1>5

\* pipe() gives p and p + 1 when they are the lowest that are free.
LEMMA NewPipe ==
  ASSUME MaxCommands \in Nat, MaxCommands > 0, NEW in, NEW out, NEW a, NEW b,
         NEW p \in {3, 5}, NEW q \in {3, 5}, p # q, p = 3 \/ b # 0, a # 0,
         in # Closed, out # Closed
  PROVE  LET t == Tab(in, out, p, 0, q, b)
             u == Put(t, p, R(a))
         IN  Lowest(t) = p /\ Lowest(u) = p + 1 /\ Put(u, p + 1, W(a)) = Tab(in, out, p, a, q, b)
<1> DEFINE t == Tab(in, out, p, 0, q, b)
           u == Put(t, p, R(a))
<1>1. p \in FD /\ p + 1 \in FD /\ FD \subseteq Nat
  BY Entries
<1>2. t[p] = Closed /\ \A m \in 0..(p - 1) : t[m] # Closed
  BY <1>1, EndsDiffer, Entries
<1>3. \A n \in FD : t[n] = Closed /\ (\A m \in 0..(n - 1) : t[m] # Closed) => n = p
  BY <1>1, <1>2
<1>4. Lowest(t) = p
  BY <1>1, <1>2, <1>3 DEF Lowest
<1>5. u[p + 1] = Closed /\ \A m \in 0..p : u[m] # Closed
  BY <1>1, <1>2, EndsDiffer, Entries DEF Put
<1>6. \A n \in FD : u[n] = Closed /\ (\A m \in 0..(n - 1) : u[m] # Closed) => n = p + 1
  BY <1>1, <1>5
<1>7. Lowest(u) = p + 1
  BY <1>1, <1>5, <1>6 DEF Lowest
<1>8. Put(u, p + 1, W(a)) = Tab(in, out, p, a, q, b)
  <2>1. Put(u, p + 1, W(a)) = [n \in FD |-> IF n = p THEN R(a) ELSE IF n = p + 1 THEN W(a) ELSE t[n]]
    <3>1. u = [n \in FD |-> IF n = p THEN R(a) ELSE t[n]]
      BY <1>1 DEF Tab, Put
    <3>2. Put(u, p + 1, W(a)) = [n \in FD |-> IF n = p + 1 THEN W(a) ELSE u[n]]
      BY <1>1, <3>1 DEF Put
    <3> HIDE DEF t, u
    <3>3. p # p + 1 /\ \A n \in FD : u[n] = IF n = p THEN R(a) ELSE t[n]
      BY <1>1, <3>1
    <3> QED BY <3>2, <3>3
  <2>2. Tab(in, out, p, a, q, b) = [n \in FD |-> IF n = p THEN R(a) ELSE IF n = p + 1 THEN W(a) ELSE t[n]]
    BY DEF Tab
  <2> QED BY <2>1, <2>2
<1> QED BY <1>4, <1>7, <1>8

LEMMA TabType ==
  ASSUME NEW in \in Entry, NEW out \in Entry, NEW a \in Pipe \cup {0}, NEW b \in Pipe \cup {0},
         NEW p, NEW q
  PROVE  Tab(in, out, p, a, q, b) \in [FD -> Entry]
<1>1. /\ a # 0 => R(a) \in Entry /\ W(a) \in Entry
      /\ b # 0 => R(b) \in Entry /\ W(b) \in Entry
      /\ Screen \in Entry /\ Closed \in Entry
  BY DEF Entry
<1> HIDE DEF Entry
<1> QED BY <1>1 DEF Tab

LEMMA Line ==
  ASSUME TypeOK, NEW f, Layout(f)
  PROVE  /\ ncmds \in Nat /\ ncmds <= MaxCommands /\ Forked \in 0..ncmds /\ i \in Nat /\ i <= ncmds
         /\ \A j \in 1..ncmds : cmds[j] \in DOMAIN Makes \cup {Missing}
         /\ \A j \in Child : child[j] # "none" => j \in 1..ncmds /\ j \in Nat /\ j > 0
         /\ MaxCommands \in Nat /\ (ncmds > 0 => MaxCommands > 0)
<1>1. ncmds \in Nat /\ ncmds <= MaxCommands /\ \A j \in 1..ncmds : cmds[j] \in DOMAIN Makes \cup {Missing}
  <2>1. CASE cmds = << >>
    BY <2>1, Constants DEF ncmds
  <2>2. CASE cmds \in Lines
    BY <2>2, Constants DEF ncmds
  <2> QED BY <2>1, <2>2 DEF TypeOK
<1>2. i \in Nat /\ i <= ncmds
  BY <1>1 DEF TypeOK
<1>3. Forked \in 0..ncmds
  BY <1>1, <1>2 DEF Layout, Stages, Forked
<1>4. \A j \in Child : child[j] # "none" => j \in 1..ncmds /\ j \in Nat /\ j > 0
  BY <1>1, <1>3, Constants DEF Layout, Stages
<1>5. MaxCommands \in Nat /\ (ncmds > 0 => MaxCommands > 0)
  BY <1>1, Constants
<1> QED BY <1>1, <1>2, <1>3, <1>4, <1>5

LEMMA Still ==
  ASSUME NEW f, NEW p \in Child, ChildTable(f, p), ChildArrays(p), cmds' = cmds,
         fds'[p] = fds[p], child'[p] = child[p], fwdpip'[p] = fwdpip[p], bckpip'[p] = bckpip[p]
  PROVE  ChildTable(f, p)' /\ ChildArrays(p)'
BY DEF ChildTable, ChildArrays, Early, Late, In, Out, Own, ncmds

\* The children go their ways, none is born and none is waited for.
LEMMA Moves ==
  ASSUME TypeOK, NEW f, Layout(f), pc' = pc, i' = i, cmds' = cmds,
         fds'[Shell] = fds[Shell], fwdpip'[Shell] = fwdpip[Shell], bckpip'[Shell] = bckpip[Shell],
         \A p \in Child : /\ child'[p] = "none" <=> child[p] = "none"
                          /\ child[p] = "dead" => child'[p] = "dead",
         \A p \in Child : ChildTable(f, p)' /\ ChildArrays(p)'
  PROVE  Layout(f)'
<1>1. Numbering(f) /\ ShellTable(f) /\ ShellArrays /\ Stages /\ Distinct(f)
  BY DEF Layout
<1>2. ShellTable(f)' /\ ShellArrays'
  BY <1>1 DEF ShellTable, ShellArrays
<1>3. Stages'
  <2>1. Forked' = Forked /\ ncmds' = ncmds
    BY DEF Forked, ncmds
  <2>2. 1..ncmds \subseteq Child
    BY Line DEF Child
  <2>3. {j \in 1..ncmds : child'[j] = "none"} = {j \in 1..ncmds : child[j] = "none"}
    BY <2>2
  <2>4. \A j \in 1..Forked : j \in Child
    BY <2>2, Line
  <2> QED BY <1>1, <2>1, <2>3, <2>4 DEF Stages
<1>4. Distinct(f)'
  <2>1. \A p \in Process : Uses(p)' \subseteq Uses(p)
    BY DEF Uses, Process
  <2> QED BY <1>1, <2>1 DEF Distinct
<1> QED BY <1>1, <1>2, <1>3, <1>4 DEF Layout, Numbering

\* What is left of a child that is killed.
LEMMA Killed ==
  ASSUME TypeOK, NEW f, Layout(f), NEW S \in SUBSET Process, Kill(S), cmds' = cmds
  PROVE  /\ \A p \in Child : ChildTable(f, p)' /\ ChildArrays(p)'
         /\ child' \in [Child -> {"none", "born", "stdout", "stdin", "exec", "run", "dead"}]
         /\ fds' \in [Process -> [FD -> Entry]]
         /\ bckpip' \in [Process -> Nat \X Nat] /\ fwdpip' \in [Process -> Nat \X Nat]
         /\ toWrite' \in [Child -> Seq(Item)] /\ toCopy' \in [Child -> Nat]
         /\ \A p \in Process : p \notin S => fds'[p] = fds[p] /\ bckpip'[p] = bckpip[p] /\ fwdpip'[p] = fwdpip[p]
         /\ \A p \in Child : child'[p] = IF p \in S THEN "dead" ELSE child[p]
<1>1. /\ child \in [Child -> {"none", "born", "stdout", "stdin", "exec", "run", "dead"}]
      /\ fds \in [Process -> [FD -> Entry]] /\ NoneOpen \in [FD -> Entry]
      /\ bckpip \in [Process -> Nat \X Nat] /\ fwdpip \in [Process -> Nat \X Nat]
      /\ toWrite \in [Child -> Seq(Item)] /\ toCopy \in [Child -> Nat]
      /\ Child \subseteq Process
  BY DEF TypeOK, Entry, NoneOpen, Process
<1>2. child' \in [Child -> {"none", "born", "stdout", "stdin", "exec", "run", "dead"}]
  BY <1>1 DEF Kill
<1>3. fds' \in [Process -> [FD -> Entry]]
  <2> HIDE DEF Entry
  <2> QED BY <1>1 DEF Kill
<1>4. /\ bckpip' \in [Process -> Nat \X Nat] /\ fwdpip' \in [Process -> Nat \X Nat]
      /\ toWrite' \in [Child -> Seq(Item)] /\ toCopy' \in [Child -> Nat]
  BY <1>1 DEF Kill
<1>5. \A p \in Process : p \notin S => fds'[p] = fds[p] /\ bckpip'[p] = bckpip[p] /\ fwdpip'[p] = fwdpip[p]
  BY DEF Kill
<1>6. \A p \in Child : child'[p] = IF p \in S THEN "dead" ELSE child[p]
  BY DEF Kill
<1>7. ASSUME NEW p \in Child PROVE ChildTable(f, p)' /\ ChildArrays(p)'
  <2>1. CASE p \in S
    <3>1. child'[p] = "dead" /\ fds'[p] = NoneOpen
      BY <1>1, <2>1 DEF Kill
    <3> QED BY <3>1 DEF ChildTable, ChildArrays, Early, Late
  <2>2. CASE p \notin S
    BY <1>1, <1>5, <1>6, <2>2, Still DEF Layout
  <2> QED BY <2>1, <2>2
<1> QED BY <1>2, <1>3, <1>4, <1>5, <1>6, <1>7
-----------------------------------------------------------------------------
LEMMA Start ==
  ASSUME Init
  PROVE  TypeOK /\ \E f : Layout(f)
<1>1. /\ pc = "prompt" /\ cmds = << >> /\ i = 0 /\ ncmds = 0
      /\ fds = [p \in Process |-> IF p = Shell THEN Terminal ELSE NoneOpen]
      /\ bckpip = [p \in Process |-> <<0, 0>>] /\ fwdpip = [p \in Process |-> <<0, 0>>]
      /\ child = [j \in Child |-> "none"]
      /\ toWrite = [j \in Child |-> << >>] /\ toCopy = [j \in Child |-> 0]
      /\ pipe = [k \in Pipe |-> << >>] /\ tty = << >> /\ screen = << >> /\ interrupted = FALSE
  BY DEF Init, ncmds
<1>2. TypeOK
  <2>1. fds \in [Process -> [FD -> Entry]]
    BY <1>1 DEF Entry, Terminal, NoneOpen
  <2>2. \A k \in Pipe : Len(pipe[k]) <= PipeSize
    BY <1>1, Constants
  <2>3. /\ bckpip \in [Process -> Nat \X Nat] /\ fwdpip \in [Process -> Nat \X Nat]
        /\ toWrite \in [Child -> Seq(Item)] /\ toCopy \in [Child -> Nat] /\ pipe \in [Pipe -> Seq(Item)]
        /\ tty \in Seq(Item) /\ screen \in Seq(Item)
    BY <1>1
  <2>4. child \in [Child -> {"none", "born", "stdout", "stdin", "exec", "run", "dead"}]
    BY <1>1
  <2>5. cmds \in Lines \cup {<< >>} /\ interrupted \in BOOLEAN
    BY <1>1
  <2>7. i = 0 /\ ncmds = 0
    BY <1>1
  <2>8. i \in 0..ncmds
    BY <2>7
  <2>6. pc \in {"prompt", "fork", "parent", "wait", "exit", "aborted"}
    BY <1>1
  <2> QED BY <2>1, <2>2, <2>3, <2>4, <2>5, <2>6, <2>8 DEF TypeOK, Entry
<1> DEFINE f == [m \in 0..MaxCommands |-> IF m = 0 THEN 0 ELSE 1]
<1>3. Numbering(f)
  BY Constants DEF Numbering, Child
<1>4. ShellTable(f) /\ ShellArrays
  BY <1>1 DEF ShellTable, ShellArrays, Process
<1>5. Stages
  BY <1>1 DEF Stages
<1>6. Distinct(f)
  BY <1>1 DEF Distinct, Uses, Process
<1>7. \A j \in Child : ChildTable(f, j) /\ ChildArrays(j)
  BY <1>1, Constants DEF ChildTable, ChildArrays, Early, Late, Process
<1> QED BY <1>2, <1>3, <1>4, <1>5, <1>6, <1>7 DEF Layout

\* One child comes to its next stage and only it.
LEMMA Onward ==
  ASSUME TypeOK, NEW f, Layout(f), NEW j \in Child, child[j] \notin {"none", "dead"},
         NEW s \in {"stdout", "stdin", "exec", "run"}, child' = [child EXCEPT ![j] = s],
         pc' = pc, i' = i, cmds' = cmds,
         \A p \in Process : p # j => fds'[p] = fds[p] /\ fwdpip'[p] = fwdpip[p] /\ bckpip'[p] = bckpip[p],
         ChildTable(f, j)', ChildArrays(j)'
  PROVE  /\ Layout(f)'
         /\ child' \in [Child -> {"none", "born", "stdout", "stdin", "exec", "run", "dead"}]
<1>1. /\ child' \in [Child -> {"none", "born", "stdout", "stdin", "exec", "run", "dead"}]
      /\ child'[j] = s /\ \A p \in Child : p # j => child'[p] = child[p]
  BY DEF TypeOK
<1>2. \A p \in Child : /\ child'[p] = "none" <=> child[p] = "none"
                       /\ child[p] = "dead" => child'[p] = "dead"
  BY <1>1
<1>3. Shell \in Process /\ Shell # j /\ Child \subseteq Process
  BY Constants DEF Process
<1>4. ASSUME NEW p \in Child PROVE ChildTable(f, p)' /\ ChildArrays(p)'
  <2>1. CASE p = j
    BY <2>1
  <2>2. CASE p # j
    <3>1. ChildTable(f, p) /\ ChildArrays(p)
      BY DEF Layout
    <3> QED BY <1>1, <1>3, <2>2, <3>1, Still
  <2> QED BY <2>1, <2>2
<1> QED BY <1>1, <1>2, <1>3, <1>4, Moves

\* The numbers by which a child knows the pipes beside it.
LEMMA Beside ==
  ASSUME TypeOK, NEW f, Layout(f), NEW j \in Child, child[j] # "none"
  PROVE  /\ j \in 1..ncmds /\ ncmds \in Nat /\ j \in Nat /\ j > 0 /\ j - 1 \in Nat
         /\ MaxCommands \in Nat /\ MaxCommands > 0
         /\ Place(j) \in {3, 5} /\ Place(j - 1) \in {3, 5} /\ Place(j) # Place(j - 1)
         /\ f[j] \in Pipe /\ f[j] # 0 /\ f[j - 1] \in Pipe \cup {0}
         /\ (j > 1 => f[j - 1] \in Pipe /\ f[j - 1] # 0) /\ (j = 1 => f[j - 1] = 0)
         /\ In(f, j) \in Entry /\ Out(f, j) \in Entry /\ Own(f, j) \in Pipe \cup {0}
<1>1. j \in 1..ncmds /\ ncmds \in Nat /\ j \in Nat /\ j > 0 /\ MaxCommands \in Nat /\ MaxCommands > 0
  BY Line
<1>2. j - 1 \in Nat /\ (j - 1) + 1 = j
  BY <1>1
<1>3. Place(j) \in {3, 5} /\ Place(j - 1) \in {3, 5} /\ Place(j) # Place(j - 1)
  BY <1>2, Places
<1>4. f[j] \in Pipe /\ f[0] = 0 /\ 0 \notin Pipe /\ \A m \in Child : f[m] \in Pipe
  BY Constants DEF Layout, Numbering
<1>5. j > 1 => j - 1 \in Child
  BY <1>1, Constants DEF Child
<1>6. (j > 1 => f[j - 1] \in Pipe /\ f[j - 1] # 0) /\ (j = 1 => f[j - 1] = 0)
  BY <1>2, <1>4, <1>5
<1>7. In(f, j) \in Entry /\ Out(f, j) \in Entry /\ Own(f, j) \in Pipe \cup {0}
  BY <1>4, <1>6 DEF In, Out, Own, Entry
<1> QED BY <1>1, <1>2, <1>3, <1>4, <1>6, <1>7

LEMMA SetSignalLayout ==
  ASSUME TypeOK, NEW f, Layout(f), NEW j \in Child, SetSignal(j)
  PROVE  TypeOK' /\ Layout(f)'
<1>1. /\ child[j] = "born" /\ child' = [child EXCEPT ![j] = "stdout"]
      /\ pc' = pc /\ cmds' = cmds /\ i' = i /\ fds' = fds /\ bckpip' = bckpip /\ fwdpip' = fwdpip
      /\ toWrite' = toWrite /\ toCopy' = toCopy /\ pipe' = pipe /\ tty' = tty /\ screen' = screen
      /\ interrupted' = interrupted
  BY DEF SetSignal, prog
<1>2. child'[j] = "stdout"
  BY <1>1 DEF TypeOK
<1>3. ChildTable(f, j)' /\ ChildArrays(j)'
  BY <1>1, <1>2 DEF Layout, ChildTable, ChildArrays, Early, Late
<1>4. /\ Layout(f)'
      /\ child' \in [Child -> {"none", "born", "stdout", "stdin", "exec", "run", "dead"}]
  BY <1>1, <1>3, Onward
<1>5. TypeOK'
  BY <1>1, <1>4 DEF TypeOK, ncmds
<1> QED BY <1>4, <1>5

LEMMA RedirectOutLayout ==
  ASSUME TypeOK, NEW f, Layout(f), NEW j \in Child, RedirectOut(j)
  PROVE  TypeOK' /\ Layout(f)'
<1>1. /\ child[j] = "stdout" /\ child' = [child EXCEPT ![j] = "stdin"]
      /\ pc' = pc /\ cmds' = cmds /\ i' = i /\ bckpip' = bckpip /\ fwdpip' = fwdpip
      /\ toWrite' = toWrite /\ toCopy' = toCopy /\ pipe' = pipe /\ tty' = tty /\ screen' = screen
      /\ interrupted' = interrupted
      /\ fds' = IF j < ncmds
                  THEN [fds EXCEPT ![j] = close_pipes(Dup2(Close(@, 1), fwdpip[j][2], 1), fwdpip[j])]
                  ELSE fds
  BY DEF RedirectOut, prog, HasNext
<1>2. child'[j] = "stdin" /\ fds \in [Process -> [FD -> Entry]] /\ j \in Process
  BY <1>1 DEF TypeOK, Entry, Process
<1> DEFINE p == Place(j)
           q == Place(j - 1)
<1>3. /\ j \in 1..ncmds /\ ncmds \in Nat /\ MaxCommands \in Nat /\ MaxCommands > 0 /\ j \in Nat
      /\ p \in {3, 5} /\ q \in {3, 5} /\ p # q /\ f[j] \in Pipe /\ f[j] # 0 /\ f[j - 1] \in Pipe \cup {0}
      /\ Out(f, j) \in Entry /\ Own(f, j) \in Pipe \cup {0}
  BY <1>1, Beside
<1>4. fds[j] = Tab(Keyboard, Screen, p, f[j], q, f[j - 1]) /\ fwdpip[j] = <<p, p + 1>>
  BY <1>1 DEF Layout, ChildTable, ChildArrays, Early, Table, Pair
<1> HIDE DEF p, q
<1>5. Keyboard \in Entry
  BY DEF Entry
<1>6. /\ fds'[j] = Tab(Keyboard, Out(f, j), p, Own(f, j), q, f[j - 1])
      /\ fds' = [fds EXCEPT ![j] = Tab(Keyboard, Out(f, j), p, Own(f, j), q, f[j - 1])]
  <2>1. CASE j < ncmds
    <3>1. close_pipes(Dup2(Close(fds[j], 1), fwdpip[j][2], 1), fwdpip[j])
            = Tab(Keyboard, W(f[j]), p, 0, q, f[j - 1])
      BY <1>3, <1>4, ToPipe, ClosePipe
    <3> QED BY <1>1, <1>2, <2>1, <3>1 DEF Out, Own
  <2>2. CASE ~(j < ncmds)
    BY <1>1, <1>2, <1>4, <2>2 DEF Out, Own
  <2> QED BY <2>1, <2>2
<1>7. fds' \in [Process -> [FD -> Entry]]
  BY <1>2, <1>3, <1>5, <1>6, TabType
<1>8. ChildTable(f, j)' /\ ChildArrays(j)'
  <2>1. fds'[j] = Table(Keyboard, Out(f, j), j, Own(f, j), f[j - 1])
    BY <1>6 DEF p, q, Table
  <2>2. ChildTable(f, j)'
    BY <1>1, <1>2, <2>1 DEF ChildTable, Early, Out, Own, ncmds
  <2>3. ChildArrays(j)'
    BY <1>1, <1>2 DEF Layout, ChildArrays, Early
  <2> QED BY <2>2, <2>3
<1>9. /\ Layout(f)'
      /\ child' \in [Child -> {"none", "born", "stdout", "stdin", "exec", "run", "dead"}]
  <2>1. \A r \in Process : r # j => fds'[r] = fds[r]
    BY <1>2, <1>6
  <2> QED BY <1>1, <1>8, <2>1, Onward
<1>10. TypeOK'
  BY <1>1, <1>7, <1>9 DEF TypeOK, ncmds, Entry
<1> QED BY <1>9, <1>10

LEMMA RedirectInLayout ==
  ASSUME TypeOK, NEW f, Layout(f), NEW j \in Child, RedirectIn(j)
  PROVE  TypeOK' /\ Layout(f)'
<1>1. /\ child[j] = "stdin" /\ child' = [child EXCEPT ![j] = "exec"]
      /\ pc' = pc /\ cmds' = cmds /\ i' = i /\ bckpip' = bckpip /\ fwdpip' = fwdpip
      /\ toWrite' = toWrite /\ toCopy' = toCopy /\ pipe' = pipe /\ tty' = tty /\ screen' = screen
      /\ interrupted' = interrupted
      /\ fds' = IF j > 1
                  THEN [fds EXCEPT ![j] = close_pipes(Dup2(Close(@, 0), bckpip[j][1], 0), bckpip[j])]
                  ELSE fds
  BY DEF RedirectIn, prog
<1>2. child'[j] = "exec" /\ fds \in [Process -> [FD -> Entry]] /\ j \in Process
  BY <1>1 DEF TypeOK, Entry, Process
<1> DEFINE p == Place(j)
           q == Place(j - 1)
<1>3. /\ j \in Nat /\ j > 0 /\ MaxCommands \in Nat /\ MaxCommands > 0
      /\ p \in {3, 5} /\ q \in {3, 5} /\ p # q /\ f[j - 1] \in Pipe \cup {0}
      /\ (j > 1 => f[j - 1] # 0) /\ (j = 1 => f[j - 1] = 0)
      /\ In(f, j) \in Entry /\ Out(f, j) \in Entry /\ Own(f, j) \in Pipe \cup {0}
  BY <1>1, Beside
<1>4. /\ fds[j] = Tab(Keyboard, Out(f, j), p, Own(f, j), q, f[j - 1])
      /\ j > 1 => bckpip[j] = <<q, q + 1>>
  BY <1>1 DEF Layout, ChildTable, ChildArrays, Early, Table, Pair
<1> HIDE DEF p, q
<1>5. 0 \in Pipe \cup {0}
  OBVIOUS
<1>6. /\ fds'[j] = Tab(In(f, j), Out(f, j), p, Own(f, j), q, 0)
      /\ fds' = [fds EXCEPT ![j] = Tab(In(f, j), Out(f, j), p, Own(f, j), q, 0)]
  <2>1. CASE j > 1
    <3>1. close_pipes(Dup2(Close(fds[j], 0), bckpip[j][1], 0), bckpip[j])
            = Tab(R(f[j - 1]), Out(f, j), p, Own(f, j), q, 0)
      BY <1>3, <1>4, <2>1, FromPipe, ClosePipe
    <3> QED BY <1>1, <1>2, <2>1, <3>1 DEF In
  <2>2. CASE ~(j > 1)
    BY <1>1, <1>2, <1>3, <1>4, <2>2 DEF In
  <2> QED BY <2>1, <2>2
<1>7. fds' \in [Process -> [FD -> Entry]]
  BY <1>2, <1>3, <1>5, <1>6, TabType
<1>8. ChildTable(f, j)' /\ ChildArrays(j)'
  <2>1. fds'[j] = Table(In(f, j), Out(f, j), j, Own(f, j), 0)
    BY <1>6 DEF p, q, Table
  <2>2. ChildTable(f, j)'
    BY <1>1, <1>2, <2>1 DEF ChildTable, Early, Late, In, Out, Own, ncmds
  <2>3. ChildArrays(j)'
    BY <1>2 DEF ChildArrays, Early
  <2> QED BY <2>2, <2>3
<1>9. /\ Layout(f)'
      /\ child' \in [Child -> {"none", "born", "stdout", "stdin", "exec", "run", "dead"}]
  <2>1. \A r \in Process : r # j => fds'[r] = fds[r]
    BY <1>2, <1>6
  <2> QED BY <1>1, <1>8, <2>1, Onward
<1>10. TypeOK'
  BY <1>1, <1>7, <1>9 DEF TypeOK, ncmds, Entry
<1> QED BY <1>9, <1>10
\* What the deaths of some children, or of the shell, leave.
LEMMA Deaths ==
  ASSUME TypeOK, NEW f, Layout(f), NEW S \in SUBSET Child, \A p \in S : child[p] # "none",
         Kill(S), pc' = pc, cmds' = cmds, i' = i, pipe' = pipe, tty' = tty, screen' = screen,
         interrupted' \in BOOLEAN
  PROVE  TypeOK' /\ Layout(f)'
<1>1. S \in SUBSET Process /\ Shell \in Process /\ Shell \notin S /\ Child \subseteq Process
  BY Constants DEF Process
<1>2. /\ \A p \in Child : ChildTable(f, p)' /\ ChildArrays(p)'
      /\ child' \in [Child -> {"none", "born", "stdout", "stdin", "exec", "run", "dead"}]
      /\ fds' \in [Process -> [FD -> Entry]]
      /\ bckpip' \in [Process -> Nat \X Nat] /\ fwdpip' \in [Process -> Nat \X Nat]
      /\ toWrite' \in [Child -> Seq(Item)] /\ toCopy' \in [Child -> Nat]
      /\ \A p \in Process : p \notin S => fds'[p] = fds[p] /\ bckpip'[p] = bckpip[p] /\ fwdpip'[p] = fwdpip[p]
      /\ \A p \in Child : child'[p] = IF p \in S THEN "dead" ELSE child[p]
  BY <1>1, Killed
<1>3. \A p \in Child : /\ child'[p] = "none" <=> child[p] = "none"
                       /\ child[p] = "dead" => child'[p] = "dead"
  BY <1>2
<1>4. Layout(f)'
  BY <1>1, <1>2, <1>3, Moves
<1>5. TypeOK'
  BY <1>2 DEF TypeOK, ncmds, Entry
<1> QED BY <1>4, <1>5

LEMMA ExecLayout ==
  ASSUME TypeOK, NEW f, Layout(f), NEW j \in Child, Exec(j)
  PROVE  TypeOK' /\ Layout(f)'
<1>1. /\ child[j] = "exec" /\ pc' = pc /\ cmds' = cmds /\ i' = i /\ pipe' = pipe /\ tty' = tty
      /\ screen' = screen /\ interrupted' = interrupted
  BY DEF Exec
<1>2. CASE cmds[j] = Missing /\ Kill({j})
  <2>1. {j} \in SUBSET Child /\ \A p \in {j} : child[p] # "none"
    BY <1>1
  <2>2. interrupted' \in BOOLEAN
    BY <1>1 DEF TypeOK
  <2> QED BY <1>1, <1>2, <2>1, <2>2, Deaths
<1>3. CASE /\ cmds[j] # Missing
           /\ child' = [child EXCEPT ![j] = "run"]
           /\ toWrite' = [toWrite EXCEPT ![j] = [n \in 1..Makes[cmds[j]] |-> <<j, n>>]]
           /\ toCopy' = [toCopy EXCEPT ![j] = Copies[cmds[j]]]
           /\ bckpip' = [bckpip EXCEPT ![j] = <<0, 0>>]
           /\ fwdpip' = [fwdpip EXCEPT ![j] = <<0, 0>>]
           /\ UNCHANGED fds
  <2>1. child'[j] = "run" /\ j \in Process
    BY <1>3 DEF TypeOK, Process
  <2>2. ChildTable(f, j)' /\ ChildArrays(j)'
    BY <1>1, <1>3, <2>1 DEF Layout, ChildTable, ChildArrays, Early, Late, In, Out, Own, ncmds
  <2>3. \A p \in Process : p # j => fds'[p] = fds[p] /\ fwdpip'[p] = fwdpip[p] /\ bckpip'[p] = bckpip[p]
    BY <1>3 DEF TypeOK
  <2>4. /\ Layout(f)'
        /\ child' \in [Child -> {"none", "born", "stdout", "stdin", "exec", "run", "dead"}]
    BY <1>1, <1>3, <2>2, <2>3, Onward
  <2>5. cmds[j] \in DOMAIN Makes
    BY <1>1, <1>3, Line
  <2>6. Makes[cmds[j]] \in Nat /\ Copies[cmds[j]] \in Nat
    BY <2>5, ProgramsAssumption
  <2>7. [n \in 1..Makes[cmds[j]] |-> <<j, n>>] \in Seq(Item)
    BY <2>1, <2>6 DEF Item
  <2>8. /\ toWrite' \in [Child -> Seq(Item)] /\ toCopy' \in [Child -> Nat]
        /\ bckpip' \in [Process -> Nat \X Nat] /\ fwdpip' \in [Process -> Nat \X Nat]
    BY <1>3, <2>6, <2>7 DEF TypeOK
  <2>9. TypeOK'
    BY <1>1, <1>3, <2>4, <2>8 DEF TypeOK, ncmds
  <2> QED BY <2>4, <2>9
<1> QED BY <1>2, <1>3 DEF Exec

\* What the programs do leaves every table as it is.
LEMMA TablesStay ==
  ASSUME TypeOK, NEW f, Layout(f),
         UNCHANGED <<pc, cmds, i, fds, bckpip, fwdpip, child>>
  PROVE  Layout(f)'
<1>1. ncmds' = ncmds /\ Forked' = Forked
  BY DEF ncmds, Forked
<1>2. \A p \in Child : ChildTable(f, p)' /\ ChildArrays(p)'
  BY Still DEF Layout
<1> QED BY <1>2, Moves

LEMMA WriteLayout ==
  ASSUME TypeOK, NEW f, Layout(f), NEW j \in Child, Write(j)
  PROVE  TypeOK' /\ Layout(f)'
<1>1. Layout(f)'
  BY TablesStay DEF Write
<1>2. toWrite[j] \in Seq(Item) /\ toWrite[j] # << >>
  BY DEF TypeOK, Write
<1>3. Head(toWrite[j]) \in Item /\ Tail(toWrite[j]) \in Seq(Item)
  BY <1>2
<1>4. toWrite' \in [Child -> Seq(Item)]
  BY <1>3 DEF TypeOK, Write
<1>5. /\ screen' \in Seq(Item) /\ pipe' \in [Pipe -> Seq(Item)]
      /\ \A k \in Pipe : Len(pipe'[k]) <= PipeSize
  <2>1. CASE screen' = Append(screen, Head(toWrite[j])) /\ UNCHANGED pipe
    BY <1>3, <2>1 DEF TypeOK
  <2>2. ASSUME NEW k \in Pipe, Len(pipe[k]) < PipeSize, UNCHANGED screen,
               pipe' = [pipe EXCEPT ![k] = Append(@, Head(toWrite[j]))]
        PROVE  /\ screen' \in Seq(Item) /\ pipe' \in [Pipe -> Seq(Item)]
               /\ \A m \in Pipe : Len(pipe'[m]) <= PipeSize
    <3>1. pipe[k] \in Seq(Item) /\ Append(pipe[k], Head(toWrite[j])) \in Seq(Item)
      BY <1>3 DEF TypeOK
    <3>2. Len(Append(pipe[k], Head(toWrite[j]))) <= PipeSize
      BY <1>3, <2>2, <3>1, Constants
    <3> QED BY <2>2, <3>1, <3>2 DEF TypeOK
  <2> QED BY <2>1, <2>2 DEF Write
<1>6. TypeOK'
  BY <1>4, <1>5 DEF TypeOK, Write, ncmds
<1> QED BY <1>1, <1>6

LEMMA ReadLayout ==
  ASSUME TypeOK, NEW f, Layout(f), NEW j \in Child, Read(j)
  PROVE  TypeOK' /\ Layout(f)'
<1>1. Layout(f)'
  BY TablesStay DEF Read
<1>2. toCopy' \in [Child -> Nat]
  <2>1. toCopy' = [toCopy EXCEPT ![j] = toCopy[j] - 1] /\ toCopy[j] > 0
    BY DEF Read
  <2>2. toCopy \in [Child -> Nat]
    BY DEF TypeOK
  <2>3. toCopy[j] - 1 \in Nat
    BY <2>1, <2>2
  <2> QED BY <2>1, <2>2, <2>3
<1>3. /\ tty' \in Seq(Item) /\ toWrite' \in [Child -> Seq(Item)] /\ pipe' \in [Pipe -> Seq(Item)]
      /\ \A k \in Pipe : Len(pipe'[k]) <= PipeSize
  <2>1. CASE /\ tty # << >> /\ tty' = Tail(tty) /\ UNCHANGED pipe
             /\ toWrite' = [toWrite EXCEPT ![j] = <<Head(tty)>>]
    <3>1. Tail(tty) \in Seq(Item) /\ <<Head(tty)>> \in Seq(Item)
      BY <2>1 DEF TypeOK
    <3> QED BY <2>1, <3>1 DEF TypeOK
  <2>2. ASSUME NEW k \in Pipe, pipe[k] # << >>, UNCHANGED tty,
               pipe' = [pipe EXCEPT ![k] = Tail(@)],
               toWrite' = [toWrite EXCEPT ![j] = <<Head(pipe[k])>>]
        PROVE  /\ tty' \in Seq(Item) /\ toWrite' \in [Child -> Seq(Item)] /\ pipe' \in [Pipe -> Seq(Item)]
               /\ \A m \in Pipe : Len(pipe'[m]) <= PipeSize
    <3>1. pipe[k] \in Seq(Item) /\ Len(pipe[k]) <= PipeSize /\ pipe \in [Pipe -> Seq(Item)]
      BY DEF TypeOK
    <3>2. Tail(pipe[k]) \in Seq(Item) /\ <<Head(pipe[k])>> \in Seq(Item) /\ Len(Tail(pipe[k])) <= PipeSize
      BY <2>2, <3>1, Constants
    <3> QED BY <2>2, <3>1, <3>2 DEF TypeOK
  <2> QED BY <2>1, <2>2 DEF Read
<1>4. TypeOK'
  BY <1>2, <1>3 DEF TypeOK, Read, ncmds
<1> QED BY <1>1, <1>4

LEMMA ExitLayout ==
  ASSUME TypeOK, NEW f, Layout(f), NEW j \in Child, Exit(j)
  PROVE  TypeOK' /\ Layout(f)'
<1>1. {j} \in SUBSET Child /\ \A p \in {j} : child[p] # "none"
  BY DEF Exit
<1>2. interrupted' \in BOOLEAN
  BY DEF TypeOK, Exit
<1> QED BY <1>1, <1>2, Deaths DEF Exit

LEMMA InterruptLayout ==
  ASSUME TypeOK, NEW f, Layout(f), Interrupt
  PROVE  TypeOK' /\ Layout(f)'
<1> DEFINE S == {j \in Live : child[j] # "born"}
<1>1. S \in SUBSET Child /\ (\A p \in S : child[p] # "none") /\ Kill(S)
  BY DEF Live, Interrupt
<1> HIDE DEF S
<1> QED BY <1>1, Deaths DEF Interrupt

LEMMA AbortLayout ==
  ASSUME TypeOK, NEW f, Layout(f), Abort
  PROVE  TypeOK' /\ Layout(f)'
<1>1. /\ pc = "fork" /\ i < ncmds /\ pc' = "aborted" /\ Kill({Shell})
      /\ cmds' = cmds /\ i' = i /\ pipe' = pipe /\ tty' = tty /\ screen' = screen
      /\ interrupted' = interrupted
  BY DEF Abort
<1>2. {Shell} \in SUBSET Process
  BY DEF Process
<1>3. /\ \A p \in Child : ChildTable(f, p)' /\ ChildArrays(p)'
      /\ child' \in [Child -> {"none", "born", "stdout", "stdin", "exec", "run", "dead"}]
      /\ fds' \in [Process -> [FD -> Entry]]
      /\ bckpip' \in [Process -> Nat \X Nat] /\ fwdpip' \in [Process -> Nat \X Nat]
      /\ toWrite' \in [Child -> Seq(Item)] /\ toCopy' \in [Child -> Nat]
      /\ \A p \in Child : child'[p] = IF p \in {Shell} THEN "dead" ELSE child[p]
  BY <1>1, <1>2, Killed
<1>4. \A p \in Child : child'[p] = child[p]
  BY <1>3, Constants
<1>5. fds'[Shell] = NoneOpen
  BY <1>1, <1>2 DEF Kill
<1>6. ncmds' = ncmds /\ Forked' = Forked
  BY <1>1 DEF ncmds, Forked
<1>7. ShellTable(f)' /\ ShellArrays'
  BY <1>1, <1>5 DEF ShellTable, ShellArrays
<1>8. Stages'
  BY <1>1, <1>4, <1>6 DEF Layout, Stages
<1>9. Distinct(f)'
  <2>1. \A p \in Process : Uses(p)' \subseteq Uses(p)
    BY <1>1, <1>4 DEF Uses, Process
  <2> QED BY <2>1 DEF Layout, Distinct
<1>10. Layout(f)'
  BY <1>3, <1>7, <1>8, <1>9 DEF Layout, Numbering
<1>11. TypeOK'
  BY <1>1, <1>3 DEF TypeOK, ncmds, Entry
<1> QED BY <1>10, <1>11

LEMMA EofLayout ==
  ASSUME TypeOK, NEW f, Layout(f), Eof
  PROVE  TypeOK' /\ Layout(f)'
<1>1. /\ pc = "prompt" /\ pc' = "exit"
      /\ UNCHANGED <<cmds, i, fds, bckpip, fwdpip, child, toWrite, toCopy, pipe, tty, screen, interrupted>>
  BY DEF Eof, prog
<1>2. ncmds' = ncmds /\ Forked' = Forked
  BY <1>1 DEF ncmds, Forked
<1>3. \A p \in Child : ChildTable(f, p)' /\ ChildArrays(p)'
  BY <1>1, Still DEF Layout
<1>4. ShellTable(f)' /\ ShellArrays' /\ Stages'
  BY <1>1, <1>2 DEF Layout, ShellTable, ShellArrays, Stages
<1>5. Distinct(f)'
  BY <1>1 DEF Layout, Distinct, Uses
<1>6. Layout(f)'
  BY <1>3, <1>4, <1>5 DEF Layout, Numbering
<1>7. TypeOK'
  BY <1>1 DEF TypeOK, ncmds
<1> QED BY <1>6, <1>7

LEMMA StutterLayout ==
  ASSUME TypeOK, NEW f, Layout(f), UNCHANGED vars
  PROVE  TypeOK' /\ Layout(f)'
<1>1. Layout(f)'
  BY TablesStay DEF vars
<1>2. TypeOK'
  BY DEF TypeOK, vars, ncmds
<1> QED BY <1>1, <1>2

\* A table without pipes is the one a shell is started with.
LEMMA Bare ==
  ASSUME NEW in, NEW out, NEW a, NEW p, NEW q, NEW r
  PROVE  /\ Tab(Keyboard, Screen, p, 0, q, 0) = Terminal
         /\ Tab(in, out, p, a, q, 0) = Tab(in, out, p, a, r, 0)
<1>1. FD \subseteq Nat
  BY Constants DEF FD
<1>2. \A n \in FD : (IF n = 0 THEN Keyboard ELSE IF n = 1 THEN Screen ELSE IF n = 2 THEN Screen ELSE Closed)
                    = IF n = 0 THEN Keyboard ELSE IF n <= 2 THEN Screen ELSE Closed
  BY <1>1
<1>3. Tab(Keyboard, Screen, p, 0, q, 0)
        = [n \in FD |-> IF n = 0 THEN Keyboard ELSE IF n = 1 THEN Screen ELSE IF n = 2 THEN Screen ELSE Closed]
  BY DEF Tab
<1>4. Tab(Keyboard, Screen, p, 0, q, 0) = Terminal
  BY <1>2, <1>3 DEF Terminal
<1>5. Tab(in, out, p, a, q, 0) = Tab(in, out, p, a, r, 0)
  BY DEF Tab
<1> QED BY <1>4, <1>5

\* A process that uses a pipe holds one of its ends, and no end of another.
LEMMA UsesHeld ==
  ASSUME TypeOK, NEW f, Layout(f), NEW p \in Process
  PROVE  /\ \A m \in Uses(p) : m # 0 => f[m] \in Pipe /\ (R(f[m]) \in Held(p) \/ W(f[m]) \in Held(p))
         /\ \A k \in Pipe : R(k) \in Held(p) \/ W(k) \in Held(p) => \E m \in Uses(p) : m # 0 /\ f[m] = k
         /\ Uses(p) \subseteq 0..Forked
<1>1. /\ ncmds \in Nat /\ ncmds <= MaxCommands /\ i \in Nat /\ i <= ncmds /\ Forked \in 0..ncmds
      /\ MaxCommands \in Nat /\ \A j \in Child : j \in Nat /\ j > 0
  BY Line, Constants
<1>2. f[0] = 0 /\ 0 \notin Pipe /\ \A m \in Child : f[m] \in Pipe
  BY Constants DEF Layout, Numbering
<1>3. \A m \in 1..MaxCommands : m \in Child
  BY DEF Child
<1>4. CASE p = Shell
  <2>1. CASE pc = "fork"
    <3>1. Uses(p) = {i} /\ Uses(p) \subseteq 0..Forked
      BY <1>1, <1>4, <2>1 DEF Uses, Forked
    <3>2. fds[p] = Tab(Keyboard, Screen, Place(i), f[i], Place(i + 1), 0)
      BY <1>4, <2>1, Bare DEF Layout, ShellTable, Table
    <3>3. Place(i) \in {3, 5} /\ Place(i + 1) \in {3, 5} /\ Place(i) # Place(i + 1) /\ MaxCommands > 0
      BY <1>1, <2>1, Places DEF Layout, Stages
    <3>4. i # 0 => f[i] \in Pipe
      BY <1>1, <1>2, <1>3
    <3>5. i # 0 => R(f[i]) \in Held(p)
      BY <1>1, <1>2, <3>2, <3>3, <3>4, Entries DEF Held
    <3>6. \A e \in Held(p) : e \in {Keyboard, Screen, Closed} \/ (f[i] # 0 /\ e \in {R(f[i]), W(f[i])})
      BY <1>1, <3>2, <3>3, Entries DEF Held
    <3>7. \A k \in Pipe : R(k) \in Held(p) \/ W(k) \in Held(p) => f[i] = k /\ i # 0
      BY <1>2, <3>6, EndsDiffer
    <3> QED BY <3>1, <3>4, <3>5, <3>7
  <2>2. CASE pc = "parent"
    <3>1. Uses(p) = {i, i + 1} /\ Uses(p) \subseteq 0..Forked /\ i < ncmds
      BY <1>1, <1>4, <2>2 DEF Uses, Forked, Layout, Stages
    <3>2. fds[p] = Tab(Keyboard, Screen, Place(i + 1), f[i + 1], Place(i), f[i])
      BY <1>1, <1>4, <2>2, Places DEF Layout, ShellTable, Table
    <3>3. Place(i) \in {3, 5} /\ Place(i + 1) \in {3, 5} /\ Place(i) # Place(i + 1) /\ MaxCommands > 0
      BY <1>1, <2>2, Places DEF Layout, Stages
    <3>4. (i # 0 => f[i] \in Pipe) /\ f[i + 1] \in Pipe
      BY <1>1, <1>2, <1>3, <3>1
    <3>5. (i # 0 => R(f[i]) \in Held(p)) /\ R(f[i + 1]) \in Held(p)
      BY <1>1, <1>2, <3>2, <3>3, <3>4, Entries DEF Held
    <3>6. \A e \in Held(p) : \/ e \in {Keyboard, Screen, Closed} \/ (f[i] # 0 /\ e \in {R(f[i]), W(f[i])})
                             \/ e \in {R(f[i + 1]), W(f[i + 1])}
      BY <1>1, <3>2, <3>3, Entries DEF Held
    <3>7. \A k \in Pipe : R(k) \in Held(p) \/ W(k) \in Held(p) => (f[i] = k /\ i # 0) \/ f[i + 1] = k
      BY <1>2, <3>6, EndsDiffer
    <3>8. i + 1 # 0
      BY <1>1
    <3> QED BY <3>1, <3>4, <3>5, <3>7, <3>8
  <2>3. CASE pc \notin {"fork", "parent"}
    <3>1. Uses(p) = {}
      BY <1>4, <2>3 DEF Uses
    <3>2. \A e \in Held(p) : e \in {Keyboard, Screen, Closed}
      BY <1>4, <2>3 DEF Held, Layout, ShellTable, Terminal, NoneOpen
    <3> QED BY <3>1, <3>2, EndsDiffer
  <2> QED BY <2>1, <2>2, <2>3
<1>5. CASE p # Shell /\ child[p] \in {"none", "dead"}
  <2>1. Uses(p) = {} /\ p \in Child
    BY <1>5 DEF Uses, Process
  <2>2. \A e \in Held(p) : e = Closed
    BY <1>5, <2>1 DEF Held, Layout, ChildTable, Early, Late, NoneOpen
  <2> QED BY <2>1, <2>2, EndsDiffer
<1>6. CASE p # Shell /\ child[p] \notin {"none", "dead"}
  <2>1. p \in Child /\ Uses(p) = {p - 1, p} /\ p <= Forked
    BY <1>6 DEF Uses, Process, Layout, Stages
  <2>2. /\ p \in 1..ncmds /\ p \in Nat /\ p > 0 /\ p - 1 \in Nat
        /\ Place(p) \in {3, 5} /\ Place(p - 1) \in {3, 5} /\ Place(p) # Place(p - 1)
        /\ f[p] \in Pipe /\ (p > 1 => f[p - 1] \in Pipe) /\ (p = 1 => f[p - 1] = 0)
        /\ MaxCommands > 0
    BY <1>6, <2>1, Beside
  <2>3. (p - 1 # 0 => p > 1) /\ p # 0 /\ (p > 1 => p - 1 # 0) /\ (~(p > 1) => p = 1)
    BY <2>2
  <2> DEFINE x == Place(p)
             y == Place(p - 1)
             Good(in, out, a, b) ==
               /\ fds[p] = Tab(in, out, x, a, y, b)
               /\ in \in {Keyboard} \/ (p > 1 /\ in = R(f[p - 1]))
               /\ out \in {Screen, W(f[p])}
               /\ a \in {0, f[p]} /\ b \in {0, f[p - 1]}
               /\ out = W(f[p]) \/ a = f[p]
               /\ (p > 1 /\ in = R(f[p - 1])) \/ b = f[p - 1]
  <2>4. \E in, out, a, b : Good(in, out, a, b)
    <3>1. ChildTable(f, p)
      BY <2>1 DEF Layout
    <3>2. CASE Early(p)
      <4>1. Good(Keyboard, Screen, f[p], f[p - 1])
        BY <3>1, <3>2 DEF ChildTable, Table
      <4> QED BY <4>1
    <3>3. CASE child[p] = "stdin"
      <4>1. Good(Keyboard, Out(f, p), Own(f, p), f[p - 1])
        BY <3>1, <3>3 DEF ChildTable, Table, Early, Out, Own
      <4> QED BY <4>1
    <3>4. CASE Late(p)
      <4>1. Good(In(f, p), Out(f, p), Own(f, p), 0)
        BY <2>2, <2>3, <3>1, <3>4 DEF ChildTable, Table, Early, Late, In, Out, Own
      <4> QED BY <4>1
    <3> QED BY <1>6, <2>1, <3>2, <3>3, <3>4 DEF TypeOK, Early, Late
  <2> HIDE DEF x, y
  <2>5. PICK in, out, a, b : Good(in, out, a, b)
    BY <2>4
  <2>6. x \in {3, 5} /\ y \in {3, 5} /\ x # y
    BY <2>2 DEF x, y
  <2>7. \A e \in Held(p) : \/ e \in {in, out, Screen, Closed} \/ (a # 0 /\ e \in {R(a), W(a)})
                           \/ (b # 0 /\ e \in {R(b), W(b)})
    BY <1>1, <2>2, <2>5, <2>6, Entries DEF Held
  <2>8. \A k \in Pipe : R(k) \in Held(p) \/ W(k) \in Held(p) => f[p] = k \/ (p > 1 /\ f[p - 1] = k)
    BY <2>2, <2>3, <2>5, <2>7, EndsDiffer
  <2>9. R(f[p]) \in Held(p) \/ W(f[p]) \in Held(p)
    BY <1>1, <1>2, <2>2, <2>5, <2>6, Entries DEF Held
  <2>10. p > 1 => R(f[p - 1]) \in Held(p) \/ W(f[p - 1]) \in Held(p)
    BY <1>1, <1>2, <2>2, <2>5, <2>6, Entries DEF Held
  <2>11. Uses(p) \subseteq 0..Forked
    BY <1>1, <2>1, <2>2
  <2> QED BY <2>1, <2>2, <2>3, <2>8, <2>9, <2>10, <2>11
<1> QED BY <1>4, <1>5, <1>6

LEMMA ReadLineLayout ==
  ASSUME TypeOK, NEW f, Layout(f), ReadLine
  PROVE  TypeOK' /\ Layout(f)'
<1>1. /\ pc = "prompt" /\ cmds' \in Lines /\ pc' = "fork" /\ i' = 0
      /\ tty' = Typed /\ screen' = << >> /\ interrupted' = FALSE
      /\ UNCHANGED <<fds, bckpip, fwdpip, child, toWrite, toCopy, pipe>>
  BY DEF ReadLine
<1>2. ncmds' \in Nat /\ ncmds' > 0 /\ ncmds' <= MaxCommands
  BY <1>1, Constants DEF ncmds
<1>3. Typed \in Seq(Item)
  <2>1. {0} \X Nat \subseteq Item
    BY DEF Item, Process, Shell
  <2> QED BY <2>1, TypedAssumption
<1>4. \A j \in Child : child[j] = "none" /\ child'[j] = "none"
  BY <1>1 DEF Layout, Stages
<1>5. Numbering(f) /\ f[0] = 0
  BY DEF Layout, Numbering
<1>6. ShellTable(f)' /\ ShellArrays'
  <2>1. fds'[Shell] = Terminal
    BY <1>1 DEF Layout, ShellTable
  <2> QED BY <1>1, <1>5, <2>1, Bare DEF ShellTable, ShellArrays, Table
<1>7. Stages'
  BY <1>1, <1>2, <1>4 DEF Stages, Forked
<1>8. Distinct(f)'
  BY <1>1, <1>4 DEF Distinct, Uses, Process
<1>9. \A j \in Child : ChildTable(f, j)' /\ ChildArrays(j)'
  BY <1>1, <1>4 DEF Layout, ChildTable, ChildArrays, Early, Late
<1>10. Layout(f)'
  BY <1>5, <1>6, <1>7, <1>8, <1>9 DEF Layout, Numbering
<1>11. i' \in 0..ncmds'
  BY <1>1, <1>2
<1>12. TypeOK'
  <2>1. cmds' \in Lines \cup {<< >>} /\ interrupted' \in BOOLEAN
    BY <1>1
  <2>2. tty' \in Seq(Item) /\ screen' \in Seq(Item)
    BY <1>1, <1>3
  <2>3. pc' \in {"prompt", "fork", "parent", "wait", "exit", "aborted"}
    BY <1>1
  <2> QED BY <1>1, <1>11, <2>1, <2>2, <2>3 DEF TypeOK
<1> QED BY <1>10, <1>12

\* While the line is being forked some pipe is free: there is one more than
\* the line can need.
LEMMA SomeUnused ==
  ASSUME TypeOK, NEW f, Layout(f), pc = "fork"
  PROVE  (CHOOSE k \in Unused : TRUE) \in Unused
<1>1. /\ ncmds \in Nat /\ ncmds <= MaxCommands /\ i \in Nat /\ i <= ncmds /\ MaxCommands \in Nat
      /\ Forked = i
  BY Line DEF Forked
<1> DEFINE F == {f[m] : m \in 1..i}
<1>2. IsFiniteSet(F) /\ Cardinality(F) <= i
  <2>1. IsFiniteSet(1..i) /\ Cardinality(1..i) = i
    BY <1>1, FS_Interval
  <2> DEFINE h == [m \in 1..i |-> f[m]]
  <2>2. h \in Surjection(1..i, F)
    BY DEF Surjection
  <2> HIDE DEF h, F
  <2> QED BY <2>1, <2>2, FS_Surjection
<1>3. IsFiniteSet(Pipe) /\ Cardinality(Pipe) = 2 * MaxCommands + 1
  BY <1>1, FS_Interval DEF Pipe
<1>4. Pipe \ F \subseteq Unused
  <2>1. ASSUME NEW k \in Pipe, k \notin F, NEW p \in Process, R(k) \in Held(p) \/ W(k) \in Held(p)
        PROVE  FALSE
    <3>1. PICK m \in Uses(p) : m # 0 /\ f[m] = k
      BY <2>1, UsesHeld
    <3>2. m \in 0..i
      BY <1>1, UsesHeld
    <3> QED BY <1>1, <2>1, <3>1, <3>2
  <2> QED BY <2>1 DEF Unused
<1>5. Unused # {}
  <2>1. SUFFICES ASSUME Unused = {} PROVE FALSE
    OBVIOUS
  <2>2. Pipe \subseteq F
    BY <1>4, <2>1
  <2>3. Cardinality(Pipe) <= Cardinality(F)
    BY <1>2, <2>2, FS_Subset
  <2>4. Cardinality(F) \in Nat
    BY <1>2, FS_CardinalityType
  <2> QED BY <1>1, <1>2, <1>3, <2>3, <2>4
<1> QED BY <1>5

\* The shell and its new child hold the pipe that was free, and nobody else.
LEMMA ForkLayout ==
  ASSUME TypeOK, NEW f, Layout(f), Fork
  PROVE  /\ TypeOK'
         /\ \E g : /\ Layout(g)' /\ g[i + 1] \in Unused /\ pipe' = [pipe EXCEPT ![g[i + 1]] = << >>]
                  /\ \A m \in 0..MaxCommands : m # i + 1 => g[m] = f[m]
<1> DEFINE k == CHOOSE k \in Unused : TRUE
           p == Place(i + 1)
           q == Place(i)
           t == Tab(Keyboard, Screen, p, k, q, f[i])
<1>1. /\ ncmds \in Nat /\ ncmds <= MaxCommands /\ i \in Nat /\ i < ncmds /\ MaxCommands \in Nat
      /\ MaxCommands > 0 /\ pc = "fork" /\ Forked = i
  BY Line DEF Fork, Forked
<1>2. i + 1 \in Child /\ i + 1 \in Process /\ i + 1 # Shell /\ i + 1 # 0 /\ Shell \in Process /\ Child \subseteq Process
  BY <1>1 DEF Child, Process, Shell
<1>3. k \in Unused /\ k \in Pipe /\ k # 0
  BY <1>1, SomeUnused, Constants DEF Unused
<1>4. p \in {3, 5} /\ q \in {3, 5} /\ p # q /\ (i = 0 => p = 3)
  BY <1>1, Places
<1>5. Numbering(f) /\ f[0] = 0 /\ (i > 0 => f[i] \in Pipe /\ f[i] # 0) /\ f[i] \in Pipe \cup {0}
  BY <1>1, Constants DEF Layout, Numbering, Child
<1>6. PICK g : Numbering(g) /\ g[i + 1] = k /\ \A m \in 0..MaxCommands : m # i + 1 => g[m] = f[m]
  <2> DEFINE h == [f EXCEPT ![i + 1] = k]
  <2>2. Numbering(h) /\ h[i + 1] = k /\ \A m \in 0..MaxCommands : m # i + 1 => h[m] = f[m]
    <3>1. k \in Nat /\ i + 1 \in 0..MaxCommands
      BY <1>1, <1>3 DEF Pipe
    <3> HIDE DEF k
    <3> QED BY <1>2, <1>3, <1>5, <3>1 DEF Numbering, Child
  <2> QED BY <2>2
<1>7. fds[Shell] = Tab(Keyboard, Screen, p, 0, q, f[i])
  <2>1. fds[Shell] = Tab(Keyboard, Screen, q, f[i], p, 0)
    BY <1>1, Bare DEF Layout, ShellTable, Table
  <2> QED BY <1>1, <1>4, <2>1, ClosePipe
<1> HIDE DEF k, p, q
<1>8. Lowest(fds[Shell]) = p /\ Lowest(Put(fds[Shell], p, R(k))) = p + 1
      /\ Put(Put(fds[Shell], p, R(k)), p + 1, W(k)) = t
  <2>1. p = 3 \/ f[i] # 0
    BY <1>1, <1>4, <1>5
  <2> QED BY <1>1, <1>3, <1>4, <1>7, <2>1, NewPipe, EndsDiffer
<1> HIDE DEF t
<1>9. /\ fds' = [fds EXCEPT ![Shell] = t, ![i + 1] = t]
      /\ fwdpip' = [fwdpip EXCEPT ![Shell] = <<p, p + 1>>, ![i + 1] = <<p, p + 1>>]
      /\ bckpip' = [bckpip EXCEPT ![i + 1] = bckpip[Shell]]
      /\ pipe' = [pipe EXCEPT ![k] = << >>]
      /\ child' = [child EXCEPT ![i + 1] = "born"]
      /\ pc' = "parent" /\ cmds' = cmds /\ i' = i /\ toWrite' = toWrite /\ toCopy' = toCopy
      /\ tty' = tty /\ screen' = screen /\ interrupted' = interrupted /\ ncmds' = ncmds
  BY <1>8 DEF Fork, k, ncmds
<1>10. /\ fds \in [Process -> [FD -> Entry]] /\ t \in [FD -> Entry]
       /\ fwdpip \in [Process -> Nat \X Nat] /\ bckpip \in [Process -> Nat \X Nat]
       /\ child \in [Child -> {"none", "born", "stdout", "stdin", "exec", "run", "dead"}]
       /\ pipe \in [Pipe -> Seq(Item)] /\ \A l \in Pipe : Len(pipe[l]) <= PipeSize
  <2>1. Keyboard \in Entry /\ Screen \in Entry
    BY DEF Entry
  <2>2. t \in [FD -> Entry]
    BY <1>3, <1>5, <2>1, TabType DEF t
  <2> QED BY <2>2 DEF TypeOK, Entry
<1>11. /\ fds'[Shell] = t /\ fds'[i + 1] = t /\ \A r \in Process : r # Shell /\ r # i + 1 => fds'[r] = fds[r]
       /\ fwdpip'[Shell] = <<p, p + 1>> /\ fwdpip'[i + 1] = <<p, p + 1>>
       /\ \A r \in Process : r # Shell /\ r # i + 1 => fwdpip'[r] = fwdpip[r]
       /\ bckpip'[i + 1] = bckpip[Shell] /\ \A r \in Process : r # i + 1 => bckpip'[r] = bckpip[r]
       /\ child'[i + 1] = "born" /\ \A r \in Child : r # i + 1 => child'[r] = child[r]
  BY <1>2, <1>9, <1>10
<1>12. Table(Keyboard, Screen, i + 1, g[i + 1], g[i]) = t
  <2>1. (i + 1) - 1 = i /\ g[i] = f[i]
    BY <1>1, <1>6
  <2> QED BY <1>6, <2>1 DEF Table, t, p, q
<1>13. ShellTable(g)' /\ ShellArrays'
  <2>1. i > 0 => bckpip[Shell] = Pair(i)
    BY <1>1 DEF Layout, ShellArrays
  <2> QED BY <1>2, <1>9, <1>11, <1>12, <2>1 DEF ShellTable, ShellArrays, Pair, p
<1>14. ASSUME NEW j \in Child PROVE ChildTable(g, j)' /\ ChildArrays(j)'
  <2>1. CASE j = i + 1
    <3>1. j - 1 = i /\ (j > 1 => i > 0)
      BY <1>1, <2>1
    <3>2. ChildTable(g, j)'
      BY <1>11, <1>12, <2>1, <3>1 DEF ChildTable, Early
    <3>3. ChildArrays(j)'
      BY <1>1, <1>11, <2>1, <3>1 DEF Layout, ShellArrays, ChildArrays, Pair, p
    <3> QED BY <3>2, <3>3
  <2>2. CASE j # i + 1
    <3>1. ChildTable(f, j) /\ ChildArrays(j)
      BY DEF Layout
    <3>2. child[j] # "none" => g[j] = f[j] /\ g[j - 1] = f[j - 1]
      <4>1. child[j] # "none" => j \in 1..i
        BY <1>1, Constants DEF Layout, Stages
      <4> QED BY <1>1, <1>6, <4>1
    <3>3. j # Shell /\ j \in Process
      BY Constants DEF Process
    <3>4. fds'[j] = fds[j] /\ child'[j] = child[j] /\ fwdpip'[j] = fwdpip[j] /\ bckpip'[j] = bckpip[j]
      BY <1>11, <2>2, <3>3
    <3>5. ChildArrays(j)'
      BY <3>1, <3>4 DEF ChildArrays, Early
    <3>6. ChildTable(g, j)'
      BY <1>9, <3>1, <3>2, <3>4 DEF ChildTable, Early, Late, In, Out, Own
    <3> QED BY <3>5, <3>6
  <2> QED BY <2>1, <2>2
<1>15. Stages'
  <2>1. Forked' = i + 1
    BY <1>9 DEF Forked
  <2>2. \A j \in Child : child'[j] # "none" => j <= i + 1
    <3> SUFFICES ASSUME NEW j \in Child, j # i + 1, child'[j] # "none"
                 PROVE  j <= i + 1
      BY Constants DEF Child
    <3>1. child[j] # "none"
      BY <1>11, Constants DEF Process, Shell, Child
    <3>2. j <= i
      BY <1>1, <3>1 DEF Layout, Stages
    <3> QED BY <1>1, <3>2, Constants DEF Child
  <2>3. \A j \in 1..(i + 1) : child'[j] # "none"
    BY <1>1, <1>11 DEF Layout, Stages, Child
  <2> QED BY <1>1, <1>9, <2>1, <2>2, <2>3 DEF Stages
<1>16. Distinct(g)'
  <2>1. Uses(Shell)' = {i, i + 1} /\ Uses(Shell) = {i}
    BY <1>1, <1>9 DEF Uses
  <2>2. ASSUME NEW r \in Process PROVE \A m \in Uses(r)' : m = i + 1 \/ m = i \/ m \in Uses(r)
    <3>1. CASE r = Shell
      BY <2>1, <3>1
    <3>2. CASE r = i + 1
      BY <1>1, <1>2, <1>9, <3>2 DEF Uses
    <3>3. CASE r # Shell /\ r # i + 1
      BY <1>11, <3>3 DEF Uses, Process
    <3> QED BY <3>1, <3>2, <3>3
  <2>3. ASSUME NEW r \in Process, NEW m \in Uses(r), m # 0
        PROVE  m # i + 1 /\ g[m] = f[m] /\ f[m] # k
    <3>1. m \in 0..i
      BY <1>1, UsesHeld
    <3>2. R(f[m]) \in Held(r) \/ W(f[m]) \in Held(r)
      BY <2>3, UsesHeld
    <3> QED BY <1>1, <1>3, <1>6, <3>1, <3>2 DEF Unused
  <2>4. \A r \in Process : \A m \in Uses(r)' : m = i + 1 \/ \E s \in Process : m \in Uses(s)
    BY <1>2, <2>1, <2>2
  <2>5. ASSUME NEW r \in Process, NEW s \in Process, NEW m \in Uses(r)', NEW n \in Uses(s)', m # 0, n # 0, g[m] = g[n]
        PROVE  m = n
    <3>1. CASE m = i + 1
      BY <1>6, <2>3, <2>4, <2>5, <3>1
    <3>2. CASE n = i + 1
      BY <1>6, <2>3, <2>4, <2>5, <3>2
    <3>3. CASE m # i + 1 /\ n # i + 1
      <4>1. PICK r1 \in Process : m \in Uses(r1)
        BY <2>4, <3>3
      <4>2. PICK s1 \in Process : n \in Uses(s1)
        BY <2>4, <3>3
      <4> QED BY <2>3, <2>5, <4>1, <4>2 DEF Layout, Distinct
    <3> QED BY <3>1, <3>2, <3>3
  <2> QED BY <2>5 DEF Distinct
<1>17. Layout(g)'
  <2>1. Numbering(g)'
    BY <1>6 DEF Numbering
  <2> QED BY <1>13, <1>14, <1>15, <1>16, <2>1 DEF Layout
<1>18. TypeOK'
  <2>1. fds' \in [Process -> [FD -> Entry]]
    <3> HIDE DEF Entry
    <3> QED BY <1>9, <1>10
  <2>2. fwdpip' \in [Process -> Nat \X Nat] /\ bckpip' \in [Process -> Nat \X Nat]
    <3>1. p \in Nat /\ p + 1 \in Nat
      BY <1>4
    <3> QED BY <1>2, <1>9, <1>10, <3>1
  <2>3. child' \in [Child -> {"none", "born", "stdout", "stdin", "exec", "run", "dead"}]
    BY <1>9, <1>10
  <2>4. pipe' \in [Pipe -> Seq(Item)] /\ \A l \in Pipe : Len(pipe'[l]) <= PipeSize
    <3>1. Len(<< >>) <= PipeSize /\ << >> \in Seq(Item)
      BY Constants
    <3> QED BY <1>9, <1>10, <3>1
  <2> QED BY <1>9, <2>1, <2>2, <2>3, <2>4 DEF TypeOK, Entry
<1> QED BY <1>3, <1>6, <1>9, <1>17, <1>18

LEMMA ParentLayout ==
  ASSUME TypeOK, NEW f, Layout(f), Parent
  PROVE  TypeOK' /\ Layout(f)'
<1> DEFINE p == Place(i + 1)
           q == Place(i)
           t == Tab(Keyboard, Screen, p, f[i + 1], q, 0)
<1>1. /\ pc = "parent" /\ i' = i + 1 /\ pc' = "fork" /\ cmds' = cmds /\ fwdpip' = fwdpip /\ child' = child
      /\ bckpip' = [bckpip EXCEPT ![Shell] = fwdpip[Shell]]
      /\ UNCHANGED <<toWrite, toCopy, pipe, tty, screen, interrupted>> /\ ncmds' = ncmds
  BY DEF Parent, prog, ncmds
<1>2. /\ ncmds \in Nat /\ ncmds <= MaxCommands /\ i \in Nat /\ i < ncmds /\ MaxCommands \in Nat
      /\ MaxCommands > 0 /\ Forked = i + 1
  BY <1>1, Line DEF Layout, Stages, Forked
<1>3. p \in {3, 5} /\ q \in {3, 5} /\ p # q /\ (i + 1) - 1 = i
  BY <1>2, Places
<1>4. f[0] = 0 /\ f[i + 1] \in Pipe /\ Numbering(f)
  BY <1>2 DEF Layout, Numbering, Child
<1>5. fds[Shell] = Tab(Keyboard, Screen, p, f[i + 1], q, f[i]) /\ Shell \in Process
  BY <1>1, <1>3 DEF Layout, ShellTable, Table, Process
<1>6. fwdpip[Shell] = <<p, p + 1>> /\ (i > 0 => bckpip[Shell] = <<q, q + 1>>)
  BY <1>1 DEF Layout, ShellArrays, Pair
<1> HIDE DEF p, q
<1>7. fds \in [Process -> [FD -> Entry]] /\ t \in [FD -> Entry]
  <2>1. Keyboard \in Entry /\ Screen \in Entry /\ f[i + 1] \in Pipe \cup {0} /\ 0 \in Pipe \cup {0}
    BY <1>4 DEF Entry
  <2>2. t \in [FD -> Entry]
    BY <2>1, TabType
  <2> QED BY <2>2 DEF TypeOK, Entry
<1>8. fds' = [fds EXCEPT ![Shell] = t]
  <2>1. CASE i > 0
    <3>1. close_pipes(fds[Shell], bckpip[Shell]) = t
      BY <1>2, <1>3, <1>5, <1>6, <2>1, ClosePipe
    <3> QED BY <2>1, <3>1 DEF Parent
  <2>2. CASE ~(i > 0)
    <3>1. f[i] = 0 /\ fds' = fds
      BY <1>2, <1>4, <2>2 DEF Parent
    <3> HIDE DEF Entry
    <3> QED BY <1>5, <1>7, <3>1
  <2> QED BY <2>1, <2>2
<1> HIDE DEF t
<1>9. /\ fds'[Shell] = t /\ \A j \in Child : fds'[j] = fds[j] /\ bckpip'[j] = bckpip[j]
      /\ bckpip'[Shell] = <<p, p + 1>> /\ fds' \in [Process -> [FD -> Entry]]
      /\ bckpip' \in [Process -> Nat \X Nat]
  <2>1. bckpip \in [Process -> Nat \X Nat] /\ fwdpip[Shell] \in Nat \X Nat /\ Child \subseteq Process /\ Shell \notin Child
    BY <1>5, Constants DEF TypeOK, Process
  <2> HIDE DEF Entry
  <2> QED BY <1>1, <1>5, <1>6, <1>7, <1>8, <2>1
<1>10. ShellTable(f)' /\ ShellArrays'
  <2>1. t = Table(Keyboard, Screen, i + 1, f[i + 1], 0)
    BY <1>3 DEF t, p, q, Table
  <2> QED BY <1>1, <1>6, <1>9, <2>1 DEF ShellTable, ShellArrays, Pair, p
<1>11. \A j \in Child : ChildTable(f, j)' /\ ChildArrays(j)'
  BY <1>1, <1>9, Still DEF Layout
<1>12. Stages'
  <2>1. Forked' = Forked
    BY <1>1, <1>2 DEF Forked
  <2> QED BY <1>1, <1>2, <2>1 DEF Layout, Stages
<1>13. Distinct(f)'
  <2>1. \A r \in Process : Uses(r)' \subseteq Uses(r)
    BY <1>1 DEF Uses
  <2> QED BY <2>1 DEF Layout, Distinct
<1>14. Layout(f)'
  <2>1. Numbering(f)'
    BY <1>4 DEF Numbering
  <2> QED BY <1>10, <1>11, <1>12, <1>13, <2>1 DEF Layout
<1>15. TypeOK'
  <2>1. i' \in 0..ncmds'
    BY <1>1, <1>2
  <2> QED BY <1>1, <1>9, <2>1 DEF TypeOK, Entry
<1> QED BY <1>14, <1>15

LEMMA ForkDoneLayout ==
  ASSUME TypeOK, NEW f, Layout(f), ForkDone
  PROVE  TypeOK' /\ Layout(f)'
<1> DEFINE p == Place(i)
           q == Place(i + 1)
<1>1. /\ pc = "fork" /\ i = ncmds /\ i' = 0 /\ pc' = "wait" /\ cmds' = cmds /\ fwdpip' = fwdpip
      /\ bckpip' = bckpip /\ child' = child
      /\ fds' = [fds EXCEPT ![Shell] = close_pipes(@, fwdpip[Shell])]
      /\ UNCHANGED <<toWrite, toCopy, pipe, tty, screen, interrupted>> /\ ncmds' = ncmds
  BY DEF ForkDone, prog, ncmds
<1>2. ncmds \in Nat /\ ncmds > 0 /\ MaxCommands \in Nat /\ MaxCommands > 0 /\ Forked = ncmds
  BY <1>1, Line DEF Layout, Stages, Forked
<1>3. p \in {3, 5} /\ q \in {3, 5} /\ p # q
  BY <1>1, <1>2, Places
<1>4. fds[Shell] = Tab(Keyboard, Screen, p, f[i], q, 0) /\ fwdpip[Shell] = <<p, p + 1>>
  BY <1>1, <1>2, Bare DEF Layout, ShellTable, ShellArrays, Table, Pair
<1> HIDE DEF p, q
<1>5. close_pipes(fds[Shell], fwdpip[Shell]) = Terminal
  BY <1>2, <1>3, <1>4, ClosePipe, Bare
<1>6. fds' = [fds EXCEPT ![Shell] = Terminal] /\ Shell \in Process /\ Shell \notin Child /\ Child \subseteq Process
  BY <1>1, <1>5, Constants DEF Process
<1>7. fds \in [Process -> [FD -> Entry]] /\ Terminal \in [FD -> Entry]
  BY DEF TypeOK, Entry, Terminal
<1>8. /\ fds'[Shell] = Terminal /\ fds' \in [Process -> [FD -> Entry]]
      /\ \A j \in Child : fds'[j] = fds[j]
  <2> HIDE DEF Entry
  <2> QED BY <1>6, <1>7
<1>9. ShellTable(f)' /\ ShellArrays'
  BY <1>1, <1>8 DEF ShellTable, ShellArrays
<1>10. \A j \in Child : ChildTable(f, j)' /\ ChildArrays(j)'
  BY <1>1, <1>8, Still DEF Layout
<1>11. Stages'
  <2>1. Forked' = Forked
    BY <1>1, <1>2 DEF Forked
  <2>2. {j \in 1..ncmds : child[j] = "none"} = {}
    BY <1>1, <1>2 DEF Layout, Stages
  <2>3. Cardinality({j \in 1..ncmds : child[j] = "none"}) = 0
    BY <2>2, FS_EmptySet
  <2> QED BY <1>1, <1>2, <2>1, <2>3 DEF Layout, Stages
<1>12. Distinct(f)'
  <2>1. \A r \in Process : Uses(r)' \subseteq Uses(r)
    BY <1>1 DEF Uses
  <2> QED BY <2>1 DEF Layout, Distinct
<1>13. Layout(f)'
  BY <1>9, <1>10, <1>11, <1>12 DEF Layout, Numbering
<1>14. TypeOK'
  <2>1. i' \in 0..ncmds'
    BY <1>1, <1>2
  <2> QED BY <1>1, <1>8, <2>1 DEF TypeOK, Entry
<1> QED BY <1>13, <1>14

\* Every wait() takes a child: there are as many as the loop counts.
LEMMA WaitLayout ==
  ASSUME TypeOK, NEW f, Layout(f), Wait
  PROVE  TypeOK' /\ Layout(f)' /\ \E j \in Child : child[j] = "dead" /\ child' = [child EXCEPT ![j] = "none"]
<1> DEFINE N == {j \in 1..ncmds : child[j] = "none"}
<1>1. /\ pc = "wait" /\ i < ncmds /\ i' = i + 1
      /\ UNCHANGED <<pc, cmds, fds, bckpip, fwdpip, toWrite, toCopy, pipe, tty, screen, interrupted>>
      /\ ncmds' = ncmds
  BY DEF Wait, MoreToWait, prog, ncmds
<1>2. ncmds \in Nat /\ ncmds <= MaxCommands /\ i \in Nat /\ Forked = ncmds /\ Forked' = ncmds
  BY <1>1, Line DEF Forked
<1>3. Cardinality(N) = i /\ IsFiniteSet(1..ncmds) /\ Cardinality(1..ncmds) = ncmds
  BY <1>1, <1>2, FS_Interval DEF Layout, Stages
<1>4. IsFiniteSet(N)
  <2>1. N \subseteq 1..ncmds
    OBVIOUS
  <2> QED BY <1>3, <2>1, FS_Subset
<1>5. \E j \in 1..ncmds : child[j] # "none"
  <2>1. SUFFICES ASSUME \A j \in 1..ncmds : child[j] = "none" PROVE FALSE
    OBVIOUS
  <2>2. N = 1..ncmds
    BY <2>1
  <2> HIDE DEF N
  <2> QED BY <1>1, <1>2, <1>3, <2>2
<1>6. 1..ncmds \subseteq Child
  BY <1>2, Constants DEF Child
<1>7. PICK j \in Child : child[j] = "dead" /\ child' = [child EXCEPT ![j] = "none"]
  BY <1>5, <1>6 DEF Wait
<1>8. j \in 1..ncmds /\ j \notin N
  BY <1>7, Line
<1>9. /\ child' \in [Child -> {"none", "born", "stdout", "stdin", "exec", "run", "dead"}]
      /\ child'[j] = "none" /\ \A r \in Child : r # j => child'[r] = child[r]
  BY <1>7 DEF TypeOK
<1>10. Cardinality({r \in 1..ncmds : child'[r] = "none"}) = i + 1
  <2>1. {r \in 1..ncmds : child'[r] = "none"} = N \cup {j}
    BY <1>6, <1>8, <1>9
  <2>2. Cardinality(N \cup {j}) = Cardinality(N) + 1
    BY <1>4, <1>8, FS_AddElement
  <2> QED BY <1>3, <2>1, <2>2
<1>11. Stages'
  BY <1>1, <1>2, <1>9, <1>10 DEF Layout, Stages
<1>12. ShellTable(f)' /\ ShellArrays'
  BY <1>1 DEF Layout, ShellTable, ShellArrays
<1>13. ASSUME NEW r \in Child PROVE ChildTable(f, r)' /\ ChildArrays(r)'
  <2>1. ChildTable(f, r) /\ ChildArrays(r)
    BY DEF Layout
  <2>2. CASE r = j
    BY <1>1, <1>7, <1>9, <2>1, <2>2 DEF ChildTable, ChildArrays, Early, Late
  <2>3. CASE r # j
    BY <1>1, <1>9, <2>1, <2>3, Still
  <2> QED BY <2>2, <2>3
<1>14. Distinct(f)'
  <2>1. \A r \in Process : Uses(r)' \subseteq Uses(r)
    BY <1>1, <1>7, <1>9 DEF Uses, Process
  <2> QED BY <2>1 DEF Layout, Distinct
<1>15. Layout(f)'
  BY <1>11, <1>12, <1>13, <1>14 DEF Layout, Numbering
<1>16. TypeOK'
  <2>1. i' \in 0..ncmds'
    BY <1>1, <1>2
  <2> QED BY <1>1, <1>9, <2>1 DEF TypeOK
<1> QED BY <1>7, <1>15, <1>16

LEMMA WaitDoneLayout ==
  ASSUME TypeOK, NEW f, Layout(f), WaitDone
  PROVE  TypeOK' /\ Layout(f)' /\ \A j \in Child : child[j] = "none"
<1> DEFINE N == {j \in 1..ncmds : child[j] = "none"}
<1>1. /\ pc = "wait" /\ ~(i < ncmds) /\ pc' = "prompt"
      /\ bckpip' = [bckpip EXCEPT ![Shell] = <<0, 0>>] /\ fwdpip' = [fwdpip EXCEPT ![Shell] = <<0, 0>>]
      /\ pipe' = [k \in Pipe |-> IF k \in Unused THEN << >> ELSE pipe[k]]
      /\ UNCHANGED <<cmds, i, fds, child, toWrite, toCopy, tty, screen, interrupted>>
      /\ ncmds' = ncmds
  BY DEF WaitDone, MoreToWait, ncmds
<1>2. ncmds \in Nat /\ ncmds <= MaxCommands /\ i = ncmds /\ Forked = ncmds /\ Forked' = ncmds
  BY <1>1, Line DEF Forked
<1>3. Cardinality(N) = ncmds /\ IsFiniteSet(1..ncmds) /\ Cardinality(1..ncmds) = ncmds
  BY <1>1, <1>2, FS_Interval DEF Layout, Stages
<1>4. N = 1..ncmds
  <2>1. N \subseteq 1..ncmds
    OBVIOUS
  <2> QED BY <1>3, <2>1, FS_Subset
<1>5. \A j \in Child : child[j] = "none"
  BY <1>2, <1>4, Constants DEF Layout, Stages
<1>6. Stages'
  BY <1>1, <1>5 DEF Stages
<1>7. ShellTable(f)' /\ ShellArrays'
  BY <1>1 DEF Layout, ShellTable, ShellArrays
<1>8. \A j \in Child : ChildTable(f, j)' /\ ChildArrays(j)'
  BY <1>1, <1>5 DEF Layout, ChildTable, ChildArrays, Early, Late
<1>9. Distinct(f)'
  BY <1>1, <1>5 DEF Distinct, Uses, Process
<1>10. Layout(f)'
  BY <1>6, <1>7, <1>8, <1>9 DEF Layout, Numbering
<1>11. TypeOK'
  <2>1. bckpip' \in [Process -> Nat \X Nat] /\ fwdpip' \in [Process -> Nat \X Nat]
    BY <1>1 DEF TypeOK
  <2>2. pipe' \in [Pipe -> Seq(Item)]
    BY <1>1 DEF TypeOK
  <2>3. \A k \in Pipe : Len(pipe'[k]) <= PipeSize
    BY <1>1, Constants DEF TypeOK
  <2> QED BY <1>1, <2>1, <2>2, <2>3 DEF TypeOK
<1> QED BY <1>5, <1>10, <1>11

-----------------------------------------------------------------------------
LEMMA StepLayout ==
  ASSUME TypeOK, NEW f, Layout(f), [Next]_vars
  PROVE  TypeOK' /\ \E g : Layout(g)'
<1>1. CASE ReadLine \/ Eof \/ Abort
  BY <1>1, ReadLineLayout, EofLayout, AbortLayout
<1>2. CASE ShellStep
  BY <1>2, ForkLayout, ParentLayout, ForkDoneLayout, WaitLayout, WaitDoneLayout DEF ShellStep
<1>3. CASE Interrupt
  BY <1>3, InterruptLayout
<1>4. ASSUME NEW j \in Child, ChildStep(j) PROVE TypeOK' /\ \E g : Layout(g)'
  <2>1. CASE SetSignal(j) \/ RedirectOut(j) \/ RedirectIn(j) \/ Exec(j)
    BY <2>1, SetSignalLayout, RedirectOutLayout, RedirectInLayout, ExecLayout
  <2>2. CASE Write(j) \/ Read(j) \/ Exit(j)
    BY <2>2, WriteLayout, ReadLayout, ExitLayout
  <2> QED BY <1>4, <2>1, <2>2 DEF ChildStep
<1>5. CASE UNCHANGED vars
  BY <1>5, StutterLayout
<1> QED BY <1>1, <1>2, <1>3, <1>4, <1>5 DEF Next

IInv == TypeOK /\ \E f : Layout(f)

LEMMA LayoutHolds == Spec => []IInv
<1>1. Init => IInv
  BY Start DEF IInv
<1>2. IInv /\ [Next]_vars => IInv'
  <2>1. SUFFICES ASSUME IInv, [Next]_vars PROVE IInv'
    OBVIOUS
  <2>2. PICK f : Layout(f)
    BY <2>1 DEF IInv
  <2>3. TypeOK' /\ \E g : Layout(g)'
    BY <2>1, <2>2, StepLayout DEF IInv
  <2> QED BY <2>3 DEF IInv
<1> QED BY <1>1, <1>2, PTL DEF Spec

\* TypeOK: descriptors, items and stages are what they should be, for every
\* set of lines and programs.
THEOREM TypeCorrect == Spec => []TypeOK
<1>1. IInv => TypeOK
  BY DEF IInv
<1> QED BY <1>1, LayoutHolds, PTL

\* What a child past its redirections reads and writes, and which writing end
\* it has.
LEMMA LateEnds ==
  ASSUME TypeOK, NEW f, Layout(f), NEW j \in Child, Late(j)
  PROVE  /\ fds[j][0] = In(f, j) /\ fds[j][1] = Out(f, j)
         /\ \A k : W(k) \in Held(j) => k = f[j]
<1>1. child[j] # "none" /\ ~Early(j) /\ child[j] # "stdin"
  BY DEF Late, Early
<1>2. /\ j \in Nat /\ j > 0 /\ MaxCommands \in Nat /\ MaxCommands > 0
      /\ Place(j) \in {3, 5} /\ Place(j - 1) \in {3, 5} /\ Place(j) # Place(j - 1)
  BY <1>1, Beside
<1>3. fds[j] = Tab(In(f, j), Out(f, j), Place(j), Own(f, j), Place(j - 1), 0)
  BY <1>1 DEF Layout, ChildTable, Table
<1>4. fds[j][0] = In(f, j) /\ fds[j][1] = Out(f, j)
  BY <1>2, <1>3, Entries
<1>5. \A e \in Held(j) : e \in {In(f, j), Out(f, j), Screen, Closed, R(f[j])} \/ e = W(f[j])
  BY <1>2, <1>3, Entries DEF Held, Own
<1>6. \A k : W(k) \in Held(j) => k = f[j]
  BY <1>5, EndsDiffer DEF In, Out
<1> QED BY <1>4, <1>6

\* NoStrayWriter: no descriptor is left behind that would keep a program
\* waiting for the end of its input, in lines of any length.
THEOREM NoStrayWriterHolds == Spec => []NoStrayWriter
<1>1. IInv => NoStrayWriter
  <2>1. SUFFICES ASSUME TypeOK, NEW f, Layout(f), NEW j \in Child, NEW k \in Pipe, NEW p \in Process,
                        child[j] = "run", fds[j][0] = R(k), W(k) \in Held(p), pc = "wait" \/ p # Shell,
                        p = Shell \/ child[p] = "run"
                 PROVE  p = j - 1
    BY DEF IInv, NoStrayWriter, Process
  <2>2. Late(j) /\ j \in Process
    BY <2>1 DEF Late, Process
  <2>3. j > 1 /\ f[j - 1] = k
    BY <2>1, <2>2, LateEnds, EndsDiffer DEF In
  <2>4. p # Shell
    <3>1. SUFFICES ASSUME p = Shell PROVE FALSE
      OBVIOUS
    <3>2. Uses(p) = {}
      BY <2>1, <3>1 DEF Uses
    <3> QED BY <2>1, <3>2, UsesHeld
  <2>5. p \in Child /\ Late(p) /\ f[p] = k
    BY <2>1, <2>4, LateEnds DEF Late, Process
  <2>6. p \in Uses(p) /\ j - 1 \in Uses(j) /\ p # 0 /\ j - 1 # 0
    BY <2>1, <2>2, <2>3, <2>4, <2>5, Constants DEF Uses
  <2>7. Distinct(f)
    BY <2>1 DEF Layout
  <2>8. p \in Process /\ f[p] = f[j - 1]
    BY <2>1, <2>3, <2>5
  <2>9. \A m \in Uses(p) \ {0}, n \in Uses(j) \ {0} : f[m] = f[n] => m = n
    BY <2>2, <2>7, <2>8 DEF Distinct
  <2> QED BY <2>6, <2>8, <2>9
<1> QED BY <1>1, LayoutHolds, PTL

\* CleanPrompt: at the prompt the shell has the descriptors it started with,
\* and every child has ended and been waited for.
THEOREM CleanPromptHolds == Spec => []CleanPrompt
<1>1. IInv => CleanPrompt
  BY DEF IInv, Layout, ShellTable, Stages, CleanPrompt
<1> QED BY <1>1, LayoutHolds, PTL

-----------------------------------------------------------------------------
\* A set of natural numbers has a least element.  The intervals below its
\* elements are finite, and the strict inclusion of finite sets is well founded.
LEMMA Least ==
  ASSUME NEW S, S \subseteq Nat, S # {}
  PROVE  \E n \in S : \A m \in S : n <= m
<1> DEFINE Order == StrictSubsetOrdering(Nat)
           T == {1..n : n \in S}
<1>1. IsWellFoundedOn(Order, FiniteSubsetsOf(Nat))
  BY FS_StrictSubsetOrderingWellFounded
<1>2. \A n \in S : 1..n \in FiniteSubsetsOf(Nat)
  <2> TAKE n \in S
  <2>1. IsFiniteSet(1..n) /\ 1..n \in SUBSET Nat
    BY FS_Interval
  <2> QED BY <2>1 DEF FiniteSubsetsOf
<1>3. ASSUME NEW m \in S, NEW n \in S, m < n PROVE <<1..m, 1..n>> \in Order
  <2>1. 1..m \in SUBSET Nat /\ 1..n \in SUBSET Nat /\ 1..m \subseteq 1..n
    BY <1>3
  <2>2. n \in 1..n /\ n \notin 1..m
    BY <1>3
  <2>3. 1..m # 1..n
    BY <2>2
  <2> QED BY <2>1, <2>3 DEF StrictSubsetOrdering
<1> HIDE DEF Order
<1>4. PICK I \in T : \A J \in T : <<J, I>> \notin Order
  <2>1. T \subseteq FiniteSubsetsOf(Nat) /\ T # {}
    BY <1>2
  <2> HIDE DEF T
  <2> QED BY <1>1, <2>1, WFMin
<1>5. PICK n \in S : I = 1..n
  BY <1>4
<1>6. ASSUME NEW m \in S PROVE n <= m
  <2>1. <<1..m, 1..n>> \notin Order
    BY <1>4, <1>5
  <2> QED BY <1>3, <2>1
<1> QED BY <1>6

\* Printed() is what its recursion says: that determines its values one after
\* the other, so there is such a function.
LEMMA PrintedRecursion ==
  ASSUME NEW line, Len(line) \in Nat
  PROVE  /\ Printed(line)[0] = Typed
         /\ \A n \in 1..Len(line) : Printed(line)[n] = Fed(line, n, Printed(line)[n - 1])
<1> DEFINE D(o, m) == o = [n \in 0..m |-> IF n = 0 THEN Typed ELSE Fed(line, n, o[n - 1])]
           S == {m \in Nat : ~ \E o : D(o, m)}
<1>1. ASSUME NEW m \in S, \A l \in S : m <= l PROVE FALSE
  <2>1. CASE m = 0
    <3>1. D([n \in 0..0 |-> Typed], 0)
      OBVIOUS
    <3> QED BY <2>1, <3>1
  <2>2. CASE m # 0
    <3>1. m - 1 \in Nat /\ m - 1 \notin S
      <4>1. m \in Nat
        OBVIOUS
      <4> HIDE DEF S
      <4> QED BY <1>1, <2>2, <4>1
    <3>2. PICK o : D(o, m - 1)
      BY <3>1
    <3> DEFINE o2 == [n \in 0..m |-> IF n = m THEN Fed(line, m, o[m - 1]) ELSE o[n]]
    <3>3. ASSUME NEW n \in 0..m PROVE o2[n] = IF n = 0 THEN Typed ELSE Fed(line, n, o2[n - 1])
      <4>1. CASE n = m
        <5>1. o2[n] = Fed(line, m, o[m - 1]) /\ o2[n - 1] = o[m - 1]
          BY <2>2, <4>1
        <5> QED BY <2>2, <4>1, <5>1
      <4>2. CASE n # m
        <5>1. n \in 0..(m - 1) /\ o2[n] = o[n]
          BY <4>2
        <5>2. o[n] = IF n = 0 THEN Typed ELSE Fed(line, n, o[n - 1])
          BY <3>2, <5>1
        <5>3. n # 0 => o2[n - 1] = o[n - 1]
          BY <5>1
        <5> QED BY <5>1, <5>2, <5>3
      <4> QED BY <4>1, <4>2
    <3>4. o2 = [n \in 0..m |-> o2[n]]
      OBVIOUS
    <3> HIDE DEF o2
    <3>5. D(o2, m)
      BY <3>3, <3>4
    <3> QED BY <3>5
  <2> QED BY <2>1, <2>2
<1>2. S = {}
  <2>1. S \subseteq Nat
    OBVIOUS
  <2> HIDE DEF S
  <2> QED BY <1>1, <2>1, Least
<1>3. \E o : D(o, Len(line))
  BY <1>2
<1>4. D(Printed(line), Len(line))
  BY <1>3 DEF Printed
<1>5. \A n \in 0..Len(line) : Printed(line)[n] = IF n = 0 THEN Typed ELSE Fed(line, n, Printed(line)[n - 1])
  BY <1>4
<1> QED BY <1>5

LEMMA Parts ==
  ASSUME NEW s \in Seq(Item), NEW n \in 0..Len(s)
  PROVE  SubSeq(s, 1, n) \in Seq(Item) /\ Len(SubSeq(s, 1, n)) = n /\ \A m \in 1..n : SubSeq(s, 1, n)[m] = s[m]
BY SubSeqProperties, ElementOfSeq

LEMMA Joined ==
  ASSUME NEW s \in Seq(Item), NEW t \in Seq(Item)
  PROVE  /\ s \o t \in Seq(Item) /\ Len(s \o t) = Len(s) + Len(t) /\ Len(s) \in Nat /\ Len(t) \in Nat
         /\ \A m \in 1..(Len(s) + Len(t)) : (s \o t)[m] = IF m <= Len(s) THEN s[m] ELSE t[m - Len(s)]
<1> HIDE DEF Item
<1> QED BY ConcatProperties, LenProperties

LEMMA MakingsType ==
  ASSUME NEW line \in Lines, NEW j \in 1..Len(line), line[j] # Missing
  PROVE  /\ Makings(line, j) \in Seq(Item) /\ Makes[line[j]] \in Nat /\ Copies[line[j]] \in Nat
         /\ \A all \in Seq(Item) : /\ Smaller(Len(all), Copies[line[j]]) \in 0..Len(all)
                                   /\ Fed(line, j, all) = Makings(line, j) \o SubSeq(all, 1, Smaller(Len(all), Copies[line[j]]))
                                   /\ Fed(line, j, all) \in Seq(Item)
<1>1. line \in Seq(DOMAIN Makes \cup {Missing}) /\ Len(line) <= MaxCommands /\ MaxCommands \in Nat
  BY Constants
<1>2. line[j] \in DOMAIN Makes /\ j \in Child
  BY <1>1 DEF Child
<1>3. Makes[line[j]] \in Nat /\ Copies[line[j]] \in Nat
  BY <1>2, ProgramsAssumption
<1>4. Makings(line, j) \in Seq(Item)
  BY <1>2, <1>3 DEF Makings, Item, Process
<1>5. ASSUME NEW all \in Seq(Item)
      PROVE  /\ Smaller(Len(all), Copies[line[j]]) \in 0..Len(all)
             /\ Fed(line, j, all) = Makings(line, j) \o SubSeq(all, 1, Smaller(Len(all), Copies[line[j]]))
             /\ Fed(line, j, all) \in Seq(Item)
  <2>1. Smaller(Len(all), Copies[line[j]]) \in 0..Len(all)
    BY <1>3 DEF Smaller
  <2>2. Fed(line, j, all) = Makings(line, j) \o SubSeq(all, 1, Smaller(Len(all), Copies[line[j]]))
    BY DEF Fed, Makings
  <2>3. SubSeq(all, 1, Smaller(Len(all), Copies[line[j]])) \in Seq(Item)
    BY <2>1, Parts
  <2> QED BY <1>4, <2>1, <2>2, <2>3
<1> QED BY <1>3, <1>4, <1>5

LEMMA TypedType == Typed \in Seq(Item)
<1>1. {0} \X Nat \subseteq Item
  BY DEF Item, Process, Shell
<1> QED BY <1>1, TypedAssumption

LEMMA PrintedType ==
  ASSUME NEW line \in Lines
  PROVE  \A n \in 0..Len(line) : Printed(line)[n] \in Seq(Item)
<1> DEFINE S == {m \in 0..Len(line) : Printed(line)[m] \notin Seq(Item)}
<1>1. Len(line) \in Nat
  BY Constants
<1>2. ASSUME NEW m \in S, \A l \in S : m <= l PROVE FALSE
  <2>1. m # 0
    BY <1>1, TypedType, PrintedRecursion
  <2>2. m \in 1..Len(line) /\ m - 1 \in 0..Len(line) /\ m - 1 \notin S
    BY <1>1, <1>2, <2>1
  <2>3. Printed(line)[m] = Fed(line, m, Printed(line)[m - 1]) /\ Printed(line)[m - 1] \in Seq(Item)
    BY <1>1, <2>2, PrintedRecursion
  <2>4. CASE line[m] = Missing
    <3>1. Fed(line, m, Printed(line)[m - 1]) = << >>
      BY <2>4 DEF Fed
    <3> QED BY <2>3, <3>1, EmptySeq
  <2>5. CASE line[m] # Missing
    BY <2>2, <2>3, <2>5, MakingsType
  <2> QED BY <2>4, <2>5
<1>3. S = {}
  <2>1. S \subseteq Nat
    OBVIOUS
  <2> HIDE DEF S
  <2> QED BY <1>2, <2>1, Least
<1> QED BY <1>3

\* What a program has written, a, of what it has made and copied is a prefix of
\* all that it would write if it were fed all of its input, and all of it once
\* it has copied all it may or all there is.
Copied(a, t, make, s, all, n, c) ==
  /\ a \in Seq(Item) /\ t \in Seq(Item) /\ make \in Seq(Item) /\ s \in Seq(Item) /\ all \in Seq(Item)
  /\ n \in 0..Len(s) /\ c \in Nat /\ n <= c
  /\ a \o t = make \o SubSeq(s, 1, n) /\ IsPrefix(s, all)
AllCopied(a, t, make, s, all, n, c) ==
  t = << >> /\ (n = c \/ (n = Len(s) /\ s = all)) => a = make \o SubSeq(all, 1, Smaller(Len(all), c))

LEMMA SoFar ==
  ASSUME NEW a, NEW t, NEW make, NEW s, NEW all, NEW n, NEW c, Copied(a, t, make, s, all, n, c)
  PROVE  /\ IsPrefix(a, make \o SubSeq(all, 1, Smaller(Len(all), c)))
         /\ AllCopied(a, t, make, s, all, n, c)
<1> DEFINE w == make \o SubSeq(all, 1, Smaller(Len(all), c))
           u == make \o SubSeq(s, 1, n)
<1> USE DEF Copied
<1>1. Len(s) <= Len(all) /\ Len(s) \in Nat /\ Len(all) \in Nat /\ \A m \in 1..Len(s) : s[m] = all[m]
  <2>1. Len(s) <= Len(all) /\ SubSeq(s, 1, Len(s)) = SubSeq(all, 1, Len(s)) /\ Len(s) \in Nat /\ Len(all) \in Nat
    BY DEF IsPrefix
  <2>2. Len(s) \in 0..Len(s) /\ Len(s) \in 0..Len(all)
    BY <2>1
  <2>3. \A m \in 1..Len(s) : SubSeq(s, 1, Len(s))[m] = s[m] /\ SubSeq(all, 1, Len(s))[m] = all[m]
    BY <2>2, Parts
  <2> QED BY <2>1, <2>3
<1>2. Smaller(Len(all), c) \in 0..Len(all) /\ n <= Smaller(Len(all), c) /\ n \in Nat
  BY <1>1 DEF Smaller
<1>3. /\ SubSeq(s, 1, n) \in Seq(Item) /\ Len(SubSeq(s, 1, n)) = n
      /\ SubSeq(all, 1, Smaller(Len(all), c)) \in Seq(Item)
      /\ Len(SubSeq(all, 1, Smaller(Len(all), c))) = Smaller(Len(all), c)
      /\ \A m \in 1..n : SubSeq(s, 1, n)[m] = SubSeq(all, 1, Smaller(Len(all), c))[m]
  BY <1>1, <1>2, Parts
<1>4. /\ u \in Seq(Item) /\ w \in Seq(Item) /\ Len(u) = Len(make) + n /\ Len(w) = Len(make) + Smaller(Len(all), c)
      /\ Len(make) \in Nat
      /\ \A m \in 1..(Len(make) + n) : u[m] = w[m]
  <2> DEFINE us == SubSeq(s, 1, n)
             ws == SubSeq(all, 1, Smaller(Len(all), c))
  <2> HIDE DEF us, ws
  <2>1. us \in Seq(Item) /\ Len(us) = n /\ ws \in Seq(Item) /\ Len(ws) = Smaller(Len(all), c)
        /\ \A m \in 1..n : us[m] = ws[m]
    BY <1>3 DEF us, ws
  <2>2. u = make \o us /\ w = make \o ws
    BY DEF us, ws
  <2>3. /\ make \o us \in Seq(Item) /\ Len(make \o us) = Len(make) + n /\ Len(make) \in Nat
        /\ \A m \in 1..(Len(make) + n) : (make \o us)[m] = IF m <= Len(make) THEN make[m] ELSE us[m - Len(make)]
    BY <2>1, Joined
  <2>4. /\ make \o ws \in Seq(Item) /\ Len(make \o ws) = Len(make) + Len(ws)
        /\ \A m \in 1..(Len(make) + Len(ws)) :
             (make \o ws)[m] = IF m <= Len(make) THEN make[m] ELSE ws[m - Len(make)]
    BY <2>1, Joined
  <2> HIDE DEF u, w
  <2>5. ASSUME NEW m \in 1..(Len(make) + n) PROVE u[m] = w[m]
    <3>1. m \in 1..(Len(make) + Len(ws))
      BY <1>2, <2>1, <2>3
    <3>2. ~(m <= Len(make)) => m - Len(make) \in 1..n
      BY <1>2, <2>3
    <3> QED BY <2>1, <2>2, <2>3, <2>4, <3>1, <3>2
  <2> QED BY <2>1, <2>2, <2>3, <2>4, <2>5
<1> HIDE DEF u, w
<1>5. Len(a) <= Len(u) /\ Len(a) \in Nat /\ \A m \in 1..Len(a) : a[m] = u[m]
  BY DEF u
<1>6. IsPrefix(a, w)
  <2>1. Len(a) <= Len(w) /\ Len(a) \in 0..Len(a) /\ Len(a) \in 0..Len(w)
    BY <1>2, <1>4, <1>5
  <2>2. \A m \in 1..Len(a) : a[m] = w[m]
    BY <1>4, <1>5
  <2>3. /\ SubSeq(a, 1, Len(a)) \in Seq(Item) /\ SubSeq(w, 1, Len(a)) \in Seq(Item)
        /\ Len(SubSeq(a, 1, Len(a))) = Len(a) /\ Len(SubSeq(w, 1, Len(a))) = Len(a)
        /\ \A m \in 1..Len(a) : SubSeq(a, 1, Len(a))[m] = SubSeq(w, 1, Len(a))[m]
    BY <1>4, <2>1, <2>2, Parts
  <2>4. SubSeq(a, 1, Len(a)) = SubSeq(w, 1, Len(a))
    BY <2>3, SeqEqual
  <2> QED BY <2>1, <2>4 DEF IsPrefix
<1>7. ASSUME t = << >>, n = c \/ (n = Len(s) /\ s = all) PROVE a = w
  <2>1. a = u
    BY <1>7 DEF u
  <2>2. n = Smaller(Len(all), c)
    BY <1>1, <1>7 DEF Smaller
  <2>3. Len(u) = Len(w) /\ \A m \in 1..Len(u) : u[m] = w[m]
    BY <1>4, <2>2
  <2> QED BY <1>4, <2>1, <2>3, SeqEqual
<1>8. w = make \o SubSeq(all, 1, Smaller(Len(all), c))
  BY DEF w
<1> QED BY <1>6, <1>7, <1>8 DEF AllCopied

LEMMA TakeOne ==
  ASSUME NEW s \in Seq(Item), NEW n \in Nat, n <= Len(s)
  PROVE  /\ Rest(s, n) \in Seq(Item) /\ (Rest(s, n) = << >> => n = Len(s))
         /\ Rest(s, n) # << >> =>
              /\ n < Len(s) /\ n + 1 \in 1..Len(s) /\ s[n + 1] \in Item /\ Head(Rest(s, n)) = s[n + 1]
              /\ Tail(Rest(s, n)) = Rest(s, n + 1)
              /\ SubSeq(s, 1, n + 1) = SubSeq(s, 1, n) \o <<s[n + 1]>>
<1> HIDE DEF Item
<1>1. Len(s) \in Nat /\ \A m \in n + 1..Len(s) : s[m] \in Item
  BY ElementOfSeq, LenProperties
<1>2. /\ Rest(s, n) \in Seq(Item) /\ Len(Rest(s, n)) = Len(s) - n
  <2>1. n + 1 \in Int /\ Len(s) \in Int
    BY <1>1
  <2>2. /\ SubSeq(s, n + 1, Len(s)) \in Seq(Item)
        /\ Len(SubSeq(s, n + 1, Len(s))) = IF n + 1 <= Len(s) THEN Len(s) - (n + 1) + 1 ELSE 0
    BY <1>1, <2>1, SubSeqProperties
  <2> QED BY <1>1, <2>2 DEF Rest
<1>3. Rest(s, n) = << >> => n = Len(s)
  BY <1>1, <1>2
<1>4. Rest(s, n) # << >> => n < Len(s)
  BY <1>1, <1>2, EmptySeq
<1>5. ASSUME n < Len(s)
      PROVE  /\ n + 1 \in 1..Len(s) /\ s[n + 1] \in Item /\ Head(Rest(s, n)) = s[n + 1]
             /\ Tail(Rest(s, n)) = Rest(s, n + 1)
             /\ SubSeq(s, 1, n + 1) = SubSeq(s, 1, n) \o <<s[n + 1]>>
  <2>1. n + 1 \in 1..Len(s) /\ Len(s) \in n + 1..Len(s) /\ 1 \in 1..Len(s) /\ n + 1 \in 1..Len(s) /\ (n + 1) - 1 = n
    BY <1>1, <1>5
  <2>2. Head(SubSeq(s, n + 1, Len(s))) = s[n + 1] /\ Tail(SubSeq(s, n + 1, Len(s))) = SubSeq(s, n + 1 + 1, Len(s))
    BY <2>1, HeadTailOfSubSeq
  <2>3. SubSeq(s, 1, n + 1) = SubSeq(s, 1, (n + 1) - 1) \o <<s[n + 1]>>
    BY <2>1, SubSeqRecursiveSecond
  <2> QED BY <1>1, <2>1, <2>2, <2>3 DEF Rest
<1> QED BY <1>2, <1>3, <1>4, <1>5

LEMMA GiveOne ==
  ASSUME NEW s \in Seq(Item), NEW x \in Item, NEW n \in 0..Len(s)
  PROVE  /\ Append(s, x) \in Seq(Item) /\ Len(Append(s, x)) = Len(s) + 1
         /\ SubSeq(Append(s, x), 1, n) = SubSeq(s, 1, n)
         /\ Rest(Append(s, x), n) = Append(Rest(s, n), x)
<1> DEFINE z == Append(s, x)
<1> HIDE DEF Item
<1>1. /\ z \in Seq(Item) /\ Len(z) = Len(s) + 1 /\ Len(s) \in Nat /\ z[Len(s) + 1] = x
      /\ \A m \in 1..Len(s) : z[m] = s[m]
  OBVIOUS
<1> HIDE DEF z
<1>2. SubSeq(z, 1, n) = SubSeq(s, 1, n)
  <2>1. n \in 0..Len(z)
    BY <1>1
  <2>2. /\ SubSeq(s, 1, n) \in Seq(Item) /\ Len(SubSeq(s, 1, n)) = n /\ \A m \in 1..n : SubSeq(s, 1, n)[m] = s[m]
        /\ SubSeq(z, 1, n) \in Seq(Item) /\ Len(SubSeq(z, 1, n)) = n /\ \A m \in 1..n : SubSeq(z, 1, n)[m] = z[m]
    BY <1>1, <2>1, Parts
  <2>3. \A m \in 1..n : SubSeq(z, 1, n)[m] = SubSeq(s, 1, n)[m]
    BY <1>1, <2>2
  <2> QED BY <2>2, <2>3, SeqEqual
<1>3. Rest(z, n) = Append(Rest(s, n), x)
  <2>1. n + 1 \in 1..Len(z) /\ Len(z) \in (n + 1)..Len(z) /\ n + 1 \in Int /\ Len(s) \in Int /\ Len(z) - 1 = Len(s)
    BY <1>1
  <2>2. SubSeq(z, n + 1, Len(z)) = SubSeq(z, n + 1, Len(s)) \o <<x>>
    BY <1>1, <2>1, SubSeqRecursiveSecond
  <2>3. SubSeq(z, n + 1, Len(s)) = SubSeq(s, n + 1, Len(s))
    <3>1. \A m \in (n + 1)..Len(s) : s[m] \in Item /\ z[m] \in Item /\ m \in 1..Len(s)
      BY <1>1, ElementOfSeq
    <3>2. /\ SubSeq(s, n + 1, Len(s)) \in Seq(Item)
          /\ Len(SubSeq(s, n + 1, Len(s))) = IF n + 1 <= Len(s) THEN Len(s) - (n + 1) + 1 ELSE 0
          /\ \A m \in 1..(Len(s) - (n + 1) + 1) : SubSeq(s, n + 1, Len(s))[m] = s[n + 1 + m - 1]
      BY <2>1, <3>1, SubSeqProperties
    <3>3. /\ SubSeq(z, n + 1, Len(s)) \in Seq(Item)
          /\ Len(SubSeq(z, n + 1, Len(s))) = IF n + 1 <= Len(s) THEN Len(s) - (n + 1) + 1 ELSE 0
          /\ \A m \in 1..(Len(s) - (n + 1) + 1) : SubSeq(z, n + 1, Len(s))[m] = z[n + 1 + m - 1]
      BY <2>1, <3>1, SubSeqProperties
    <3>4. \A m \in 1..Len(SubSeq(s, n + 1, Len(s))) : SubSeq(z, n + 1, Len(s))[m] = SubSeq(s, n + 1, Len(s))[m]
      <4> TAKE m \in 1..Len(SubSeq(s, n + 1, Len(s)))
      <4>1. m \in 1..(Len(s) - (n + 1) + 1) /\ n + 1 + m - 1 \in 1..Len(s)
        BY <1>1, <3>2
      <4> QED BY <1>1, <3>2, <3>3, <4>1
    <3> QED BY <3>2, <3>3, <3>4, SeqEqual
  <2>4. SubSeq(s, n + 1, Len(s)) \in Seq(Item)
    BY <1>1, TakeOne DEF Rest
  <2>5. Append(SubSeq(s, n + 1, Len(s)), x) = SubSeq(s, n + 1, Len(s)) \o <<x>>
    BY <2>4, AppendIsConcat
  <2> QED BY <2>2, <2>3, <2>5 DEF Rest
<1> QED BY <1>1, <1>2, <1>3 DEF z

LEMMA PassOne ==
  ASSUME NEW s \in Seq(Item), NEW t \in Seq(Item), t # << >>
  PROVE  Append(s, Head(t)) \o Tail(t) = s \o t
<1> HIDE DEF Item
<1>1. Head(t) \in Item /\ Tail(t) \in Seq(Item) /\ t = <<Head(t)>> \o Tail(t)
  <2>1. Head(t) \in Item /\ Tail(t) \in Seq(Item) /\ Tail(t) = SubSeq(t, 2, Len(t)) /\ Head(t) = t[1]
    BY HeadTailProperties, TailIsSubSeq
  <2>2. Len(t) \in Nat /\ Len(t) > 0
    BY EmptySeq
  <2>3. 1 \in 1..Len(t) /\ Len(t) \in 1..Len(t)
    BY <2>2
  <2>4. SubSeq(t, 1, Len(t)) = <<t[1]>> \o SubSeq(t, 1 + 1, Len(t)) /\ SubSeq(t, 1, Len(t)) = t
    BY <2>3, SubSeqRecursiveFirst, SubSeqFull
  <2> QED BY <2>1, <2>4
<1>2. Append(s, Head(t)) = s \o <<Head(t)>>
  BY <1>1, AppendIsConcat
<1>3. (s \o <<Head(t)>>) \o Tail(t) = s \o (<<Head(t)>> \o Tail(t))
  BY <1>1, ConcatAssociative
<1> QED BY <1>1, <1>2, <1>3

-----------------------------------------------------------------------------
\* The types that the lemmas on the flow need.
LEMMA FlowTypes ==
  ASSUME TypeOK, NEW f, Layout(f), NEW out, Flow(f, out), cmds # << >>, NEW j \in 1..ncmds
  PROVE  /\ ncmds \in Nat /\ j \in Nat /\ j > 0 /\ j - 1 \in 0..ncmds /\ j \in Child /\ cmds \in Lines
         /\ out[j] \in Seq(Item) /\ out[j - 1] \in Seq(Item) /\ toWrite[j] \in Seq(Item) /\ toCopy[j] \in Nat
         /\ Printed(cmds)[j] \in Seq(Item) /\ Printed(cmds)[j - 1] \in Seq(Item)
         /\ IsPrefix(out[j - 1], Printed(cmds)[j - 1])
         /\ Printed(cmds)[j] = Fed(cmds, j, Printed(cmds)[j - 1])
<1>1. /\ ncmds \in Nat /\ ncmds <= MaxCommands /\ j \in Nat /\ j > 0 /\ j - 1 \in 0..ncmds /\ j \in Child
      /\ cmds \in Lines /\ MaxCommands \in Nat
  BY Line DEF TypeOK, Child
<1>2. out \in [0..MaxCommands -> Seq(Item)] /\ out[0] = Typed
  BY DEF Flow
<1>3. out[j] \in Seq(Item) /\ out[j - 1] \in Seq(Item)
  BY <1>1, <1>2
<1>4. toWrite[j] \in Seq(Item) /\ toCopy[j] \in Nat
  BY <1>1 DEF TypeOK
<1>5. /\ Printed(cmds)[j] \in Seq(Item) /\ Printed(cmds)[j - 1] \in Seq(Item)
      /\ Printed(cmds)[j] = Fed(cmds, j, Printed(cmds)[j - 1]) /\ Printed(cmds)[0] = Typed
  BY <1>1, PrintedType, PrintedRecursion DEF ncmds
<1>6. IsPrefix(out[j - 1], Printed(cmds)[j - 1])
  <2>1. CASE j = 1
    <3>1. out[j - 1] = Printed(cmds)[j - 1]
      BY <1>2, <1>5, <2>1
    <3> QED BY <1>5, <3>1 DEF IsPrefix
  <2>2. CASE j # 1
    <3>1. j - 1 \in 1..ncmds
      BY <1>1, <2>2
    <3> QED BY <3>1 DEF Flow
  <2> QED BY <2>1, <2>2
<1> QED BY <1>1, <1>3, <1>4, <1>5, <1>6

\* What a step may do that moves no item: stages are not undone, and who is
\* gone anew has done its part.
LEMMA Quiet ==
  ASSUME TypeOK, NEW f, Layout(f), NEW out, Flow(f, out), NEW g, cmds' = cmds, screen' = screen,
         Excused => Excused',
         \A j \in 1..ncmds :
           /\ Gone(j) => Gone(j)'
           /\ child[j] = "run" => child'[j] = "run" \/ Gone(j)'
           /\ (child'[j] = "run" => child[j] = "run" /\ toWrite'[j] = toWrite[j] /\ toCopy'[j] = toCopy[j])
                \/ Ran(out, j)'
           /\ Fills(g, out, j)'
           /\ (Gone(j)' => Gone(j)) \/ Ended(out, j)'
  PROVE  Flow(g, out)'
<1>1. ncmds' = ncmds
  BY DEF ncmds
<1>2. ASSUME NEW j \in 1..ncmds
      PROVE  Ran(out, j)' /\ Idle(out, j)' /\ Fills(g, out, j)' /\ Ended(out, j)' /\ IsPrefix(out[j], Printed(cmds')[j])
  <2>1. Ran(out, j) /\ Idle(out, j) /\ Ended(out, j) /\ IsPrefix(out[j], Printed(cmds)[j])
    BY DEF Flow
  <2>2. Ran(out, j)'
    BY <2>1 DEF Ran, Taken
  <2>3. Idle(out, j)'
    BY <2>1 DEF Idle
  <2>4. j < ncmds => (Gone(j + 1) => Gone(j + 1)')
    <3>1. j < ncmds => j + 1 \in 1..ncmds
      BY DEF ncmds
    <3> QED BY <3>1
  <2>5. Ended(out, j)'
    BY <1>1, <2>1, <2>4 DEF Ended
  <2> QED BY <2>1, <2>2, <2>3, <2>5
<1>3. \A j \in 1..ncmds' : Ran(out, j)' /\ Idle(out, j)' /\ Fills(g, out, j)' /\ Ended(out, j)' /\ IsPrefix(out[j], Printed(cmds')[j])
  BY <1>1, <1>2
<1>4. out \in [0..MaxCommands -> Seq(Item)] /\ out[0] = Typed /\ screen' = out[ncmds']
  BY <1>1 DEF Flow
<1> QED BY <1>3, <1>4 DEF Flow

\* The input of a command is where it was.
LEMMA SameInput ==
  ASSUME NEW f, NEW out, NEW j, Fills(f, out, j), Reads(j)' => Reads(j),
         Reads(j)' => Taken(j)' = Taken(j), tty' = tty, pipe' = pipe
  PROVE  Fills(f, out, j)'
BY DEF Fills

LEMMA StageFlow ==
  ASSUME TypeOK, NEW f, Layout(f), NEW out, Flow(f, out), NEW j \in Child, NEW s \in {"stdout", "stdin", "exec"},
         child[j] \notin {"none", "run", "dead"}, child' = [child EXCEPT ![j] = s],
         UNCHANGED <<pc, i, cmds, toWrite, toCopy, pipe, tty, screen, interrupted>>
  PROVE  Flow(f, out)'
<1>1. /\ ncmds' = ncmds /\ Forked' = Forked
      /\ child'[j] = s /\ \A p \in Child : p # j => child'[p] = child[p]
  BY DEF ncmds, Forked, TypeOK
<1>2. \A p \in 1..ncmds : p \in Child
  BY Line DEF Child
<1>3. ASSUME NEW p \in 1..ncmds
      PROVE  /\ Gone(p) <=> Gone(p)'
             /\ Reads(p)' => Reads(p)
             /\ Taken(p)' = Taken(p)
             /\ child[p] = "run" <=> child'[p] = "run"
  BY <1>1, <1>2 DEF Gone, Reads, Taken
<1>4. \A p \in 1..ncmds : Fills(f, out, p)'
  BY <1>3, SameInput DEF Flow
<1>5. Excused => Excused'
  BY DEF Excused
<1> QED BY <1>3, <1>4, <1>5, Quiet

LEMMA RunFlow ==
  ASSUME TypeOK, NEW f, Layout(f), NEW out, Flow(f, out), cmds # << >>, NEW j \in Child, Exec(j), cmds[j] # Missing
  PROVE  Flow(f, out)'
<1>1. /\ child[j] = "exec" /\ child' = [child EXCEPT ![j] = "run"]
      /\ toWrite' = [toWrite EXCEPT ![j] = [n \in 1..Makes[cmds[j]] |-> <<j, n>>]]
      /\ toCopy' = [toCopy EXCEPT ![j] = Copies[cmds[j]]]
      /\ UNCHANGED <<pc, cmds, i, pipe, tty, screen, interrupted>>
  BY DEF Exec
<1>2. /\ ncmds' = ncmds /\ Forked' = Forked /\ ncmds \in Nat
      /\ child'[j] = "run" /\ \A p \in Child : p # j => child'[p] = child[p]
      /\ toWrite'[j] = Makings(cmds, j) /\ toCopy'[j] = Copies[cmds[j]]
      /\ \A p \in Child : p # j => toWrite'[p] = toWrite[p] /\ toCopy'[p] = toCopy[p]
  BY <1>1, Line DEF ncmds, Forked, TypeOK, Makings
<1>3. \A p \in 1..ncmds : p \in Child
  BY Line DEF Child
<1>4. j \in 1..ncmds
  BY <1>1, Line
<1>5. /\ Makings(cmds, j) \in Seq(Item) /\ Copies[cmds[j]] \in Nat /\ out[j - 1] \in Seq(Item)
      /\ cmds \in Lines
  BY <1>4, FlowTypes, MakingsType DEF ncmds
<1>6. Taken(j)' = 0 /\ Taken(j) = 0
  BY <1>1, <1>2, <1>5 DEF Taken
<1>7. Ran(out, j)'
  <2>1. out[j] = << >>
    BY <1>1, <1>4 DEF Flow, Idle, Gone
  <2>2. SubSeq(out[j - 1], 1, 0) = << >>
    BY SubSeqEmpty
  <2>3. << >> \o Makings(cmds, j) = Makings(cmds, j) \o << >>
    BY <1>5, ConcatEmptySeq
  <2>4. Makings(cmds, j)' = Makings(cmds, j)
    BY <1>1 DEF Makings
  <2>5. Len(out[j - 1]) \in Nat
    BY <1>5
  <2>6. toCopy'[j] <= Copies[cmds[j]] /\ Taken(j)' <= Len(out[j - 1])
    BY <1>2, <1>5, <1>6, <2>5
  <2>7. out[j] \o toWrite'[j] = Makings(cmds, j) \o SubSeq(out[j - 1], 1, Taken(j)')
    BY <1>2, <1>6, <2>1, <2>2, <2>3
  <2> QED BY <1>1, <2>4, <2>6, <2>7 DEF Ran
<1>8. ASSUME NEW p \in 1..ncmds
      PROVE  /\ Gone(p) <=> Gone(p)'
             /\ Reads(p)' => Reads(p)
             /\ Taken(p)' = Taken(p)
             /\ child[p] = "run" => child'[p] = "run"
             /\ p # j => (child[p] = "run" <=> child'[p] = "run") /\ toWrite'[p] = toWrite[p] /\ toCopy'[p] = toCopy[p]
  BY <1>1, <1>2, <1>3, <1>6 DEF Gone, Reads, Taken
<1>9. \A p \in 1..ncmds : Fills(f, out, p)'
  BY <1>1, <1>8, SameInput DEF Flow
<1>10. Excused => Excused'
  BY <1>1 DEF Excused
<1> QED BY <1>1, <1>7, <1>8, <1>9, <1>10, Quiet

\* When processes end, what the children among them leave must be done.
LEMMA DeathsFlow ==
  ASSUME TypeOK, NEW f, Layout(f), NEW out, Flow(f, out), NEW S \in SUBSET Process, Kill(S),
         UNCHANGED <<cmds, i, pipe, tty, screen>>, interrupted => interrupted',
         pc' = pc \/ (pc = "fork" /\ pc' = "aborted"),
         \A j \in 1..ncmds : j \in S => child[j] # "none" /\ Ended(out, j)'
  PROVE  Flow(f, out)'
<1>1. /\ ncmds' = ncmds /\ Forked' = Forked
      /\ \A p \in Child : child'[p] = IF p \in S THEN "dead" ELSE child[p]
      /\ \A p \in Child : p \notin S => toWrite'[p] = toWrite[p] /\ toCopy'[p] = toCopy[p]
  BY DEF ncmds, Forked, Kill
<1>2. \A p \in 1..ncmds : p \in Child
  BY Line DEF Child
<1>3. ASSUME NEW p \in 1..ncmds
      PROVE  /\ Gone(p) => Gone(p)'
             /\ Reads(p)' => Reads(p)
             /\ Reads(p)' => Taken(p)' = Taken(p)
             /\ child[p] = "run" => child'[p] = "run" \/ Gone(p)'
             /\ child'[p] = "run" => child[p] = "run" /\ toWrite'[p] = toWrite[p] /\ toCopy'[p] = toCopy[p]
             /\ (Gone(p)' => Gone(p)) \/ Ended(out, p)'
  BY <1>1, <1>2 DEF Gone, Reads, Taken
<1>4. \A p \in 1..ncmds : Fills(f, out, p)'
  BY <1>3, SameInput DEF Flow
<1>5. Excused => Excused'
  BY DEF Excused
<1> QED BY <1>3, <1>4, <1>5, Quiet

LEMMA InterruptFlow ==
  ASSUME TypeOK, NEW f, Layout(f), NEW out, Flow(f, out), Interrupt
  PROVE  Flow(f, out)'
<1> DEFINE S == {j \in Live : child[j] # "born"}
<1>1. S \in SUBSET Process /\ Kill(S) /\ \A j \in S : child[j] # "none"
  BY DEF Live, Interrupt, Process
<1>2. \A j \in 1..ncmds : Ended(out, j)'
  BY DEF Interrupt, Ended, Excused
<1> HIDE DEF S
<1> QED BY <1>1, <1>2, DeathsFlow DEF Interrupt

LEMMA AbortFlow ==
  ASSUME TypeOK, NEW f, Layout(f), NEW out, Flow(f, out), Abort
  PROVE  Flow(f, out)'
<1>1. {Shell} \in SUBSET Process /\ \A j \in 1..ncmds : j \notin {Shell}
  BY Line DEF Process, Shell
<1> QED BY <1>1, DeathsFlow DEF Abort

\* The shell's own steps leave the children to themselves.
LEMMA ShellFlow ==
  ASSUME TypeOK, NEW f, Layout(f), NEW out, Flow(f, out),
         UNCHANGED <<cmds, child, toWrite, toCopy, pipe, tty, screen, interrupted>>,
         Forked' = Forked, pc # "aborted", pc' \in {"fork", "parent"} => pc \in {"fork", "parent"}
  PROVE  Flow(f, out)'
<1>1. ncmds' = ncmds
  BY DEF ncmds
<1>2. ASSUME NEW p \in 1..ncmds
      PROVE  (Gone(p) <=> Gone(p)') /\ (Reads(p)' => Reads(p)) /\ Taken(p)' = Taken(p)
  BY DEF Gone, Reads, Taken
<1>3. \A p \in 1..ncmds : Fills(f, out, p)'
  BY <1>2, SameInput DEF Flow
<1>4. Excused => Excused'
  BY DEF Excused
<1> QED BY <1>2, <1>3, <1>4, Quiet

LEMMA ShellsFlow ==
  ASSUME TypeOK, NEW f, Layout(f), NEW out, Flow(f, out), Eof \/ Parent \/ ForkDone
  PROVE  Flow(f, out)'
<1>1. CASE Eof
  BY <1>1, ShellFlow DEF Eof, prog, Forked, ncmds
<1>2. CASE Parent
  BY <1>2, ShellFlow DEF Parent, prog, Forked, ncmds
<1>3. CASE ForkDone
  BY <1>3, ShellFlow DEF ForkDone, prog, Forked, ncmds
<1> QED BY <1>1, <1>2, <1>3

LEMMA WaitFlow ==
  ASSUME TypeOK, NEW f, Layout(f), NEW out, Flow(f, out), Wait
  PROVE  Flow(f, out)'
<1>1. PICK j \in Child : child[j] = "dead" /\ child' = [child EXCEPT ![j] = "none"]
  BY WaitLayout
<1>2. /\ pc = "wait" /\ ncmds' = ncmds /\ Forked = ncmds /\ Forked' = ncmds
      /\ UNCHANGED <<pc, cmds, toWrite, toCopy, pipe, tty, screen, interrupted>>
      /\ child'[j] = "none" /\ \A p \in Child : p # j => child'[p] = child[p]
  BY <1>1 DEF Wait, prog, ncmds, Forked, TypeOK
<1>3. \A p \in 1..ncmds : p \in Child /\ p <= ncmds
  BY Line DEF Child
<1>4. ASSUME NEW p \in 1..ncmds
      PROVE  /\ (Gone(p) <=> Gone(p)') /\ (Reads(p)' => Reads(p)) /\ Taken(p)' = Taken(p)
             /\ (child[p] = "run" <=> child'[p] = "run")
  BY <1>1, <1>2, <1>3 DEF Gone, Reads, Taken
<1>5. \A p \in 1..ncmds : Fills(f, out, p)'
  BY <1>2, <1>4, SameInput DEF Flow
<1>6. Excused => Excused'
  BY <1>2 DEF Excused
<1> QED BY <1>2, <1>4, <1>5, <1>6, Quiet

LEMMA WaitDoneFlow ==
  ASSUME TypeOK, NEW f, Layout(f), NEW out, Flow(f, out), WaitDone
  PROVE  Flow(f, out)'
<1>1. /\ pc = "wait" /\ pc' = "prompt" /\ ncmds' = ncmds /\ Forked = ncmds /\ Forked' = ncmds
      /\ UNCHANGED <<cmds, child, toWrite, toCopy, tty, screen, interrupted>>
  BY DEF WaitDone, ncmds, Forked
<1>2. \A p \in 1..ncmds : p \in Child /\ p <= ncmds
  BY Line DEF Child
<1>3. \A p \in Child : child[p] = "none"
  BY WaitDoneLayout
<1>4. ASSUME NEW p \in 1..ncmds
      PROVE  (Gone(p) <=> Gone(p)') /\ ~Reads(p)'
  BY <1>1, <1>2, <1>3 DEF Gone, Reads
<1>5. \A p \in 1..ncmds : Fills(f, out, p)'
  BY <1>4 DEF Fills
<1>6. Excused => Excused'
  BY <1>1 DEF Excused
<1> QED BY <1>1, <1>4, <1>5, <1>6, Quiet

\* Somebody holds the writing end of the pipe of a command that is not gone.
LEMMA Writer ==
  ASSUME TypeOK, NEW f, Layout(f), NEW j \in Child, child[j] # "none", j > 1, ~Gone(j - 1)
  PROVE  \E p \in Process : W(f[j - 1]) \in Held(p)
<1> DEFINE p == j - 1
<1>1. p \in Child /\ p \in Process /\ child[p] \notin {"none", "dead"} /\ p < ncmds /\ p \in Nat
  <2>1. j \in 1..ncmds /\ ncmds \in Nat /\ j <= Forked /\ Forked \in 0..ncmds /\ ncmds <= MaxCommands /\ MaxCommands \in Nat
    BY Line DEF Layout, Stages
  <2>2. p \in Child /\ p <= Forked /\ p < ncmds /\ p \in Nat
    BY <2>1 DEF Child
  <2> QED BY <2>2 DEF Gone, Process
<1> HIDE DEF p
<1>2. /\ MaxCommands \in Nat /\ MaxCommands > 0 /\ f[p] # 0
      /\ Place(p) \in {3, 5} /\ Place(p - 1) \in {3, 5} /\ Place(p) # Place(p - 1)
  BY <1>1, Beside
<1>3. ChildTable(f, p) /\ Out(f, p) = W(f[p])
  BY <1>1 DEF Layout, Out
<1>4. W(f[p]) \in Held(p)
  <2>1. Early(p) \/ child[p] = "stdin" \/ Late(p)
    BY <1>1 DEF TypeOK, Early, Late
  <2>2. ASSUME NEW in, NEW out, NEW a, NEW b, fds[p] = Tab(in, out, Place(p), a, Place(p - 1), b),
               out = W(f[p]) \/ a = f[p]
        PROVE  W(f[p]) \in Held(p)
    BY <1>2, <2>2, Entries DEF Held
  <2>3. Early(p) => W(f[p]) \in Held(p)
    BY <1>3, <2>2 DEF ChildTable, Table
  <2>4. child[p] = "stdin" => W(f[p]) \in Held(p)
    BY <1>3, <2>2 DEF ChildTable, Table, Early
  <2>5. Late(p) => W(f[p]) \in Held(p)
    BY <1>3, <2>2 DEF ChildTable, Table, Early, Late
  <2> QED BY <2>1, <2>3, <2>4, <2>5
<1> QED BY <1>1, <1>4 DEF p

\* Somebody holds the reading end of the pipe that a command to come, or one
\* that is not gone, reads from.
LEMMA Reader ==
  ASSUME TypeOK, NEW f, Layout(f), NEW j \in Child, child[j] # "none", j < ncmds, ~Gone(j + 1), pc # "aborted"
  PROVE  \E p \in Process : R(f[j]) \in Held(p)
<1> DEFINE p == j + 1
<1>1. /\ j \in 1..ncmds /\ ncmds \in Nat /\ j <= Forked /\ Forked \in 0..ncmds /\ ncmds <= MaxCommands
      /\ MaxCommands \in Nat /\ MaxCommands > 0 /\ j \in Nat
  BY Line DEF Layout, Stages
<1>2. p \in Child /\ p \in Process /\ p - 1 = j /\ p \in Nat /\ p > 1
  BY <1>1 DEF Child, Process
<1>3. f[j] \in Pipe /\ f[j] # 0
  BY Beside
<1>4. Place(j) \in {3, 5} /\ Place(p) \in {3, 5} /\ Place(p) # Place(j) /\ Place(p - 1) = Place(j)
  BY <1>1, <1>2, Places
<1> HIDE DEF p
<1>5. CASE child[p] = "none"
  <2>1. Forked = j /\ p > Forked
    BY <1>1, <1>2, <1>5 DEF Gone, p
  <2>2. Shell \in Process /\ pc \in {"fork", "parent"}
    BY <1>1, <2>1 DEF Forked, Process
  <2>3. pc = "fork" => i = j
    BY <2>1 DEF Forked
  <2>4. pc = "parent" => i + 1 = j
    BY <2>1 DEF Forked
  <2>5. j \in Uses(Shell) /\ j # 0
    BY <1>1, <2>2, <2>3, <2>4 DEF Uses
  <2>6. CASE pc = "fork"
    <3>1. fds[Shell] = Tab(Keyboard, Screen, Place(j), f[j], Place(p), 0)
      BY <2>3, <2>6, Bare DEF Layout, ShellTable, Table
    <3>2. R(f[j]) \in Held(Shell)
      BY <1>1, <1>3, <1>4, <3>1, Entries DEF Held
    <3> QED BY <2>2, <3>2
  <2>7. CASE pc = "parent"
    <3>1. fds[Shell] = Tab(Keyboard, Screen, Place(j), f[j], Place(j - 1), f[i])
      BY <2>4, <2>7 DEF Layout, ShellTable, Table
    <3>2. Place(j - 1) \in {3, 5} /\ Place(j) # Place(j - 1)
      BY Beside
    <3>3. R(f[j]) \in Held(Shell)
      BY <1>1, <1>3, <1>4, <3>1, <3>2, Entries DEF Held
    <3> QED BY <2>2, <3>3
  <2> QED BY <2>2, <2>6, <2>7
<1>6. CASE child[p] # "none"
  <2>1. Early(p) \/ child[p] = "stdin" \/ Late(p)
    <3>1. child[p] # "dead"
      BY DEF Gone, p
    <3> QED BY <1>2, <1>6, <3>1 DEF TypeOK, Early, Late
  <2>2. ASSUME NEW in, NEW out, NEW a, NEW b, fds[p] = Tab(in, out, Place(p), a, Place(j), b),
               in = R(f[j]) \/ b = f[j]
        PROVE  R(f[j]) \in Held(p)
    BY <1>1, <1>3, <1>4, <2>2, Entries DEF Held
  <2>3. ChildTable(f, p) /\ In(f, p) = R(f[j])
    BY <1>2 DEF Layout, In
  <2>4. Early(p) => R(f[j]) \in Held(p)
    BY <1>2, <1>4, <2>2, <2>3 DEF ChildTable, Table
  <2>5. child[p] = "stdin" => R(f[j]) \in Held(p)
    BY <1>2, <1>4, <2>2, <2>3 DEF ChildTable, Table, Early
  <2>6. Late(p) => R(f[j]) \in Held(p)
    BY <1>2, <1>4, <2>2, <2>3 DEF ChildTable, Table, Early, Late
  <2> QED BY <1>2, <2>1, <2>4, <2>5, <2>6
<1> QED BY <1>5, <1>6

\* A program that ends has printed all it could, or the next one has ended.
LEMMA ExitFlow ==
  ASSUME TypeOK, NEW f, Layout(f), NEW out, Flow(f, out), cmds # << >>, NEW j \in Child, Exit(j)
  PROVE  Flow(f, out)'
<1>1. /\ child[j] = "run" /\ Kill({j}) /\ UNCHANGED <<pc, cmds, i, pipe, tty, screen, interrupted>>
      /\ IF toWrite[j] = << >> THEN toCopy[j] = 0 \/ AtEof(j) ELSE Broken(j)
  BY DEF Exit
<1>2. j \in 1..ncmds /\ Late(j) /\ j \in Nat /\ j > 0 /\ ncmds \in Nat
  BY <1>1, Line DEF Late
<1>3. fds[j][0] = In(f, j) /\ fds[j][1] = Out(f, j)
  BY <1>2, LateEnds
<1> DEFINE s == out[j - 1]
           all == Printed(cmds)[j - 1]
<1>4. /\ out[j] \in Seq(Item) /\ s \in Seq(Item) /\ all \in Seq(Item) /\ toWrite[j] \in Seq(Item) /\ toCopy[j] \in Nat
      /\ IsPrefix(s, all) /\ Printed(cmds)[j] = Fed(cmds, j, all) /\ cmds \in Lines
  BY <1>2, FlowTypes
<1>5. /\ cmds[j] # Missing /\ toCopy[j] <= Copies[cmds[j]] /\ Taken(j) <= Len(s)
      /\ out[j] \o toWrite[j] = Makings(cmds, j) \o SubSeq(s, 1, Taken(j))
      /\ Taken(j) = Copies[cmds[j]] - toCopy[j]
  BY <1>1, <1>2 DEF Flow, Ran, Taken
<1>6. /\ Makings(cmds, j) \in Seq(Item) /\ Copies[cmds[j]] \in Nat
      /\ Fed(cmds, j, all) = Makings(cmds, j) \o SubSeq(all, 1, Smaller(Len(all), Copies[cmds[j]]))
  BY <1>2, <1>4, <1>5, MakingsType DEF ncmds
<1>7. Taken(j) \in 0..Len(s) /\ Taken(j) <= Copies[cmds[j]] /\ Len(s) \in Nat /\ Taken(j) \in Nat
  <2> DEFINE n == Taken(j)
             c == Copies[cmds[j]]
             d == toCopy[j]
             l == Len(s)
  <2>1. n = c - d /\ c \in Nat /\ d \in Nat /\ d <= c /\ n <= l
    BY <1>4, <1>5, <1>6
  <2>2. l \in Nat
    BY <1>4
  <2> HIDE DEF n, c, d, l
  <2>3. n \in 0..l /\ n <= c /\ l \in Nat /\ n \in Nat
    BY <2>1, <2>2
  <2> QED BY <2>3 DEF n, c, d, l
<1>8. (IF j = 1 THEN tty ELSE pipe[f[j - 1]]) = Rest(s, Taken(j))
  BY <1>1, <1>2 DEF Flow, Fills, Reads
<1> HIDE DEF s, all
<1>9. toWrite[j] = << >> /\ (Taken(j) = Copies[cmds[j]] \/ (Taken(j) = Len(s) /\ s = all)) => out[j] = Printed(cmds)[j]
  <2> DEFINE n == Taken(j)
             c == Copies[cmds[j]]
             make == Makings(cmds, j)
  <2>1. /\ n \in 0..Len(s) /\ c \in Nat /\ n <= c /\ make \in Seq(Item)
        /\ out[j] \o toWrite[j] = make \o SubSeq(s, 1, n)
    BY <1>5, <1>6, <1>7
  <2> HIDE DEF n, c, make
  <2>2. Copied(out[j], toWrite[j], make, s, all, n, c)
    BY <1>4, <2>1 DEF Copied
  <2>3. toWrite[j] = << >> /\ (n = c \/ (n = Len(s) /\ s = all)) => out[j] = make \o SubSeq(all, 1, Smaller(Len(all), c))
    <3>1. AllCopied(out[j], toWrite[j], make, s, all, n, c)
      BY <2>2, SoFar
    <3> QED BY <3>1 DEF AllCopied
  <2> QED BY <1>4, <1>6, <2>3 DEF n, c, make
<1>10. Rest(s, Taken(j)) = << >> => Taken(j) = Len(s)
  <2> DEFINE n == Taken(j)
  <2>1. n \in Nat /\ n <= Len(s)
    BY <1>5, <1>7
  <2> HIDE DEF n
  <2>2. Rest(s, n) = << >> => n = Len(s)
    BY <1>4, <2>1, TakeOne
  <2> QED BY <2>2 DEF n
<1>11. CASE Excused
  <2>1. Excused'
    BY <1>1, <1>11 DEF Excused
  <2>2. \A p \in 1..ncmds : Ended(out, p)'
    BY <2>1 DEF Ended
  <2>3. {j} \in SUBSET Process
    BY DEF Process
  <2> QED BY <1>1, <2>2, <2>3, DeathsFlow
<1>12. CASE ~Excused
  <2>1. out[j] = Printed(cmds)[j] \/ (j < ncmds /\ Gone(j + 1))
    <3>1. CASE toWrite[j] = << >> /\ toCopy[j] = 0
      <4>1. Taken(j) = Copies[cmds[j]]
        BY <1>5, <1>6, <3>1
      <4> QED BY <1>9, <3>1, <4>1
    <3>2. CASE toWrite[j] = << >> /\ AtEof(j)
      <4>1. CASE j = 1
        <5>1. tty = << >>
          BY <1>3, <1>12, <3>2, <4>1, EndsDiffer DEF AtEof, In, Excused
        <5>2. Taken(j) = Len(s)
          BY <1>8, <1>10, <4>1, <5>1
        <5>3. s = all
          <6>1. Len(cmds) \in Nat
            BY <1>2 DEF ncmds
          <6> QED BY <4>1, <6>1, PrintedRecursion DEF s, all, Flow
        <5> QED BY <1>9, <3>2, <5>2, <5>3
      <4>2. CASE j # 1
        <5>1. j > 1 /\ In(f, j) = R(f[j - 1]) /\ j - 1 \in 1..ncmds /\ (j - 1) + 1 = j
          BY <1>2, <4>2 DEF In
        <5>2. pipe[f[j - 1]] = << >> /\ \A p \in Process : W(f[j - 1]) \notin Held(p)
          BY <1>3, <3>2, <5>1, EndsDiffer DEF AtEof
        <5>3. Gone(j - 1)
          BY <1>1, <5>1, <5>2, Writer
        <5>4. Taken(j) = Len(s)
          BY <1>8, <1>10, <4>2, <5>2
        <5>5. s = all
          <6>1. Ended(out, j - 1) /\ ~Gone(j)
            BY <1>1, <5>1 DEF Flow, Gone
          <6> QED BY <1>12, <5>1, <5>3, <6>1 DEF Ended, s, all
        <5> QED BY <1>9, <3>2, <5>4, <5>5
      <4> QED BY <4>1, <4>2
    <3>3. CASE Broken(j)
      <4>1. j < ncmds /\ \A p \in Process : R(f[j]) \notin Held(p)
        BY <1>3, <3>3, EndsDiffer DEF Broken, Out
      <4>2. Gone(j + 1)
        BY <1>1, <1>12, <4>1, Reader DEF Excused
      <4> QED BY <4>1, <4>2
    <3> QED BY <1>1, <3>1, <3>2, <3>3
  <2>2. Ended(out, j)'
    <3>1. ncmds' = ncmds /\ Forked' = Forked
      BY <1>1 DEF ncmds, Forked
    <3>2. j < ncmds => j + 1 \in Child
      BY <1>2, Line DEF Child
    <3>3. j < ncmds /\ Gone(j + 1) => Gone(j + 1)'
      BY <1>1, <3>1, <3>2 DEF Gone, Kill
    <3> QED BY <1>1, <2>1, <3>1, <3>3 DEF Ended
  <2>3. {j} \in SUBSET Process /\ \A p \in 1..ncmds : p \in {j} => p = j
    BY DEF Process
  <2> QED BY <1>1, <2>2, <2>3, DeathsFlow
<1> QED BY <1>11, <1>12

LEMMA ExecFlow ==
  ASSUME TypeOK, NEW f, Layout(f), NEW out, Flow(f, out), cmds # << >>, NEW j \in Child, Exec(j)
  PROVE  Flow(f, out)'
<1>1. CASE cmds[j] # Missing
  BY <1>1, RunFlow
<1>2. CASE cmds[j] = Missing
  <2>1. /\ child[j] = "exec" /\ Kill({j}) /\ UNCHANGED <<pc, cmds, i, pipe, tty, screen, interrupted>>
    BY <1>2 DEF Exec
  <2>2. j \in 1..ncmds
    BY <2>1, Line
  <2>3. out[j] = << >>
    BY <2>1, <2>2 DEF Flow, Idle, Gone
  <2>4. Printed(cmds)[j] = << >>
    <3>1. Printed(cmds)[j] = Fed(cmds, j, Printed(cmds)[j - 1])
      BY <2>2, FlowTypes
    <3> QED BY <1>2, <3>1 DEF Fed
  <2>5. Ended(out, j)'
    BY <2>1, <2>3, <2>4 DEF Ended
  <2>6. {j} \in SUBSET Process /\ \A p \in 1..ncmds : p \in {j} => p = j
    BY DEF Process
  <2> QED BY <2>1, <2>5, <2>6, DeathsFlow
<1> QED BY <1>1, <1>2

\* A pipe has one command that reads from it.
LEMMA OneReader ==
  ASSUME TypeOK, NEW f, Layout(f), NEW m \in 1..ncmds, m > 1, Reads(m),
         NEW q \in Process, NEW n \in Uses(q), n # 0, f[m - 1] = f[n]
  PROVE  m - 1 = n
<1>1. ncmds \in Nat /\ m \in Child /\ m \in Process /\ m # Shell /\ i \in Nat /\ m \in Nat /\ m - 1 # 0 /\ Shell \in Process
  BY Line DEF Child, Process, Shell
<1>2. \E p \in Process : m - 1 \in Uses(p)
  <2>1. CASE child[m] = "none"
    <3>1. pc \in {"fork", "parent"} /\ m = Forked + 1
      BY <2>1 DEF Reads
    <3>2. pc = "fork" => m - 1 = i
      BY <1>1, <3>1 DEF Forked
    <3>3. pc = "parent" => m - 1 = i + 1
      BY <1>1, <3>1 DEF Forked
    <3>4. m - 1 \in Uses(Shell)
      BY <3>1, <3>2, <3>3 DEF Uses
    <3> QED BY <1>1, <3>4
  <2>2. CASE child[m] # "none"
    <3>1. m - 1 \in Uses(m)
      BY <1>1, <2>2 DEF Reads, Uses
    <3> QED BY <1>1, <3>1
  <2> QED BY <2>1, <2>2
<1>3. PICK p \in Process : m - 1 \in Uses(p)
  BY <1>2
<1>4. Distinct(f)
  BY DEF Layout
<1>5. \A k \in Uses(p) \ {0}, l \in Uses(q) \ {0} : f[k] = f[l] => k = l
  BY <1>4 DEF Distinct
<1> QED BY <1>1, <1>3, <1>5

LEMMA ForkFlow ==
  ASSUME TypeOK, NEW f, Layout(f), NEW out, Flow(f, out), cmds # << >>, Fork,
         NEW g, Layout(g)', g[i + 1] \in Unused, pipe' = [pipe EXCEPT ![g[i + 1]] = << >>],
         \A m \in 0..MaxCommands : m # i + 1 => g[m] = f[m]
  PROVE  Flow(g, out)'
<1>1. /\ pc = "fork" /\ pc' = "parent" /\ i < ncmds /\ child' = [child EXCEPT ![i + 1] = "born"]
      /\ UNCHANGED <<cmds, i, toWrite, toCopy, tty, screen, interrupted>>
  BY DEF Fork
<1>2. /\ ncmds' = ncmds /\ ncmds \in Nat /\ ncmds <= MaxCommands /\ MaxCommands \in Nat /\ i \in Nat
      /\ Forked = i /\ Forked' = i + 1
  BY <1>1, Line DEF Forked, ncmds
<1>3. i + 1 \in Child /\ i + 1 \in 1..ncmds
  BY <1>1, <1>2 DEF Child
<1>4. child[i + 1] = "none"
  BY <1>2, <1>3 DEF Layout, Stages
<1>5. child'[i + 1] = "born" /\ \A p \in Child : p # i + 1 => child'[p] = child[p]
  BY <1>1, <1>3 DEF TypeOK
<1>6. \A p \in 1..ncmds : p \in Child /\ p \in Nat
  BY <1>2 DEF Child
<1>7. \A p \in 1..ncmds : child[p] # "none" => p <= i
  BY <1>2, <1>6 DEF Layout, Stages
<1>8. \A p \in 1..ncmds : p <= i => child[p] # "none"
  BY <1>1, <1>2 DEF Layout, Stages
<1>9. ASSUME NEW p \in 1..ncmds
      PROVE  /\ Gone(p) <=> Gone(p)'
             /\ child'[p] = "run" <=> child[p] = "run"
             /\ Taken(p)' = Taken(p)
             /\ Reads(p)' => Reads(p) \/ p = i + 2
  <2>1. CASE p = i + 1
    BY <1>1, <1>2, <1>4, <1>5, <2>1 DEF Gone, Taken, Reads
  <2>2. CASE p # i + 1
    BY <1>1, <1>2, <1>5, <1>6, <1>7, <1>8, <2>2 DEF Gone, Taken, Reads
  <2> QED BY <2>1, <2>2
<1>10. pipe \in [Pipe -> Seq(Item)] /\ g[i + 1] \in Pipe
  BY DEF TypeOK, Unused
<1>11. ASSUME NEW p \in 1..ncmds PROVE Fills(g, out, p)'
  <2>1. CASE p = i + 2
    <3>1. p # 1 /\ p - 1 = i + 1
      BY <1>2, <2>1
    <3>2. pipe'[g[p - 1]] = << >>
      BY <1>10, <3>1
    <3>3. out[p - 1] = << >>
      <4>1. Idle(out, i + 1)
        BY <1>3 DEF Flow
      <4>2. ~Gone(i + 1) /\ child[i + 1] # "run"
        BY <1>2, <1>4 DEF Gone
      <4> QED BY <3>1, <4>1, <4>2 DEF Idle
    <3>4. Taken(p)' = 0
      BY <1>2, <1>5, <1>6, <1>7, <2>1 DEF Taken
    <3>5. Rest(<< >>, 0) = << >>
      BY EmptySeq, SubSeqEmpty DEF Rest
    <3> QED BY <3>1, <3>2, <3>3, <3>4, <3>5 DEF Fills, Rest
  <2>2. CASE p # i + 2
    <3>1. SUFFICES ASSUME Reads(p)'
                   PROVE  (IF p = 1 THEN tty' ELSE pipe'[g[p - 1]]) = Rest(out[p - 1], Taken(p)')
      BY DEF Fills, Rest
    <3>2. Reads(p) /\ Taken(p)' = Taken(p)
      BY <1>9, <2>2, <3>1
    <3>3. (IF p = 1 THEN tty ELSE pipe[f[p - 1]]) = Rest(out[p - 1], Taken(p))
      BY <3>2 DEF Flow, Fills
    <3>4. CASE p = 1
      BY <1>1, <3>2, <3>3, <3>4
    <3>5. CASE p # 1
      <4>1. p - 1 \in 0..MaxCommands /\ p - 1 # i + 1 /\ p - 1 \in Child
        BY <1>2, <2>2, <3>5 DEF Child
      <4>2. g[p - 1] = f[p - 1] /\ f[p - 1] \in Pipe
        BY <4>1 DEF Layout, Numbering
      <4>3. f[p - 1] # g[i + 1]
        <5>1. \E q \in Process : R(f[p - 1]) \in Held(q) \/ W(f[p - 1]) \in Held(q)
          <6>1. CASE child[p] = "none"
            <7>1. p - 1 = i
              BY <1>1, <1>2, <3>2, <6>1 DEF Reads
            <7>2. Shell \in Process /\ p - 1 \in Uses(Shell) /\ p - 1 # 0
              BY <1>1, <3>5, <7>1, <1>6 DEF Uses, Process
            <7> QED BY <7>2, UsesHeld
          <6>2. CASE child[p] # "none"
            <7>1. p \in Process /\ p - 1 \in Uses(p) /\ p - 1 # 0
              <8>1. p \in Child /\ p # Shell /\ child[p] # "dead"
                BY <1>6, <3>2, <6>2, Constants DEF Reads
              <8> QED BY <3>5, <6>2, <8>1, <1>6 DEF Uses, Process
            <7> QED BY <7>1, UsesHeld
          <6> QED BY <6>1, <6>2
        <5> QED BY <4>2, <5>1 DEF Unused
      <4>4. pipe'[g[p - 1]] = pipe[f[p - 1]]
        BY <1>10, <4>2, <4>3
      <4> QED BY <3>2, <3>3, <3>5, <4>4
    <3> QED BY <3>4, <3>5
  <2> QED BY <2>1, <2>2
<1>12. Excused => Excused'
  BY <1>1 DEF Excused
<1> QED BY <1>1, <1>9, <1>11, <1>12, Quiet

\* A line starts: nothing is printed and the terminal has all its items.
LEMMA ReadLineFlow ==
  ASSUME TypeOK, NEW f, Layout(f), ReadLine
  PROVE  \E out : Flow(f, out)'
<1>1. /\ pc = "prompt" /\ cmds' \in Lines /\ pc' = "fork" /\ i' = 0 /\ tty' = Typed /\ screen' = << >>
      /\ UNCHANGED <<child, pipe>>
  BY DEF ReadLine
<1> DEFINE none == [m \in 0..MaxCommands |-> IF m = 0 THEN Typed ELSE << >>]
<1>2. /\ ncmds' = Len(cmds') /\ ncmds' \in Nat /\ ncmds' > 0 /\ ncmds' <= MaxCommands /\ MaxCommands \in Nat
      /\ Forked' = 0
  BY <1>1, Constants DEF ncmds, Forked
<1>3. \A p \in 1..ncmds' : p \in Child /\ p \in Nat /\ p > 0 /\ p - 1 \in 0..MaxCommands /\ p \in 0..MaxCommands
  BY <1>2 DEF Child
<1>4. \A p \in Child : child[p] = "none" /\ child'[p] = "none"
  BY <1>1 DEF Layout, Stages
<1>5. none \in [0..MaxCommands -> Seq(Item)] /\ none[0] = Typed /\ \A p \in 1..ncmds' : none[p] = << >>
  <2>1. << >> \in Seq(Item) /\ Typed \in Seq(Item)
    BY EmptySeq, TypedType
  <2>2. 0 \in 0..MaxCommands
    BY <1>2
  <2> QED BY <1>3, <2>1, <2>2
<1> HIDE DEF none
<1>6. ASSUME NEW p \in 1..ncmds'
      PROVE  Ran(none, p)' /\ Idle(none, p)' /\ Fills(f, none, p)' /\ Ended(none, p)' /\ IsPrefix(none[p], Printed(cmds')[p])
  <2>1. child'[p] = "none" /\ ~Gone(p)' /\ Taken(p)' = 0
    BY <1>2, <1>3, <1>4 DEF Gone, Taken
  <2>2. Reads(p)' => p = 1
    BY <1>2, <2>1 DEF Reads
  <2>3. Rest(Typed, 0) = Typed
    BY TypedType, SubSeqFull DEF Rest
  <2>4. Fills(f, none, p)'
    BY <1>1, <1>5, <2>1, <2>2, <2>3 DEF Fills, Rest
  <2>5. IsPrefix(none[p], Printed(cmds')[p])
    <3>1. Printed(cmds')[p] \in Seq(Item)
      BY <1>1, <1>2, PrintedType
    <3>2. Len(<< >>) = 0 /\ Len(Printed(cmds')[p]) \in Nat /\ SubSeq(<< >>, 1, 0) = << >>
          /\ SubSeq(Printed(cmds')[p], 1, 0) = << >>
      BY <3>1, EmptySeq, SubSeqEmpty
    <3> QED BY <1>5, <3>2 DEF IsPrefix
  <2> QED BY <1>5, <2>1, <2>4, <2>5 DEF Ran, Idle, Ended
<1>7. screen' = none[ncmds']
  BY <1>1, <1>2, <1>5
<1> QED BY <1>5, <1>6, <1>7 DEF Flow

\* An item more from command j, in the next one's input or on the screen.
LEMMA WriteFlow ==
  ASSUME TypeOK, NEW f, Layout(f), NEW out, Flow(f, out), cmds # << >>, NEW j \in Child, Write(j)
  PROVE  \E new : Flow(f, new)'
<1>1. /\ child[j] = "run" /\ toWrite[j] # << >> /\ toWrite' = [toWrite EXCEPT ![j] = Tail(@)]
      /\ UNCHANGED <<pc, cmds, i, child, toCopy, tty, interrupted>>
      /\ ncmds' = ncmds /\ Forked' = Forked
  BY DEF Write, ncmds, Forked
<1>2. j \in 1..ncmds /\ Late(j) /\ j \in Process /\ j # 0 /\ ncmds \in Nat /\ ncmds <= MaxCommands /\ MaxCommands \in Nat
  BY <1>1, Line, Constants DEF Late, Process
<1>3. /\ out[j] \in Seq(Item) /\ out[j - 1] \in Seq(Item) /\ toWrite[j] \in Seq(Item) /\ cmds \in Lines
      /\ Printed(cmds)[j - 1] \in Seq(Item) /\ IsPrefix(out[j - 1], Printed(cmds)[j - 1])
      /\ Printed(cmds)[j] = Fed(cmds, j, Printed(cmds)[j - 1])
  BY <1>2, FlowTypes
<1>4. PICK item \in Item : item = Head(toWrite[j]) /\ Tail(toWrite[j]) \in Seq(Item)
  BY <1>1, <1>3
<1>5. Append(out[j], item) \in Seq(Item) /\ Append(out[j], item) \o Tail(toWrite[j]) = out[j] \o toWrite[j]
  <2>1. Append(out[j], Head(toWrite[j])) \o Tail(toWrite[j]) = out[j] \o toWrite[j]
    BY <1>1, <1>3, PassOne
  <2>2. Append(out[j], item) \in Seq(Item)
    BY <1>3, <1>4
  <2> QED BY <1>4, <2>1, <2>2
<1>6. PICK new : /\ new \in [0..MaxCommands -> Seq(Item)] /\ new[0] = Typed /\ new[j] = Append(out[j], item)
                 /\ \A p \in 0..MaxCommands : p # j => new[p] = out[p]
  <2> DEFINE z == [out EXCEPT ![j] = Append(out[j], item)]
  <2>1. /\ z \in [0..MaxCommands -> Seq(Item)] /\ z[0] = Typed /\ z[j] = Append(out[j], item)
        /\ \A p \in 0..MaxCommands : p # j => z[p] = out[p]
    BY <1>2, <1>5 DEF Flow
  <2> QED BY <2>1
<1>7. toWrite'[j] = Tail(toWrite[j]) /\ \A p \in Child : p # j => toWrite'[p] = toWrite[p]
  BY <1>1 DEF TypeOK
<1>8. \A p \in 1..ncmds : p \in Child /\ p \in 0..MaxCommands /\ p - 1 \in 0..MaxCommands /\ p \in Nat
  BY <1>2 DEF Child
<1>9. \A p \in 1..ncmds : (Gone(p) <=> Gone(p)') /\ (Reads(p) <=> Reads(p)') /\ Taken(p)' = Taken(p)
  BY <1>1 DEF Gone, Reads, Taken
<1>10. fds[j][1] = Out(f, j) /\ pipe \in [Pipe -> Seq(Item)] /\ f[j] \in Pipe
  <2>1. fds[j][1] = Out(f, j)
    BY <1>2, LateEnds
  <2>2. f[j] \in Pipe
    BY <1>1, Beside
  <2> QED BY <2>1, <2>2 DEF TypeOK
<1>11. /\ j = ncmds => screen' = Append(screen, item) /\ pipe' = pipe
       /\ j < ncmds => screen' = screen /\ pipe' = [pipe EXCEPT ![f[j]] = Append(@, item)]
  <2>1. CASE fds[j][1] = Screen /\ screen' = Append(screen, item) /\ UNCHANGED pipe
    <3>1. ~(j < ncmds)
      BY <1>10, <2>1, EndsDiffer DEF Out
    <3> QED BY <2>1, <3>1
  <2>2. ASSUME NEW k \in Pipe, fds[j][1] = W(k), pipe' = [pipe EXCEPT ![k] = Append(@, item)], UNCHANGED screen
        PROVE  j < ncmds /\ k = f[j]
    BY <1>10, <2>2, EndsDiffer DEF Out
  <2>3. \/ fds[j][1] = Screen /\ screen' = Append(screen, item) /\ UNCHANGED pipe
        \/ \E k \in Pipe : fds[j][1] = W(k) /\ pipe' = [pipe EXCEPT ![k] = Append(@, item)] /\ UNCHANGED screen
    BY <1>4 DEF Write
  <2>4. j = ncmds => ~(j < ncmds)
    BY <1>2
  <2> QED BY <2>1, <2>2, <2>3, <2>4
<1>12. Ran(out, j) /\ child[j] = "run"
  BY <1>1, <1>2 DEF Flow
<1>13. /\ cmds[j] # Missing /\ toCopy[j] <= Copies[cmds[j]] /\ Taken(j) <= Len(out[j - 1])
       /\ new[j] \o toWrite'[j] = Makings(cmds, j) \o SubSeq(out[j - 1], 1, Taken(j))
       /\ new[j - 1] = out[j - 1]
  <2>1. /\ cmds[j] # Missing /\ toCopy[j] <= Copies[cmds[j]] /\ Taken(j) <= Len(out[j - 1])
        /\ out[j] \o toWrite[j] = Makings(cmds, j) \o SubSeq(out[j - 1], 1, Taken(j))
    BY <1>12 DEF Ran
  <2>2. new[j] \o toWrite'[j] = out[j] \o toWrite[j]
    BY <1>5, <1>6, <1>7
  <2>3. j - 1 \in 0..MaxCommands /\ j - 1 # j
    BY <1>2, <1>8
  <2>4. new[j - 1] = out[j - 1]
    BY <1>6, <2>3
  <2> QED BY <2>1, <2>2, <2>4
<1>14. Ran(new, j)'
  <2>1. Makings(cmds, j)' = Makings(cmds, j) /\ Taken(j)' = Taken(j)
    BY <1>1, <1>2, <1>9 DEF Makings
  <2> QED BY <1>1, <1>13, <2>1 DEF Ran
<1>15. IsPrefix(new[j], Printed(cmds)[j])
  <2> DEFINE n == Taken(j)
             c == Copies[cmds[j]]
             make == Makings(cmds, j)
             s == out[j - 1]
             all == Printed(cmds)[j - 1]
  <2>1. make \in Seq(Item) /\ c \in Nat /\ Fed(cmds, j, all) = make \o SubSeq(all, 1, Smaller(Len(all), c))
    BY <1>2, <1>3, <1>13, MakingsType DEF ncmds
  <2>2. n \in 0..Len(s) /\ n <= c
    <3>1. toCopy[j] \in Nat /\ Len(s) \in Nat
      BY <1>2, <1>3 DEF TypeOK
    <3> QED BY <1>12, <1>13, <2>1, <3>1 DEF Taken
  <2>3. Copied(new[j], toWrite'[j], make, s, all, n, c)
    <3>1. new[j] \in Seq(Item) /\ toWrite'[j] \in Seq(Item) /\ s \in Seq(Item) /\ all \in Seq(Item) /\ IsPrefix(s, all)
      BY <1>3, <1>4, <1>5, <1>6, <1>7
    <3> QED BY <1>13, <2>1, <2>2, <3>1 DEF Copied
  <2> HIDE DEF n, c, make, s
  <2>4. IsPrefix(new[j], make \o SubSeq(all, 1, Smaller(Len(all), c)))
    BY <2>3, SoFar
  <2> QED BY <1>3, <2>1, <2>4
<1>16. ASSUME NEW p \in 1..ncmds, p # j PROVE Ran(new, p)'
  <2>1. SUFFICES ASSUME child[p] = "run" PROVE Ran(new, p)'
    BY <1>1 DEF Ran
  <2>2. /\ cmds[p] # Missing /\ toCopy[p] <= Copies[cmds[p]] /\ Taken(p) <= Len(out[p - 1])
        /\ out[p] \o toWrite[p] = Makings(cmds, p) \o SubSeq(out[p - 1], 1, Taken(p))
    BY <2>1 DEF Flow, Ran
  <2>3. new[p] = out[p] /\ toWrite'[p] = toWrite[p] /\ Taken(p)' = Taken(p)
    BY <1>6, <1>7, <1>8, <1>9, <1>16
  <2>4. Makings(cmds, p)' = Makings(cmds, p)
    BY <1>1 DEF Makings
  <2>5. Taken(p) <= Len(new[p - 1]) /\ SubSeq(new[p - 1], 1, Taken(p)) = SubSeq(out[p - 1], 1, Taken(p))
    <3>1. CASE p - 1 = j
      <4>1. Taken(p) \in 0..Len(out[j])
        <5>1. toCopy[p] \in Nat /\ Copies[cmds[p]] \in Nat /\ Len(out[j]) \in Nat
          <6>1. toCopy[p] \in Nat /\ Len(out[j]) \in Nat
            BY <1>3, <1>8 DEF TypeOK
          <6>2. Copies[cmds[p]] \in Nat
            BY <1>3, <2>2, MakingsType DEF ncmds
          <6> QED BY <6>1, <6>2
        <5> QED BY <2>1, <2>2, <3>1, <5>1 DEF Taken
      <4>2. Len(Append(out[j], item)) = Len(out[j]) + 1 /\ SubSeq(Append(out[j], item), 1, Taken(p)) = SubSeq(out[j], 1, Taken(p))
        BY <1>3, <1>4, <4>1, GiveOne
      <4>3. Len(out[j]) \in Nat
        BY <1>3
      <4>4. new[p - 1] = Append(out[j], item) /\ out[p - 1] = out[j]
        BY <1>6, <3>1
      <4>5. Taken(p) <= Len(Append(out[j], item))
        BY <4>1, <4>2, <4>3
      <4> QED BY <4>2, <4>4, <4>5
    <3>2. CASE p - 1 # j
      <4>1. new[p - 1] = out[p - 1]
        BY <1>6, <1>8, <3>2
      <4> QED BY <2>2, <4>1
    <3> QED BY <3>1, <3>2
  <2> QED BY <1>1, <2>2, <2>3, <2>4, <2>5 DEF Ran
<1>17. ASSUME NEW p \in 1..ncmds PROVE Fills(f, new, p)'
  <2>1. SUFFICES ASSUME Reads(p)
                 PROVE  (IF p = 1 THEN tty' ELSE pipe'[f[p - 1]]) = Rest(new[p - 1], Taken(p))
    BY <1>9 DEF Fills, Rest
  <2>2. (IF p = 1 THEN tty ELSE pipe[f[p - 1]]) = Rest(out[p - 1], Taken(p))
    BY <2>1 DEF Flow, Fills
  <2>3. CASE p = 1
    <3>1. new[p - 1] = out[p - 1]
      BY <1>2, <1>6, <1>8, <2>3
    <3> QED BY <1>1, <2>2, <2>3, <3>1
  <2>4. CASE p - 1 = j
    <3>1. p # 1 /\ j < ncmds
      BY <1>2, <1>8, <2>4
    <3>2. pipe'[f[j]] = Append(pipe[f[j]], item)
      BY <1>10, <1>11, <3>1
    <3>3. Taken(p) \in 0..Len(out[j])
      <4>1. child[p] # "run" => Taken(p) = 0
        BY DEF Taken
      <4>2. Len(out[j]) \in Nat
        BY <1>3
      <4>3. child[p] = "run" => Taken(p) <= Len(out[j]) /\ Taken(p) \in Nat
        <5>1. SUFFICES ASSUME child[p] = "run" PROVE Taken(p) <= Len(out[j]) /\ Taken(p) \in Nat
          OBVIOUS
        <5>2. cmds[p] # Missing /\ toCopy[p] <= Copies[cmds[p]] /\ Taken(p) <= Len(out[j])
          BY <2>4, <5>1 DEF Flow, Ran
        <5>3. toCopy[p] \in Nat /\ Copies[cmds[p]] \in Nat
          BY <1>3, <1>8, <5>2, MakingsType DEF TypeOK, ncmds
        <5> QED BY <5>1, <5>2, <5>3 DEF Taken
      <4> QED BY <4>1, <4>2, <4>3
    <3>4. Rest(Append(out[j], item), Taken(p)) = Append(Rest(out[j], Taken(p)), item)
      BY <1>3, <1>4, <3>3, GiveOne
    <3> QED BY <1>6, <2>2, <2>4, <3>1, <3>2, <3>4
  <2>5. CASE p # 1 /\ p - 1 # j
    <3>1. new[p - 1] = out[p - 1]
      BY <1>6, <1>8, <2>5
    <3>2. f[p - 1] # f[j]
      <4>1. j \in Uses(j)
        BY <1>1, <1>2, Constants DEF Uses, Shell
      <4>2. p > 1
        BY <1>8, <2>5
      <4> QED BY <1>2, <2>1, <2>5, <4>1, <4>2, OneReader
    <3>3. pipe'[f[p - 1]] = pipe[f[p - 1]]
      <4>1. p - 1 \in Child
        BY <1>2, <1>8, <2>5 DEF Child
      <4>2. f[p - 1] \in Pipe
        BY <4>1 DEF Layout, Numbering
      <4>3. j = ncmds \/ j < ncmds
        BY <1>2
      <4> QED BY <1>10, <1>11, <3>2, <4>2, <4>3
    <3> QED BY <2>2, <2>5, <3>1, <3>3
  <2> QED BY <2>3, <2>4, <2>5
<1>18. ASSUME NEW p \in 1..ncmds PROVE Idle(new, p)' /\ Ended(new, p)' /\ IsPrefix(new[p], Printed(cmds)[p])
  <2>1. CASE p = j
    <3>1. ~Gone(p)' /\ child'[p] = "run"
      BY <1>1, <1>9, <2>1 DEF Gone
    <3> QED BY <1>15, <2>1, <3>1 DEF Idle, Ended
  <2>2. CASE p # j
    <3>1. new[p] = out[p]
      BY <1>6, <1>8, <2>2
    <3>2. Idle(out, p) /\ Ended(out, p) /\ IsPrefix(out[p], Printed(cmds)[p])
      BY DEF Flow
    <3>3. Idle(new, p)'
      BY <1>1, <1>9, <3>1, <3>2 DEF Idle
    <3>4. p < ncmds => (Gone(p + 1) => Gone(p + 1)')
      <4>1. p < ncmds => p + 1 \in 1..ncmds
        BY <1>2
      <4> QED BY <1>9, <4>1
    <3>5. Ended(new, p)'
      BY <1>1, <1>9, <3>1, <3>2, <3>4 DEF Ended, Excused
    <3> QED BY <3>1, <3>2, <3>3, <3>5
  <2> QED BY <2>1, <2>2
<1>19. screen' = new[ncmds]
  <2>1. screen = out[ncmds] /\ ncmds \in 0..MaxCommands /\ (j # ncmds => j < ncmds)
    BY <1>2 DEF Flow
  <2> QED BY <1>6, <1>11, <2>1
<1>20. \A p \in 1..ncmds' : /\ Ran(new, p)' /\ Idle(new, p)' /\ Fills(f, new, p)' /\ Ended(new, p)'
                            /\ IsPrefix(new[p], Printed(cmds')[p])
  BY <1>1, <1>14, <1>16, <1>17, <1>18
<1>21. Flow(f, new)'
  BY <1>1, <1>6, <1>19, <1>20 DEF Flow
<1> QED BY <1>21

\* Command j takes one item more of what the one before has printed.
LEMMA ReadFlow ==
  ASSUME TypeOK, NEW f, Layout(f), NEW out, Flow(f, out), cmds # << >>, NEW j \in Child, Read(j)
  PROVE  Flow(f, out)'
<1>1. /\ child[j] = "run" /\ toWrite[j] = << >> /\ toCopy[j] > 0 /\ toCopy' = [toCopy EXCEPT ![j] = @ - 1]
      /\ UNCHANGED <<pc, cmds, i, child, screen, interrupted>>
      /\ ncmds' = ncmds /\ Forked' = Forked
  BY DEF Read, ncmds, Forked
<1>2. j \in 1..ncmds /\ Late(j) /\ j \in Process /\ j # 0 /\ j \in Nat /\ ncmds \in Nat /\ ncmds <= MaxCommands /\ MaxCommands \in Nat
  BY <1>1, Line, Constants DEF Late, Process
<1>3. /\ out[j] \in Seq(Item) /\ out[j - 1] \in Seq(Item) /\ toCopy[j] \in Nat /\ cmds \in Lines
      /\ Len(out[j - 1]) \in Nat
  BY <1>2, FlowTypes
<1>4. /\ cmds[j] # Missing /\ toCopy[j] <= Copies[cmds[j]] /\ Taken(j) <= Len(out[j - 1])
      /\ out[j] \o << >> = Makings(cmds, j) \o SubSeq(out[j - 1], 1, Taken(j))
      /\ Taken(j) = Copies[cmds[j]] - toCopy[j]
  BY <1>1, <1>2 DEF Flow, Ran, Taken
<1>5. Makings(cmds, j) \in Seq(Item) /\ Copies[cmds[j]] \in Nat
  BY <1>2, <1>3, <1>4, MakingsType DEF ncmds
<1>6. PICK n \in Nat : n = Taken(j) /\ n <= Len(out[j - 1])
  BY <1>3, <1>4, <1>5
<1>7. PICK s \in Seq(Item) : s = out[j - 1]
  BY <1>3
<1>8. (IF j = 1 THEN tty ELSE pipe[f[j - 1]]) = Rest(s, n)
  BY <1>1, <1>2, <1>6, <1>7 DEF Flow, Fills, Reads
<1>9. fds[j][0] = In(f, j) /\ pipe \in [Pipe -> Seq(Item)] /\ (j > 1 => f[j - 1] \in Pipe)
  <2>1. fds[j][0] = In(f, j)
    BY <1>2, LateEnds
  <2>2. j > 1 => f[j - 1] \in Pipe
    BY <1>1, Beside
  <2> QED BY <2>1, <2>2 DEF TypeOK
\* What it reads comes from where command j - 1 writes.
<1>10. /\ j = 1 => tty # << >> /\ tty' = Tail(tty) /\ pipe' = pipe
       /\ j > 1 => pipe[f[j - 1]] # << >> /\ pipe' = [pipe EXCEPT ![f[j - 1]] = Tail(@)] /\ tty' = tty
       /\ toWrite' = [toWrite EXCEPT ![j] = <<Head(Rest(s, n))>>]
  <2>1. CASE /\ fds[j][0] = Keyboard /\ tty # << >> /\ tty' = Tail(tty) /\ UNCHANGED pipe
             /\ toWrite' = [toWrite EXCEPT ![j] = <<Head(tty)>>]
    <3>1. j = 1
      BY <1>2, <1>9, <2>1, EndsDiffer DEF In
    <3> QED BY <1>8, <2>1, <3>1
  <2>2. ASSUME NEW k \in Pipe, fds[j][0] = R(k), pipe[k] # << >>, pipe' = [pipe EXCEPT ![k] = Tail(@)], UNCHANGED tty,
               toWrite' = [toWrite EXCEPT ![j] = <<Head(pipe[k])>>]
        PROVE  /\ j # 1 /\ k = f[j - 1]
               /\ toWrite' = [toWrite EXCEPT ![j] = <<Head(Rest(s, n))>>]
    <3>1. j > 1 /\ k = f[j - 1]
      BY <1>9, <2>2, EndsDiffer DEF In
    <3>2. j # 1
      BY <1>2, <3>1
    <3> QED BY <1>8, <2>2, <3>1, <3>2
  <2>3. ~(j = 1 /\ j > 1)
    OBVIOUS
  <2>4. CASE \E k \in Pipe : /\ fds[j][0] = R(k) /\ pipe[k] # << >> /\ pipe' = [pipe EXCEPT ![k] = Tail(@)]
                             /\ toWrite' = [toWrite EXCEPT ![j] = <<Head(pipe[k])>>] /\ UNCHANGED tty
    BY <2>2, <2>4
  <2> QED BY <2>1, <2>4 DEF Read
<1>11. Rest(s, n) # << >>
  <2>1. j = 1 \/ j > 1
    BY <1>2
  <2> QED BY <1>8, <1>10, <2>1
<1>12. /\ n < Len(s) /\ s[n + 1] \in Item /\ Head(Rest(s, n)) = s[n + 1] /\ Tail(Rest(s, n)) = Rest(s, n + 1)
       /\ SubSeq(s, 1, n + 1) = SubSeq(s, 1, n) \o <<s[n + 1]>>
  BY <1>6, <1>7, <1>11, TakeOne
<1>13. /\ toWrite'[j] = <<s[n + 1]>> /\ \A p \in Child : p # j => toWrite'[p] = toWrite[p] /\ toCopy'[p] = toCopy[p]
       /\ toCopy'[j] = toCopy[j] - 1
  BY <1>1, <1>10, <1>12 DEF TypeOK
<1>14. Taken(j)' = n + 1
  BY <1>1, <1>3, <1>4, <1>5, <1>6, <1>13 DEF Taken
<1>15. Ran(out, j)'
  <2>1. out[j] \o <<s[n + 1]>> = Makings(cmds, j) \o SubSeq(s, 1, n + 1)
    <3>1. SubSeq(s, 1, n) \in Seq(Item) /\ <<s[n + 1]>> \in Seq(Item)
      <4>1. n \in 0..Len(s)
        BY <1>3, <1>7, <1>12
      <4> QED BY <1>12, <4>1, Parts
    <3>2. out[j] = Makings(cmds, j) \o SubSeq(s, 1, n)
      <4>1. out[j] \o << >> = out[j]
        BY <1>3, ConcatEmptySeq
      <4> QED BY <1>4, <1>6, <1>7, <4>1
    <3>3. (Makings(cmds, j) \o SubSeq(s, 1, n)) \o <<s[n + 1]>> = Makings(cmds, j) \o (SubSeq(s, 1, n) \o <<s[n + 1]>>)
      <4> DEFINE x == SubSeq(s, 1, n)
                 y == <<s[n + 1]>>
                 z == Makings(cmds, j)
      <4>1. x \in Seq(Item) /\ y \in Seq(Item) /\ z \in Seq(Item)
        BY <1>5, <3>1
      <4> HIDE DEF x, y, z
      <4>2. (z \o x) \o y = z \o (x \o y)
        BY <4>1, ConcatAssociative
      <4> QED BY <4>2 DEF x, y, z
    <3> QED BY <1>12, <3>2, <3>3
  <2>2. Makings(cmds, j)' = Makings(cmds, j)
    BY <1>1 DEF Makings
  <2>3. toCopy'[j] <= Copies[cmds[j]] /\ n + 1 <= Len(out[j - 1])
    BY <1>3, <1>4, <1>5, <1>7, <1>12, <1>13
  <2>4. out[j] \o toWrite'[j] = Makings(cmds, j) \o SubSeq(out[j - 1], 1, n + 1)
    BY <1>7, <1>13, <2>1
  <2> QED BY <1>1, <1>4, <1>14, <2>2, <2>3, <2>4 DEF Ran
<1>16. \A p \in 1..ncmds : p \in Child /\ p \in Nat
  BY <1>2 DEF Child
<1>17. \A p \in 1..ncmds : /\ (Gone(p) <=> Gone(p)') /\ (Reads(p) <=> Reads(p)')
                           /\ p # j => Taken(p)' = Taken(p)
  BY <1>1, <1>13, <1>16 DEF Gone, Reads, Taken
<1>18. ASSUME NEW p \in 1..ncmds PROVE Fills(f, out, p)'
  <2>1. SUFFICES ASSUME Reads(p)
                 PROVE  (IF p = 1 THEN tty' ELSE pipe'[f[p - 1]]) = Rest(out[p - 1], Taken(p)')
    BY <1>17 DEF Fills, Rest
  <2>2. (IF p = 1 THEN tty ELSE pipe[f[p - 1]]) = Rest(out[p - 1], Taken(p))
    BY <2>1 DEF Flow, Fills
  <2>3. CASE p = j
    <3>1. j = 1 => tty' = Rest(s, n + 1)
      BY <1>8, <1>10, <1>12
    <3>2. j > 1 => pipe'[f[j - 1]] = Rest(s, n + 1)
      <4>1. j > 1 => j # 1
        OBVIOUS
      <4> QED BY <1>8, <1>9, <1>10, <1>12, <4>1
    <3>3. j = 1 \/ (j > 1 /\ j # 1)
      BY <1>2
    <3> QED BY <1>7, <1>14, <2>3, <3>1, <3>2, <3>3
  <2>4. CASE p # j /\ p = 1
    <3>1. tty' = tty
      BY <1>2, <1>10, <2>4
    <3> QED BY <1>17, <2>2, <2>4, <3>1
  <2>5. CASE p # j /\ p # 1
    <3>1. p > 1 /\ p - 1 \in Child
      BY <1>2, <1>16, <2>5 DEF Child
    <3>2. pipe'[f[p - 1]] = pipe[f[p - 1]]
      <4>1. CASE j = 1
        BY <1>10, <4>1
      <4>2. CASE j # 1
        <5>1. j - 1 \in Uses(j) /\ j - 1 # 0 /\ p - 1 # j - 1 /\ j > 1
          BY <1>1, <1>2, <1>16, <2>5, <4>2, Constants DEF Uses, Shell
        <5>2. f[p - 1] # f[j - 1]
          BY <1>2, <2>1, <3>1, <5>1, OneReader
        <5>3. f[p - 1] \in Pipe
          BY <3>1 DEF Layout, Numbering
        <5> QED BY <1>9, <1>10, <5>1, <5>2, <5>3
      <4> QED BY <4>1, <4>2
    <3> QED BY <1>17, <2>2, <2>5, <3>2
  <2> QED BY <2>3, <2>4, <2>5
<1>19. Excused => Excused'
  BY <1>1 DEF Excused
<1>20. ASSUME NEW p \in 1..ncmds
       PROVE  (child'[p] = "run" => child[p] = "run" /\ toWrite'[p] = toWrite[p] /\ toCopy'[p] = toCopy[p]) \/ Ran(out, p)'
  BY <1>1, <1>13, <1>15, <1>16
<1> QED BY <1>1, <1>17, <1>18, <1>19, <1>20, Quiet

CInv == TypeOK /\ \E f : Layout(f) /\ (cmds # << >> => \E out : Flow(f, out))

LEMMA ChildFlow ==
  ASSUME TypeOK, NEW f, Layout(f), NEW out, Flow(f, out), cmds # << >>, NEW j \in Child, ChildStep(j)
  PROVE  Layout(f)' /\ \E new : Flow(f, new)'
<1>1. CASE SetSignal(j)
  <2>1. Flow(f, out)'
    BY <1>1, StageFlow DEF SetSignal, prog
  <2> QED BY <1>1, <2>1, SetSignalLayout
<1>2. CASE RedirectOut(j)
  <2>1. Flow(f, out)'
    BY <1>2, StageFlow DEF RedirectOut, prog
  <2> QED BY <1>2, <2>1, RedirectOutLayout
<1>3. CASE RedirectIn(j)
  <2>1. Flow(f, out)'
    BY <1>3, StageFlow DEF RedirectIn, prog
  <2> QED BY <1>3, <2>1, RedirectInLayout
<1>4. CASE Exec(j)
  BY <1>4, ExecFlow, ExecLayout
<1>5. CASE Write(j)
  BY <1>5, WriteFlow, WriteLayout
<1>6. CASE Read(j)
  BY <1>6, ReadFlow, ReadLayout
<1>7. CASE Exit(j)
  BY <1>7, ExitFlow, ExitLayout
<1> QED BY <1>1, <1>2, <1>3, <1>4, <1>5, <1>6, <1>7 DEF ChildStep

LEMMA StepFlow ==
  ASSUME CInv, [Next]_vars
  PROVE  CInv'
<1>1. PICK f : Layout(f) /\ (cmds # << >> => \E out : Flow(f, out))
  BY DEF CInv
<1>2. TypeOK /\ TypeOK'
  BY <1>1, StepLayout DEF CInv
<1>3. SUFFICES \E g : Layout(g)' /\ (cmds' # << >> => \E out : Flow(g, out)')
  BY <1>2 DEF CInv
<1>4. CASE ReadLine
  BY <1>1, <1>2, <1>4, ReadLineLayout, ReadLineFlow
<1>5. CASE cmds # << >> /\ [Next]_vars /\ ~ReadLine
  <2>1. PICK out : Flow(f, out)
    BY <1>1, <1>5
  <2>2. CASE Eof \/ Parent \/ ForkDone
    <3>1. Flow(f, out)'
      BY <1>1, <1>2, <2>1, <2>2, ShellsFlow
    <3> QED BY <1>1, <1>2, <2>2, <3>1, EofLayout, ParentLayout, ForkDoneLayout
  <2>3. CASE Wait \/ WaitDone
    <3>1. Flow(f, out)'
      BY <1>1, <1>2, <2>1, <2>3, WaitFlow, WaitDoneFlow
    <3> QED BY <1>1, <1>2, <2>3, <3>1, WaitLayout, WaitDoneLayout
  <2>4. CASE Abort \/ Interrupt
    <3>1. Flow(f, out)'
      BY <1>1, <1>2, <2>1, <2>4, AbortFlow, InterruptFlow
    <3> QED BY <1>1, <1>2, <2>4, <3>1, AbortLayout, InterruptLayout
  <2>5. CASE Fork
    <3>1. PICK g : /\ Layout(g)' /\ g[i + 1] \in Unused /\ pipe' = [pipe EXCEPT ![g[i + 1]] = << >>]
                   /\ \A m \in 0..MaxCommands : m # i + 1 => g[m] = f[m]
      BY <1>1, <1>2, <2>5, ForkLayout
    <3>2. Flow(g, out)'
      BY <1>1, <1>2, <1>5, <2>1, <2>5, <3>1, ForkFlow
    <3> QED BY <3>1, <3>2
  <2>6. ASSUME NEW j \in Child, ChildStep(j) PROVE \E g : Layout(g)' /\ \E new : Flow(g, new)'
    BY <1>1, <1>2, <1>5, <2>1, <2>6, ChildFlow
  <2>7. CASE UNCHANGED vars
    <3>1. Layout(f)'
      BY <1>1, <1>2, <2>7, StutterLayout
    <3>2. Flow(f, out)'
      <4>1. UNCHANGED <<pc, cmds, i, child, toWrite, toCopy, pipe, tty, screen, interrupted>> /\ ncmds' = ncmds /\ Forked' = Forked
        BY <2>7 DEF vars, ncmds, Forked
      <4>2. \A j \in 1..ncmds : (Gone(j) <=> Gone(j)') /\ (Reads(j)' <=> Reads(j)) /\ Taken(j)' = Taken(j)
        BY <4>1 DEF Gone, Reads, Taken
      <4>3. \A j \in 1..ncmds : Fills(f, out, j)'
        BY <2>1, <4>1, <4>2, SameInput DEF Flow
      <4>4. Excused => Excused'
        BY <4>1 DEF Excused
      <4> QED BY <1>1, <1>2, <2>1, <4>1, <4>2, <4>3, <4>4, Quiet
    <3> QED BY <3>1, <3>2
  <2> QED BY <1>5, <2>2, <2>3, <2>4, <2>5, <2>6, <2>7 DEF Next, ShellStep
<1>6. CASE cmds = << >> /\ [Next]_vars /\ ~ReadLine
  <2>1. \E g : Layout(g)'
    BY <1>1, <1>2, StepLayout
  <2>2. cmds' = cmds
    BY <1>6 DEF Next, ShellStep, Eof, Abort, Fork, Parent, ForkDone, Wait, WaitDone, Interrupt, ChildStep,
                SetSignal, RedirectOut, RedirectIn, Exec, Write, Read, Exit, vars
  <2> QED BY <1>6, <2>1, <2>2
<1> QED BY <1>4, <1>5, <1>6

LEMMA CInvHolds == Spec => []CInv
<1>1. Init => CInv
  BY Start DEF CInv, Init
<1>2. CInv /\ [Next]_vars => CInv'
  BY StepFlow
<1> QED BY <1>1, <1>2, PTL DEF Spec

LEMMA FlowComposed == CInv => Composed
<1>1. SUFFICES ASSUME CInv, cmds # << >>
               PROVE  /\ IsPrefix(screen, Printed(cmds)[ncmds])
                      /\ pc = "prompt" /\ ~interrupted => screen = Printed(cmds)[ncmds]
  BY DEF Composed
<1>2. PICK f, out : TypeOK /\ Layout(f) /\ Flow(f, out)
  BY <1>1 DEF CInv
<1>3. ncmds \in Nat /\ ncmds > 0 /\ ncmds \in 1..ncmds /\ ncmds \in Child
  <2>1. cmds \in Lines
    BY <1>1, <1>2 DEF TypeOK
  <2> QED BY <2>1, Constants DEF ncmds, Child
<1>4. /\ screen = out[ncmds] /\ Ended(out, ncmds) /\ IsPrefix(out[ncmds], Printed(cmds)[ncmds])
  BY <1>2, <1>3 DEF Flow
<1>5. ASSUME pc = "prompt", ~interrupted PROVE screen = Printed(cmds)[ncmds]
  <2>1. Forked = ncmds /\ child[ncmds] = "none"
    BY <1>2, <1>3, <1>5 DEF Layout, Stages, Forked
  <2>2. Gone(ncmds) /\ ~Excused
    BY <1>3, <1>5, <2>1 DEF Gone, Excused
  <2> QED BY <1>3, <1>4, <2>2 DEF Ended
<1> QED BY <1>4, <1>5

\* Composed: what is on the screen is a prefix of the composition of the
\* commands, and at an uninterrupted line's end all of it, whatever the order
\* the processes ran in, for lines and programs of any length.
THEOREM ComposedHolds == Spec => []Composed
BY FlowComposed, CInvHolds, PTL
-----------------------------------------------------------------------------
(* The shell implements Shell.                                             *)

\* What reaches the screen is the next item of the line's answer.
LEMMA Printing ==
  ASSUME CInv, Composed', NEW j \in Child, Write(j), ~UNCHANGED screen
  PROVE  Abstract!Show
<1>1. /\ child[j] = "run" /\ pc' = pc /\ cmds' = cmds /\ interrupted' = interrupted
      /\ screen' = Append(screen, Head(toWrite[j]))
  BY DEF Write
<1>2. PICK f : TypeOK /\ Layout(f)
  BY DEF CInv
<1>3. pc \in {"fork", "parent", "wait", "aborted"} /\ cmds # << >> /\ cmds \in Lines
  <2>1. j \in 1..ncmds
    BY <1>1, <1>2, Line
  <2>2. pc \notin {"prompt", "exit"}
    BY <1>1, <1>2 DEF Layout, Stages
  <2> QED BY <1>2, <2>1, <2>2 DEF TypeOK, ncmds
<1>4. Stage \in {"running", "interrupted", "aborted"} /\ Stage' = Stage
  BY <1>1, <1>3 DEF Stage
<1> DEFINE all == Printed(cmds)[Len(cmds)]
           item == Head(toWrite[j])
<1>5. screen \in Seq(Item) /\ item \in Item
  BY <1>1, <1>2 DEF CInv, TypeOK, Write
<1>6. IsPrefix(Append(screen, item), all)
  BY <1>1, <1>3 DEF Composed, ncmds
<1>7. all \in Seq(Item)
  BY <1>3, Constants, PrintedType
<1> HIDE DEF all, item
<1>8. Len(screen) < Len(all) /\ item = all[Len(screen) + 1]
  BY <1>5, <1>6, <1>7 DEF IsPrefix
<1> QED BY <1>1, <1>4, <1>8 DEF Abstract!Show, Whole, all, item

LEMMA ShellSteps ==
  ASSUME CInv, Composed', [Next]_vars
  PROVE  [Abstract!Next]_<<Stage, cmds, screen>>
<1>1. PICK f : TypeOK /\ Layout(f)
  BY DEF CInv
<1>2. CASE ReadLine
  <2>1. Stage = "prompt" /\ Stage' = "running"
    BY <1>2 DEF ReadLine, Stage
  <2> QED BY <1>2, <2>1 DEF ReadLine, Abstract!Next, Abstract!Type
<1>3. CASE Eof \/ Abort
  <2>1. \/ Stage = "prompt" /\ Stage' = "exit"
        \/ Stage \in {"running", "interrupted"} /\ Stage' = "aborted"
    BY <1>3 DEF Eof, Abort, Stage
  <2>2. cmds' = cmds /\ screen' = screen
    BY <1>3 DEF Eof, Abort, prog
  <2> QED BY <2>1, <2>2 DEF Abstract!Next, Abstract!End
<1>4. CASE Fork \/ Parent \/ ForkDone \/ Wait
  BY <1>4 DEF Fork, Parent, ForkDone, Wait, prog, Stage
<1>5. CASE WaitDone
  <2>1. /\ pc = "wait" /\ pc' = "prompt" /\ cmds' = cmds /\ screen' = screen
        /\ interrupted' = interrupted
    BY <1>5 DEF WaitDone
  <2>2. cmds # << >>
    BY <1>1, <2>1 DEF Layout, Stages, ncmds
  <2>3. Stage = "interrupted" \/ (Stage = "running" /\ screen = Whole(cmds))
    <3>1. CASE interrupted
      BY <2>1, <3>1 DEF Stage
    <3>2. CASE ~interrupted
      BY <2>1, <2>2, <3>2 DEF Stage, Composed, Whole, ncmds
    <3> QED BY <3>1, <3>2
  <2>4. Stage' = "prompt"
    BY <2>1 DEF Stage
  <2> QED BY <2>1, <2>3, <2>4 DEF Abstract!Next, Abstract!Return
<1>6. CASE Interrupt
  <2>1. Stage = "running" /\ Stage' = "interrupted" /\ cmds' = cmds /\ screen' = screen
    BY <1>6 DEF Interrupt, Stage
  <2> QED BY <2>1 DEF Abstract!Next, Abstract!Interrupt
<1>7. ASSUME NEW j \in Child, ChildStep(j) PROVE [Abstract!Next]_<<Stage, cmds, screen>>
  <2>1. CASE screen' = screen
    <3>1. pc' = pc /\ cmds' = cmds /\ interrupted' = interrupted
      BY <1>7 DEF ChildStep, SetSignal, RedirectOut, RedirectIn, Exec, Write, Read, Exit
    <3> QED BY <2>1, <3>1 DEF Stage
  <2>2. CASE screen' # screen
    <3>1. Write(j)
      BY <1>7, <2>2 DEF ChildStep, SetSignal, RedirectOut, RedirectIn, Exec, Read, Exit, prog
    <3> QED BY <2>2, <3>1, Printing DEF Abstract!Next
  <2> QED BY <2>1, <2>2
<1>8. CASE UNCHANGED vars
  BY <1>8 DEF vars, Stage
<1> QED BY <1>2, <1>3, <1>4, <1>5, <1>6, <1>7, <1>8 DEF Next, ShellStep

\* The shell implements Shell: it answers line after line, each with the
\* composition of its commands and nothing else, and the prompt means that all
\* of the answer is there, in whatever order its processes run.
THEOREM AnsweredHolds == Spec => Answered
<1>1. Init => Abstract!Init
  BY DEF Init, Abstract!Init, Stage
<1>2. CInv /\ Composed' /\ [Next]_vars => [Abstract!Next]_<<Stage, cmds, screen>>
  BY ShellSteps
<1> QED BY <1>1, <1>2, FlowComposed, CInvHolds, PTL DEF Spec, Answered, Abstract!Spec, Abstract!vars

=============================================================================
