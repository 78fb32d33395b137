------------------------------ MODULE Pipeline ------------------------------
(***************************************************************************)
(* The shell of 2019/_sh: ussh_repl() reads a line, setup_pipe() forks one *)
(* child per command, joins neighbours by pipes and waits for all of them. *)
(* A process holds file descriptors in a table that fork() copies; a pipe  *)
(* ends for its reader when no table holds its writing end any more, so    *)
(* one forgotten close() hangs the whole line.                             *)
(*                                                                         *)
(* The programs a command can name are external: each first writes items   *)
(* of its own, then copies items from fd 0 to fd 1, then exits.            *)
(***************************************************************************)
EXTENDS Integers, Sequences, FiniteSets, SequencesExt

CONSTANTS
  Lines,      \* the command lines typed, each a non-empty sequence of programs
  MaxCommands,  \* bound on the commands of a line
  Makes,      \* Makes[c]: items a program writes of its own
  Copies,     \* Copies[c]: items it copies at most
  Missing,    \* a command with no program behind it
  Typed,      \* items on the terminal for the first command to read
  PipeSize    \* items a pipe can hold

ASSUME LinesAssumption ==
  /\ Lines \subseteq Seq(DOMAIN Makes \cup {Missing}) /\ << >> \notin Lines
  /\ MaxCommands \in Nat /\ \A l \in Lines : Len(l) <= MaxCommands
ASSUME ProgramsAssumption ==
  /\ Makes \in [DOMAIN Makes -> Nat] /\ Copies \in [DOMAIN Makes -> Nat]
  /\ Missing \notin DOMAIN Makes
ASSUME PipeAssumption == PipeSize \in Nat \ {0}
ASSUME TypedAssumption == Typed \in Seq({0} \X Nat)

VARIABLES
  pc,         \* where the shell is: "prompt", "fork", "parent", "wait", "exit"
              \* or, after a failed assertion, "aborted"
  cmds,       \* the commands of the line
  i,          \* setup_pipe()'s loop counter, then the number of wait()s done
  fds,        \* per process, its descriptor table: an end or Closed
  bckpip,     \* per process, its copy of the two arrays, as pairs <<[0], [1]>>
  fwdpip,
  child,      \* per child: "none", "born", "stdout", "stdin", "exec", "run", "dead"
  toWrite,    \* per child: the items it has and not yet written
  toCopy,     \* per child: how many it may still read
  pipe,       \* per pipe: the items in it
  tty,        \* what the terminal still has for the first command
  screen,     \* what the line has printed
  interrupted \* ^C was typed while the line ran

vars == <<pc, cmds, i, fds, bckpip, fwdpip, child, toWrite, toCopy, pipe, tty,
          screen, interrupted>>
prog == <<toWrite, toCopy, pipe, tty, screen>>

Child == 1..MaxCommands
Shell == 0
Process == Child \cup {Shell}
\* Two per command and one more for a table that leaks.
Pipe == 1..2 * MaxCommands + 1
\* Those of the terminal, a pipe per command and one pipe more.
FD == 0..2 * MaxCommands + 4
\* Who made it, the terminal being 0, and its number.
Item == Process \X Nat
Closed == << >>
Keyboard == <<"keyboard", 0>>
Screen == <<"screen", 0>>
R(k) == <<"read", k>>
W(k) == <<"write", k>>
ncmds == Len(cmds)
Smaller(m, n) == IF m < n THEN m ELSE n
Live == {j \in Child : child[j] \notin {"none", "dead"}}

\* A shell is started with the terminal on 0, 1 and 2.
Terminal == [n \in FD |-> IF n = 0 THEN Keyboard ELSE IF n <= 2 THEN Screen ELSE Closed]
NoneOpen == [n \in FD |-> Closed]
-----------------------------------------------------------------------------
(* The kernel's operations on a table.                                     *)

Held(p) == {fds[p][n] : n \in FD}
Unused == {k \in Pipe : \A p \in Process : R(k) \notin Held(p) /\ W(k) \notin Held(p)}
Lowest(t) == CHOOSE n \in FD : t[n] = Closed /\ \A m \in 0..(n - 1) : t[m] # Closed

Put(t, n, e) == [t EXCEPT ![n] = e]
Close(t, n) == Put(t, n, Closed)
Dup2(t, old, new) == IF t[old] = Closed THEN t ELSE Put(t, new, t[old])

\* Variant: only the reading end is closed.
CloseReader(t, pipefd) == Close(t, pipefd[1])

close_pipes(t, pipefd) == Close(Close(t, pipefd[1]), pipefd[2])

\* The end of the processes S, by exit, abort() or a signal.
Kill(S) ==
  /\ child' = [j \in Child |-> IF j \in S THEN "dead" ELSE child[j]]
  /\ fds' = [p \in Process |-> IF p \in S THEN NoneOpen ELSE fds[p]]
  /\ bckpip' = [p \in Process |-> IF p \in S THEN <<0, 0>> ELSE bckpip[p]]
  /\ fwdpip' = [p \in Process |-> IF p \in S THEN <<0, 0>> ELSE fwdpip[p]]
  /\ toWrite' = [j \in Child |-> IF j \in S THEN << >> ELSE toWrite[j]]
  /\ toCopy' = [j \in Child |-> IF j \in S THEN 0 ELSE toCopy[j]]

Init ==
  /\ pc = "prompt" /\ cmds = << >> /\ i = 0
  /\ fds = [p \in Process |-> IF p = Shell THEN Terminal ELSE NoneOpen]
  /\ bckpip = [p \in Process |-> <<0, 0>>] /\ fwdpip = [p \in Process |-> <<0, 0>>]
  /\ child = [j \in Child |-> "none"]
  /\ toWrite = [j \in Child |-> << >>] /\ toCopy = [j \in Child |-> 0]
  /\ pipe = [k \in Pipe |-> << >>]
  /\ tty = << >> /\ screen = << >>
  /\ interrupted = FALSE
-----------------------------------------------------------------------------
(* The shell.                                                              *)

\* ussh_read_line() and parse().
ReadLine ==
  /\ pc = "prompt"
  /\ cmds' \in Lines
  /\ pc' = "fork" /\ i' = 0
  /\ tty' = Typed /\ screen' = << >> /\ interrupted' = FALSE
  /\ UNCHANGED <<fds, bckpip, fwdpip, child, toWrite, toCopy, pipe>>

\* End of file on the command line.
Eof ==
  /\ pc = "prompt"
  /\ pc' = "exit"
  /\ UNCHANGED <<cmds, i, fds, bckpip, fwdpip, child, prog, interrupted>>

\* pipe() and fork(): the child starts with copies of everything.
Fork ==
  /\ pc = "fork" /\ i < ncmds
  /\ LET k == CHOOSE k \in Unused : TRUE
         r == Lowest(fds[Shell])
         w == Lowest(Put(fds[Shell], r, R(k)))
         t == Put(Put(fds[Shell], r, R(k)), w, W(k))
     IN  /\ fds' = [fds EXCEPT ![Shell] = t, ![i + 1] = t]
         /\ fwdpip' = [fwdpip EXCEPT ![Shell] = <<r, w>>, ![i + 1] = <<r, w>>]
         /\ bckpip' = [bckpip EXCEPT ![i + 1] = bckpip[Shell]]
         /\ pipe' = [pipe EXCEPT ![k] = << >>]
  /\ child' = [child EXCEPT ![i + 1] = "born"]
  /\ pc' = "parent"
  /\ UNCHANGED <<cmds, i, toWrite, toCopy, tty, screen, interrupted>>

\* pipe() or fork() fails and an assert() ends the shell.  The children it
\* has forked live on.
Abort ==
  /\ pc = "fork" /\ i < ncmds
  /\ pc' = "aborted"
  /\ Kill({Shell})
  /\ UNCHANGED <<cmds, i, pipe, tty, screen, interrupted>>

\* The rest of the loop body in the parent.
Parent ==
  /\ pc = "parent"
  /\ fds' = IF i > 0 THEN [fds EXCEPT ![Shell] = close_pipes(@, bckpip[Shell])] ELSE fds
  /\ bckpip' = [bckpip EXCEPT ![Shell] = fwdpip[Shell]]
  /\ i' = i + 1 /\ pc' = "fork"
  /\ UNCHANGED <<cmds, fwdpip, child, prog, interrupted>>

ForkDone ==
  /\ pc = "fork" /\ i = ncmds
  /\ fds' = [fds EXCEPT ![Shell] = close_pipes(@, fwdpip[Shell])]
  /\ i' = 0 /\ pc' = "wait"
  /\ UNCHANGED <<cmds, bckpip, fwdpip, child, prog, interrupted>>

\* Variants: the loop counts one child too few, or one too many.
OneLessToWait == i + 1 < ncmds
OneMoreToWait == i <= ncmds

MoreToWait == i < ncmds

\* wait() takes any dead child; without any child it fails at once.
Wait ==
  /\ pc = "wait" /\ MoreToWait
  /\ \/ \E j \in Child : child[j] = "dead" /\ child' = [child EXCEPT ![j] = "none"]
     \/ (\A j \in Child : child[j] = "none") /\ UNCHANGED child
  /\ i' = i + 1
  /\ UNCHANGED <<pc, cmds, fds, bckpip, fwdpip, prog, interrupted>>

\* setup_pipe() returns and its arrays are gone.
WaitDone ==
  /\ pc = "wait" /\ ~MoreToWait
  /\ pc' = "prompt"
  /\ bckpip' = [bckpip EXCEPT ![Shell] = <<0, 0>>]
  /\ fwdpip' = [fwdpip EXCEPT ![Shell] = <<0, 0>>]
  /\ pipe' = [k \in Pipe |-> IF k \in Unused THEN << >> ELSE pipe[k]]
  /\ UNCHANGED <<cmds, i, fds, child, toWrite, toCopy, tty, screen, interrupted>>

ShellStep == Fork \/ Parent \/ ForkDone \/ Wait \/ WaitDone
-----------------------------------------------------------------------------
(* A child of setup_pipe(): command j - 1 of the line.                     *)

SetSignal(j) ==
  /\ child[j] = "born"
  /\ child' = [child EXCEPT ![j] = "stdout"]
  /\ UNCHANGED <<pc, cmds, i, fds, bckpip, fwdpip, prog, interrupted>>

\* Variant: the last command writes to a pipe too.
NotLast(j) == TRUE

HasNext(j) == j < ncmds

RedirectOut(j) ==
  /\ child[j] = "stdout"
  /\ fds' = IF HasNext(j)
              THEN [fds EXCEPT ![j] = close_pipes(Dup2(Close(@, 1), fwdpip[j][2], 1), fwdpip[j])]
              ELSE fds
  /\ child' = [child EXCEPT ![j] = "stdin"]
  /\ UNCHANGED <<pc, cmds, i, bckpip, fwdpip, prog, interrupted>>

\* Variant: the child keeps both ends of the pipe it reads from.
RedirectInOnly(j) ==
  /\ child[j] = "stdin"
  /\ fds' = IF j > 1 THEN [fds EXCEPT ![j] = Dup2(Close(@, 0), bckpip[j][1], 0)] ELSE fds
  /\ child' = [child EXCEPT ![j] = "exec"]
  /\ UNCHANGED <<pc, cmds, i, bckpip, fwdpip, prog, interrupted>>

RedirectIn(j) ==
  /\ child[j] = "stdin"
  /\ fds' = IF j > 1
              THEN [fds EXCEPT ![j] = close_pipes(Dup2(Close(@, 0), bckpip[j][1], 0), bckpip[j])]
              ELSE fds
  /\ child' = [child EXCEPT ![j] = "exec"]
  /\ UNCHANGED <<pc, cmds, i, bckpip, fwdpip, prog, interrupted>>

\* execvp(), or abort() when there is nothing to execute.  Either way the
\* memory of the shell that fork() copied is gone.
Exec(j) ==
  /\ child[j] = "exec"
  /\ \/ /\ cmds[j] = Missing
        /\ Kill({j})
     \/ /\ cmds[j] # Missing
        /\ child' = [child EXCEPT ![j] = "run"]
        /\ toWrite' = [toWrite EXCEPT ![j] = [n \in 1..Makes[cmds[j]] |-> <<j, n>>]]
        /\ toCopy' = [toCopy EXCEPT ![j] = Copies[cmds[j]]]
        /\ bckpip' = [bckpip EXCEPT ![j] = <<0, 0>>]
        /\ fwdpip' = [fwdpip EXCEPT ![j] = <<0, 0>>]
        /\ UNCHANGED fds
  /\ UNCHANGED <<pc, cmds, i, pipe, tty, screen, interrupted>>
-----------------------------------------------------------------------------
(* The programs.                                                           *)

Write(j) ==
  /\ child[j] = "run" /\ toWrite[j] # << >>
  /\ LET item == Head(toWrite[j]) IN
     \/ /\ fds[j][1] = Screen
        /\ screen' = Append(screen, item)
        /\ UNCHANGED pipe
     \/ \E k \in Pipe :
          /\ fds[j][1] = W(k) /\ Len(pipe[k]) < PipeSize
          /\ \E p \in Process : R(k) \in Held(p)
          /\ pipe' = [pipe EXCEPT ![k] = Append(@, item)]
          /\ UNCHANGED screen
  /\ toWrite' = [toWrite EXCEPT ![j] = Tail(@)]
  /\ UNCHANGED <<pc, cmds, i, fds, bckpip, fwdpip, child, toCopy, tty, interrupted>>

Read(j) ==
  /\ child[j] = "run" /\ toWrite[j] = << >> /\ toCopy[j] > 0
  /\ \/ /\ fds[j][0] = Keyboard /\ tty # << >>
        /\ tty' = Tail(tty)
        /\ toWrite' = [toWrite EXCEPT ![j] = <<Head(tty)>>]
        /\ UNCHANGED pipe
     \/ \E k \in Pipe :
          /\ fds[j][0] = R(k) /\ pipe[k] # << >>
          /\ pipe' = [pipe EXCEPT ![k] = Tail(@)]
          /\ toWrite' = [toWrite EXCEPT ![j] = <<Head(pipe[k])>>]
          /\ UNCHANGED tty
  /\ toCopy' = [toCopy EXCEPT ![j] = @ - 1]
  /\ UNCHANGED <<pc, cmds, i, fds, bckpip, fwdpip, child, screen, interrupted>>

\* The terminal refuses to be read by a child whose shell is gone.
AtEof(j) ==
  \/ fds[j][0] = Closed
  \/ fds[j][0] = Keyboard /\ (tty = << >> \/ pc = "aborted")
  \/ \E k \in Pipe : /\ fds[j][0] = R(k) /\ pipe[k] = << >>
                     /\ \A p \in Process : W(k) \notin Held(p)

Broken(j) ==
  \/ fds[j][1] = Closed
  \/ \E k \in Pipe : fds[j][1] = W(k) /\ \A p \in Process : R(k) \notin Held(p)

\* All is written and nothing left to read, or the last write() broke.
Exit(j) ==
  /\ child[j] = "run"
  /\ IF toWrite[j] = << >> THEN toCopy[j] = 0 \/ AtEof(j) ELSE Broken(j)
  /\ Kill({j})
  /\ UNCHANGED <<pc, cmds, i, pipe, tty, screen, interrupted>>

ChildStep(j) == SetSignal(j) \/ RedirectOut(j) \/ RedirectIn(j) \/ Exec(j)
                \/ Write(j) \/ Read(j) \/ Exit(j)

\* ^C goes to every process of the terminal.  The shell ignores it, and so
\* does a child that has not come to signal(SIGINT, SIG_DFL) yet.
Interrupt ==
  /\ pc \in {"fork", "parent", "wait"} /\ ~interrupted
  /\ interrupted' = TRUE
  /\ Kill({j \in Live : child[j] # "born"})
  /\ UNCHANGED <<pc, cmds, i, pipe, tty, screen>>

Next == ReadLine \/ Eof \/ Abort \/ ShellStep \/ Interrupt \/ \E j \in Child : ChildStep(j)

\* Every process runs when it can.  Nobody has to type a line, ^C or ^D.
Fairness == WF_vars(ShellStep) /\ \A j \in Child : WF_vars(ChildStep(j))

Spec == Init /\ [][Next]_vars /\ Fairness
-----------------------------------------------------------------------------
TypeOK ==
  /\ pc \in {"prompt", "fork", "parent", "wait", "exit", "aborted"}
  /\ cmds \in Lines \cup {<< >>} /\ i \in 0..ncmds
  /\ fds \in [Process -> [FD -> {Closed, Keyboard, Screen} \cup {R(k) : k \in Pipe}
                                   \cup {W(k) : k \in Pipe}]]
  /\ bckpip \in [Process -> Nat \X Nat] /\ fwdpip \in [Process -> Nat \X Nat]
  /\ child \in [Child -> {"none", "born", "stdout", "stdin", "exec", "run", "dead"}]
  /\ toWrite \in [Child -> Seq(Item)] /\ toCopy \in [Child -> Nat]
  /\ pipe \in [Pipe -> Seq(Item)] /\ \A k \in Pipe : Len(pipe[k]) <= PipeSize
  /\ tty \in Seq(Item) /\ screen \in Seq(Item)
  /\ interrupted \in BOOLEAN

\* A program that reads from a pipe will see its end: only the command before
\* it, the shell and children still on their way to execvp() hold the
\* writing end.
NoStrayWriter ==
  \A j \in Child, k \in Pipe, p \in Process :
    child[j] = "run" /\ fds[j][0] = R(k) /\ W(k) \in Held(p)
      => (p = Shell /\ pc # "wait") \/ p = j - 1 \/ (p \in Child /\ child[p] # "run")

\* Back at the prompt the shell holds what it was started with, however many
\* lines it has run, and no child is running or unreaped.
CleanPrompt ==
  pc \in {"prompt", "exit"} => fds[Shell] = Terminal /\ \A j \in Child : child[j] = "none"

\* What command n of a line prints when it is fed what the one before prints.
Fed(line, n, all) ==
  IF line[n] = Missing THEN << >>
  ELSE [m \in 1..Makes[line[n]] |-> <<n, m>>] \o SubSeq(all, 1, Smaller(Len(all), Copies[line[n]]))

\* What the first n commands of a line print, one fed by the other.
Printed(line) ==
  LET out[n \in 0..Len(line)] == IF n = 0 THEN Typed ELSE Fed(line, n, out[n - 1])
  IN  out

\* A pipeline is the composition of its commands: the screen shows a prefix
\* of what they print when each is fed by the one before, and all of it when
\* the prompt returns, whatever the order they ran in, unless they were
\* interrupted.
Composed ==
  cmds # << >> =>
    /\ IsPrefix(screen, Printed(cmds)[ncmds])
    /\ pc = "prompt" /\ ~interrupted => screen = Printed(cmds)[ncmds]

\* Composed and more: the shell is one that answers each line with the
\* composition of its commands, as Shell says.
Whole(line) == Printed(line)[Len(line)]
Stage == IF pc \in {"prompt", "exit", "aborted"} THEN pc
         ELSE IF interrupted THEN "interrupted" ELSE "running"
Abstract == INSTANCE Shell WITH Answer <- Whole, at <- Stage, line <- cmds
Answered == Abstract!Spec

\* The programs end by themselves or at the end of their input, so the prompt
\* returns; or the shell aborts half-way through the line, and then the
\* children it leaves behind still come to an end, for want of a reader or a
\* writer that was never forked.
Returns == (pc = "fork") ~> (pc = "prompt" \/ (pc = "aborted" /\ Live = {}))
=============================================================================
