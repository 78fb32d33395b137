------------------------------- MODULE Shell --------------------------------
(***************************************************************************)
(* What 2019/_sh promises whoever types at it: a line is answered with its *)
(* answer, item by item and no more than it; the prompt comes back with    *)
(* all of it, or with a part of it after ^C, and then nothing is printed   *)
(* behind the prompt.                                                      *)
(***************************************************************************)
EXTENDS Integers, Sequences

CONSTANTS
  Lines,      \* the lines that can be typed
  Answer(_)   \* what a line prints

VARIABLES
  at,         \* "prompt", "running", "interrupted", "aborted" or "exit"
  line,       \* the line being run, or the last one
  screen      \* what it has printed

vars == <<at, line, screen>>

Init == at = "prompt" /\ line = << >> /\ screen = << >>

Type ==
  /\ at = "prompt" /\ at' = "running"
  /\ line' \in Lines /\ screen' = << >>

\* One item more of the answer, which comes even from a line that was
\* interrupted or that lost its shell.
Show ==
  /\ at \in {"running", "interrupted", "aborted"}
  /\ Len(screen) < Len(Answer(line))
  /\ screen' = Append(screen, Answer(line)[Len(screen) + 1])
  /\ UNCHANGED <<at, line>>

Interrupt ==
  /\ at = "running" /\ at' = "interrupted"
  /\ UNCHANGED <<line, screen>>

Return ==
  /\ at = "interrupted" \/ (at = "running" /\ screen = Answer(line))
  /\ at' = "prompt"
  /\ UNCHANGED <<line, screen>>

\* The shell ends, by end of file or in the middle of a line.
End ==
  /\ \/ at = "prompt" /\ at' = "exit"
     \/ at \in {"running", "interrupted"} /\ at' = "aborted"
  /\ UNCHANGED <<line, screen>>

Next == Type \/ Show \/ Interrupt \/ Return \/ End

Spec == Init /\ [][Next]_vars
=============================================================================
