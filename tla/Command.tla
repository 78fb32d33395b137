------------------------------ MODULE Command -------------------------------
(***************************************************************************)
(* ussh_repl() of 2019/_sh up to and behind setup_pipe(): a line is read   *)
(* character by character, parsed with one pointer, and handed over as an  *)
(* array of argument arrays, which ends with a null pointer.               *)
(***************************************************************************)
EXTENDS Chvec, FiniteSets

CONSTANTS
  Idchars,   \* letters, digits and - / [ ]
  Spaces,
  BAR,
  Foreign,   \* every other character
  NULL,      \* the null pointer
  INITCAP,   \* the capacity a vector starts with, 10 in the code
  MaxLine    \* bound on the characters of a line

\* What getchar() may return in a line, the newline apart.
Chars == Idchars \cup Spaces \cup Foreign \cup {BAR, NUL}

ASSUME CharAssumption ==
  /\ NUL \notin Idchars \cup Spaces \cup {BAR} /\ BAR \notin Idchars \cup Spaces
  /\ Idchars \cap Spaces = {} /\ JUNK \notin Idchars \cup Spaces \cup {BAR}
\* A null pointer points to no buffer.
ASSUME NullAssumption == NULL \notin Seq(Chars \cup {JUNK})
ASSUME CapAssumption == INITCAP \in Nat /\ MaxLine \in Nat

VARIABLES
  pc,      \* "read", "command", "word", "after", "array", "run" or "exit"
  typed,   \* the characters of the line typed so far
  line,    \* the vector that holds them
  p,       \* the parser's pointer: the characters before it
  tree,    \* per command so far: its words, each a vector
  word,    \* the vector of the word being read
  cmds     \* the arrays of the commands, from index 0 as in C

vars == <<pc, typed, line, p, tree, word, cmds>>
memory == <<tree, word, cmds>>

Char == line.buf[p + 1]

Init ==
  /\ pc = "read"
  /\ typed = << >> /\ line = chvec_create(INITCAP)
  /\ p = 0 /\ tree = << >> /\ word = chvec_create(INITCAP) /\ cmds = << >>
-----------------------------------------------------------------------------
(* ussh_read_line().                                                       *)

TypeChar ==
  /\ pc = "read" /\ Len(typed) < MaxLine
  /\ \E c \in Chars : typed' = Append(typed, c) /\ line' = chvec_push_back(line, c)
  /\ UNCHANGED <<pc, p, memory>>

EndedLine == chvec_push_back(line, NUL)

EndLine ==
  /\ pc = "read"
  /\ pc' = "command" /\ line' = EndedLine
  /\ UNCHANGED <<typed, p, memory>>

\* EOF, or a byte of 255, which c, being a char, cannot tell from EOF.  A line begun is thrown away.
EndInput ==
  /\ pc = "read"
  /\ pc' = "exit" /\ line' = chvec_create(INITCAP) /\ typed' = << >>
  /\ UNCHANGED <<p, memory>>
-----------------------------------------------------------------------------
(* parse(): parse_piped_cmds() calls parse_str_list() for a command, and   *)
(* that parse_string() for a word.                                         *)

\* Variant: no spaces are skipped behind a bar.
SkipsBehindWords == pc = "after"

Skips == pc \in {"command", "after"}

Skip ==
  /\ Skips /\ Char \in Spaces
  /\ p' = p + 1
  /\ UNCHANGED <<pc, typed, line, memory>>

\* A command has a first word even where no word is.
BeginCommand ==
  /\ pc = "command" /\ ~(Skips /\ Char \in Spaces)
  /\ pc' = "word" /\ tree' = Append(tree, << >>) /\ word' = chvec_create(INITCAP)
  /\ UNCHANGED <<typed, line, p, cmds>>

InWord ==
  /\ pc = "word" /\ Char \in Idchars
  /\ word' = chvec_push_back(word, Char) /\ p' = p + 1
  /\ UNCHANGED <<pc, typed, line, tree, cmds>>

\* Variant: the vector is taken as it is.
WordAsRead == word

Ended == chvec_push_back(word, NUL)

EndWord ==
  /\ pc = "word" /\ Char \notin Idchars
  /\ pc' = "after" /\ tree' = [tree EXCEPT ![Len(tree)] = Append(@, Ended)]
  /\ UNCHANGED <<typed, line, p, word, cmds>>

NextWord ==
  /\ pc = "after" /\ Char \in Idchars
  /\ pc' = "word" /\ word' = chvec_create(INITCAP)
  /\ UNCHANGED <<typed, line, p, tree, cmds>>

Bar ==
  /\ pc = "after" /\ Char = BAR
  /\ pc' = "command" /\ p' = p + 1
  /\ UNCHANGED <<typed, line, memory>>

\* The end of the line, or a character no rule knows: the rest is ignored.
EndParse ==
  /\ pc = "after" /\ Char \notin Idchars \cup Spaces \cup {BAR}
  /\ pc' = "array"
  /\ UNCHANGED <<typed, line, p, memory>>
-----------------------------------------------------------------------------
(* From the tree to the arrays, and back to the prompt.                    *)

\* The commands before the first whose first word has no characters at all.
count_ncmds ==
  CHOOSE n \in 0..Len(tree) :
    /\ n = Len(tree) \/ chvec_size(tree[n + 1][1]) = 0
    /\ \A k \in 1..n : chvec_size(tree[k][1]) # 0

\* The arguments of a command: pointers to the words, and a null pointer.
tr_list_to_sarr(list) ==
  [k \in 0..Len(list) |-> IF k < Len(list) THEN list[k + 1].buf ELSE NULL]

\* Every command is written, into an array for count_ncmds of them and the
\* null pointer.
get_command_arr ==
  [k \in (0..(Len(tree) - 1)) \cup {count_ncmds} |->
     IF k < Len(tree) THEN tr_list_to_sarr(tree[k + 1]) ELSE NULL]

MakeArray ==
  /\ pc = "array"
  /\ pc' = "run" /\ cmds' = get_command_arr
  /\ UNCHANGED <<typed, line, p, tree, word>>

tr_free == tree' = << >> /\ word' = chvec_create(INITCAP)

\* setup_pipe() has returned: everything is freed, and the next line has a
\* vector of its own.
Free ==
  /\ pc = "run"
  /\ pc' = "read" /\ typed' = << >> /\ line' = chvec_create(INITCAP)
  /\ p' = 0 /\ tr_free /\ cmds' = << >>

Parse == Skip \/ BeginCommand \/ InWord \/ EndWord \/ NextWord \/ Bar \/ EndParse
Next == TypeChar \/ EndLine \/ EndInput \/ Parse \/ MakeArray \/ Free

Spec == Init /\ [][Next]_vars
-----------------------------------------------------------------------------
Parsing == pc \in {"command", "word", "after"}

Vectors == {cv \in [buf : Seq(Chars \cup {JUNK}), end : Nat] : cv.end <= Len(cv.buf)}

TypeOK ==
  /\ pc \in {"read", "command", "word", "after", "array", "run", "exit"}
  /\ typed \in Seq(Chars) /\ p \in Nat
  /\ line \in Vectors /\ word \in Vectors /\ tree \in Seq(Seq(Vectors))

\* Up to the first NUL typed, the vector holds the line as it was typed,
\* however often it has grown: strncpy() in chvec_extend() goes no further.
Kept ==
  \A k \in DOMAIN typed :
    (\A j \in 1..(k - 1) : typed[j] # NUL) => k <= line.end /\ line.buf[k] = typed[k]

\* The parser's pointer never leaves the bytes that ussh_read_line() wrote:
\* each of its loops stops at the NUL.
WithinLine == Parsing => p < line.end

\* get_command_arr() writes within the array that count_ncmds() has sized,
\* and leaves the null pointer at its end: setup_pipe() and
\* free_command_arr() stop there.
ArrayFits ==
  pc = "run" =>
    /\ DOMAIN cmds = 0..count_ncmds /\ count_ncmds = Len(tree)
    /\ cmds[count_ncmds] = NULL

\* The memory the reader and the parser use is what they have written and
\* asked for: no loop over the line or over the commands passes an end.
InBounds == WithinLine /\ ArrayFits

\* The reference: a line ends at its first NUL or foreign character.  Its
\* commands are between the bars, and the words of a command are the longest
\* runs of idchars.  A command without words has the empty one.
Known == Idchars \cup Spaces \cup {BAR}
Length == CHOOSE n \in 0..Len(typed) :
            /\ n = Len(typed) \/ typed[n + 1] \notin Known
            /\ \A k \in 1..n : typed[k] \in Known
BarsUpTo(n) == Cardinality({k \in 1..n : typed[k] = BAR})
Starts(c) == {k \in 1..Length : /\ typed[k] \in Idchars /\ BarsUpTo(k) = c - 1
                                /\ k = 1 \/ typed[k - 1] \notin Idchars}
EndOf(k) == CHOOSE n \in k..Length :
              /\ n = Length \/ typed[n + 1] \notin Idchars
              /\ \A j \in k..n : typed[j] \in Idchars
WordsOf(c) ==
  IF Starts(c) = {} THEN <<<< >>>>
  ELSE [w \in 1..Cardinality(Starts(c)) |->
          LET k == CHOOSE k \in Starts(c) : Cardinality({j \in Starts(c) : j <= k}) = w
          IN  SubSeq(typed, k, EndOf(k))]

\* What execvp() makes of an array: all up to the first null pointer.
Arguments(argv) == CHOOSE n \in DOMAIN argv : argv[n] = NULL /\ \A k \in 0..(n - 1) : argv[k] # NULL

\* What setup_pipe() is given is what was typed.
Parsed ==
  pc = "run" =>
    /\ DOMAIN cmds = 0..(BarsUpTo(Length) + 1)
    /\ \A c \in 1..(BarsUpTo(Length) + 1) :
         WordsOf(c) = [w \in 1..Arguments(cmds[c - 1]) |-> CString(cmds[c - 1][w - 1])]
=============================================================================
