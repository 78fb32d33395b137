---------------------------- MODULE CommandProofs ----------------------------
(***************************************************************************)
(* For every alphabet, capacity and line: the vector keeps what was typed, *)
(* the parser stays within it, the array of the commands fits, and what it *)
(* holds is what was typed.                                                *)
(***************************************************************************)
EXTENDS Command, TLAPS, FiniteSetTheorems, SequenceTheorems

Byte == Chars \cup {JUNK}

\* Every vector in the tree ends with a NUL, so none is empty, and every
\* command has its first word once parse_string() has returned.
Filled ==
  /\ \A k \in DOMAIN tree : \A j \in DOMAIN tree[k] : tree[k][j].end # 0
  /\ \A k \in DOMAIN tree : tree[k] = << >> => k = Len(tree) /\ pc = "word"
  /\ pc \in {"word", "after"} => tree # << >>

\* The line is read to its last byte, and then ends with a NUL.
Terminated ==
  /\ pc = "read" => p = 0 /\ line.end = Len(typed) /\ tree = << >>
  /\ Parsing => line.end > 0 /\ line.buf[line.end] = NUL

IInv ==
  /\ TypeOK /\ Kept /\ WithinLine /\ Filled /\ Terminated
  /\ pc = "run" => cmds = get_command_arr

LEMMA FunctionIsSeq ==
  ASSUME NEW S, NEW n \in Nat, NEW f, f \in [1..n -> S]
  PROVE  f \in Seq(S) /\ Len(f) = n /\ DOMAIN f = 1..n
OBVIOUS

LEMMA Created == chvec_create(INITCAP) \in Vectors /\ chvec_create(INITCAP).end = 0
<1> DEFINE b == [k \in 1..INITCAP |-> JUNK]
<1>1. b \in [1..INITCAP -> Byte] /\ INITCAP \in Nat
  BY CapAssumption DEF Byte
<1> HIDE DEF b
<1>2. b \in Seq(Byte) /\ Len(b) = INITCAP
  BY <1>1, FunctionIsSeq
<1>3. [buf |-> b, end |-> 0] \in Vectors
  BY <1>1, <1>2 DEF Vectors, Byte
<1> QED BY <1>3 DEF chvec_create, b

\* Growing leaves room, and the bytes up to the first NUL where they were.
LEMMA Growing ==
  ASSUME NEW cv \in Vectors
  PROVE  /\ Grown(cv) \in Vectors
         /\ Grown(cv).end = cv.end /\ cv.end < Len(Grown(cv).buf)
         /\ \A k \in 1..cv.end :
              (\A j \in 1..(k - 1) : cv.buf[j] # NUL) => Grown(cv).buf[k] = cv.buf[k]
<1>1. cv \in [buf : Seq(Byte), end : Nat] /\ cv.end <= Len(cv.buf) /\ cv.buf \in Seq(Byte) /\ cv.end \in Nat
  BY DEF Vectors, Byte
<1>2. CASE ~chvec_full(cv)
  BY <1>1, <1>2 DEF chvec_full, Grown
<1>3. CASE chvec_full(cv)
  <2> DEFINE sz == cv.end
             more == (2 * Len(cv.buf) + 1) - sz
             head == Copied(cv.buf, sz)
             tail == [k \in 1..more |-> JUNK]
  <2>1. sz = Len(cv.buf) /\ more \in Nat /\ more > 0
    BY <1>1, <1>3 DEF chvec_full
  <2>2. head \in [1..sz -> Byte]
    <3>1. \A k \in 1..sz : cv.buf[k] \in Byte
      BY <1>1, <2>1
    <3> QED BY <3>1 DEF Copied, Byte, Chars
  <2>3. tail \in [1..more -> Byte]
    BY DEF Byte
  <2>4. \A k \in 1..sz : (\A j \in 1..(k - 1) : cv.buf[j] # NUL) => head[k] = cv.buf[k]
    BY <1>1, <2>1 DEF Copied
  <2>5. Grown(cv) = [buf |-> head \o tail, end |-> cv.end]
    BY <1>3 DEF Grown, chvec_extend
  <2> HIDE DEF head, tail, more
  <2>6. head \in Seq(Byte) /\ Len(head) = sz /\ tail \in Seq(Byte) /\ Len(tail) = more
    BY <1>1, <2>1, <2>2, <2>3, FunctionIsSeq
  <2> DEFINE b == head \o tail
  <2>7. b \in Seq(Byte) /\ Len(b) = sz + more /\ \A k \in 1..sz : b[k] = head[k]
    BY <1>1, <2>1, <2>6
  <2> HIDE DEF b
  <2>8. Grown(cv) = [buf |-> b, end |-> cv.end]
    BY <1>1, <2>5 DEF b
  <2>9. [buf |-> b, end |-> cv.end] \in Vectors
    BY <1>1, <2>1, <2>7 DEF Vectors, Byte
  <2> QED BY <1>1, <2>1, <2>4, <2>7, <2>8, <2>9
<1> QED BY <1>2, <1>3

LEMMA Pushed ==
  ASSUME NEW cv \in Vectors, NEW c \in Chars
  PROVE  LET w == chvec_push_back(cv, c)
         IN  /\ w \in Vectors
             /\ w.end = cv.end + 1 /\ w.buf[cv.end + 1] = c
             /\ \A k \in 1..cv.end :
                  (\A j \in 1..(k - 1) : cv.buf[j] # NUL) => w.buf[k] = cv.buf[k]
<1> DEFINE g == Grown(cv)
           b == [g.buf EXCEPT ![g.end + 1] = c]
           w == chvec_push_back(cv, c)
<1>1. /\ g \in Vectors /\ g.end = cv.end /\ cv.end < Len(g.buf)
      /\ \A k \in 1..cv.end : (\A j \in 1..(k - 1) : cv.buf[j] # NUL) => g.buf[k] = cv.buf[k]
  BY Growing
<1>2. g.buf \in Seq(Byte) /\ cv.end \in Nat
  BY <1>1 DEF Vectors, Byte
<1>3. w = [buf |-> b, end |-> g.end + 1]
  BY DEF chvec_push_back
<1> HIDE DEF g
<1>4. /\ b \in Seq(Byte) /\ Len(b) = Len(g.buf) /\ b[cv.end + 1] = c
      /\ \A k \in 1..cv.end : b[k] = g.buf[k]
  <2>1. c \in Byte /\ cv.end + 1 \in 1..Len(g.buf) /\ g.end + 1 = cv.end + 1
    BY <1>1, <1>2 DEF Byte
  <2> QED BY <1>2, <2>1
<1> HIDE DEF b
<1>5. w \in Vectors
  BY <1>1, <1>2, <1>3, <1>4 DEF Vectors, Byte
<1>6. w.end = cv.end + 1 /\ w.buf = b
  BY <1>1, <1>3
<1> QED BY <1>1, <1>4, <1>5, <1>6

\* The character at the pointer: within the line, and NUL at its last byte.
LEMMA AtPointer ==
  ASSUME IInv, Parsing
  PROVE  /\ Char \in Byte
         /\ line.end \in Nat /\ p \in Nat /\ p + 1 <= line.end
         /\ Char # NUL => p + 1 < line.end
<1>1. /\ line.buf \in Seq(Byte) /\ line.end \in Nat /\ line.end <= Len(line.buf)
      /\ p \in Nat /\ p < line.end /\ line.buf[line.end] = NUL
  BY DEF IInv, TypeOK, Vectors, Byte, WithinLine, Terminated
<1>2. p + 1 \in 1..Len(line.buf)
  BY <1>1
<1> QED BY <1>1, <1>2 DEF Char
-----------------------------------------------------------------------------
LEMMA KeptByPush ==
  ASSUME IInv, pc = "read", NEW c \in Chars
  PROVE  LET w == chvec_push_back(line, c)
         IN  /\ w \in Vectors /\ w.end = Len(typed) + 1 /\ w.buf[w.end] = c
             /\ \A k \in 1..Len(typed) :
                  (\A j \in 1..(k - 1) : typed[j] # NUL) => w.buf[k] = typed[k]
<1> DEFINE w == chvec_push_back(line, c)
<1>1. line \in Vectors /\ typed \in Seq(Chars) /\ Len(typed) \in Nat /\ line.end = Len(typed)
  BY DEF IInv, TypeOK, Terminated
<1>2. /\ w \in Vectors /\ w.end = line.end + 1 /\ w.buf[line.end + 1] = c
      /\ \A k \in 1..line.end : (\A j \in 1..(k - 1) : line.buf[j] # NUL) => w.buf[k] = line.buf[k]
  BY <1>1, Pushed
<1> HIDE DEF w
<1>3. ASSUME NEW k \in 1..Len(typed), \A j \in 1..(k - 1) : typed[j] # NUL
      PROVE  w.buf[k] = typed[k]
  <2>1. \A j \in 1..k : line.buf[j] = typed[j]
    BY <1>1, <1>3 DEF IInv, Kept
  <2>2. \A j \in 1..(k - 1) : line.buf[j] # NUL
    BY <1>1, <1>3, <2>1
  <2> QED BY <1>1, <1>2, <1>3, <2>1, <2>2
<1> QED BY <1>1, <1>2, <1>3 DEF w

\* The commands the array is made for are all there are.
LEMMA AllCounted ==
  ASSUME IInv, pc \in {"array", "run"}
  PROVE  count_ncmds = Len(tree) /\ Len(tree) \in Nat
<1>1. tree \in Seq(Seq(Vectors)) /\ Len(tree) \in Nat
  BY DEF IInv, TypeOK
<1>2. \A k \in 1..Len(tree) : chvec_size(tree[k][1]) # 0
  <2> TAKE k \in 1..Len(tree)
  <2>1. tree[k] \in Seq(Vectors) /\ tree[k] # << >>
    BY <1>1 DEF IInv, Filled
  <2>2. 1 \in DOMAIN tree[k]
    BY <2>1
  <2> QED BY <1>1, <2>2 DEF IInv, Filled, chvec_size
<1> DEFINE P(n) == /\ n = Len(tree) \/ chvec_size(tree[n + 1][1]) = 0
                   /\ \A k \in 1..n : chvec_size(tree[k][1]) # 0
<1>3. ASSUME NEW n \in 0..Len(tree)
      PROVE  P(n) <=> n = Len(tree)
  <2>1. CASE n = Len(tree)
    BY <1>2, <2>1
  <2>2. CASE n # Len(tree)
    <3>1. n + 1 \in 1..Len(tree)
      BY <1>1, <2>2
    <3> QED BY <1>2, <2>2, <3>1
  <2> QED BY <2>1, <2>2
<1> HIDE DEF P
<1>4. count_ncmds = CHOOSE n \in 0..Len(tree) : P(n)
  BY DEF count_ncmds, P
<1>5. Len(tree) \in 0..Len(tree)
  BY <1>1
<1> QED BY <1>1, <1>3, <1>4, <1>5

LEMMA Start ==
  ASSUME Init
  PROVE  IInv
<1>1. chvec_create(INITCAP) \in Vectors /\ chvec_create(INITCAP).end = 0
  BY Created
<1> HIDE DEF chvec_create
<1>2. TypeOK
  BY <1>1 DEF Init, TypeOK
<1> QED BY <1>1, <1>2 DEF Init, IInv, Kept, WithinLine, Filled, Terminated, Parsing

\* The actions of ussh_read_line().
LEMMA Reading ==
  ASSUME IInv, TypeChar \/ EndLine \/ EndInput
  PROVE  IInv'
<1>1. /\ line \in Vectors /\ typed \in Seq(Chars) /\ Len(typed) \in Nat /\ pc = "read"
      /\ p = 0 /\ tree = << >> /\ line.end = Len(typed)
  BY DEF IInv, TypeOK, Terminated, TypeChar, EndLine, EndInput
<1>2. word \in Vectors
  BY DEF IInv, TypeOK
<1>3. CASE TypeChar
  <2>1. PICK c \in Chars : typed' = Append(typed, c) /\ line' = chvec_push_back(line, c)
    BY <1>3 DEF TypeChar
  <2>2. /\ line' \in Vectors /\ line'.end = Len(typed) + 1 /\ line'.buf[Len(typed) + 1] = c
        /\ \A k \in 1..Len(typed) :
             (\A j \in 1..(k - 1) : typed[j] # NUL) => line'.buf[k] = typed[k]
    BY <1>1, <2>1, KeptByPush
  <2>3. pc' = "read" /\ p' = 0 /\ tree' = << >> /\ word' = word
    BY <1>1, <1>3 DEF TypeChar, memory
  <2>4. /\ typed' \in Seq(Chars) /\ Len(typed') = Len(typed) + 1 /\ typed'[Len(typed) + 1] = c
        /\ \A k \in 1..Len(typed) : typed'[k] = typed[k]
    BY <1>1, <2>1
  <2>5. TypeOK'
    BY <1>2, <2>2, <2>3, <2>4 DEF TypeOK
  <2>6. Kept'
    <3> SUFFICES ASSUME NEW k \in 1..(Len(typed) + 1), \A j \in 1..(k - 1) : typed'[j] # NUL
                 PROVE  k <= line'.end /\ line'.buf[k] = typed'[k]
      BY <2>4 DEF Kept
    <3>1. \A j \in 1..(k - 1) : typed[j] # NUL
      BY <1>1, <2>4
    <3> QED BY <1>1, <2>2, <2>4, <3>1
  <2> QED BY <2>2, <2>3, <2>4, <2>5, <2>6 DEF IInv, WithinLine, Filled, Terminated, Parsing
<1>4. CASE EndLine
  <2>1. NUL \in Chars /\ line' = chvec_push_back(line, NUL)
    BY <1>4 DEF EndLine, EndedLine, Chars
  <2>2. /\ line' \in Vectors /\ line'.end = Len(typed) + 1 /\ line'.buf[line'.end] = NUL
        /\ \A k \in 1..Len(typed) :
             (\A j \in 1..(k - 1) : typed[j] # NUL) => line'.buf[k] = typed[k]
    BY <1>1, <2>1, KeptByPush
  <2>3. pc' = "command" /\ p' = 0 /\ tree' = << >> /\ word' = word /\ typed' = typed
    BY <1>1, <1>4 DEF EndLine, memory
  <2>4. TypeOK'
    BY <1>1, <1>2, <2>2, <2>3 DEF TypeOK
  <2>5. Kept'
    BY <1>1, <2>2, <2>3 DEF Kept
  <2> QED BY <1>1, <2>2, <2>3, <2>4, <2>5 DEF IInv, WithinLine, Filled, Terminated, Parsing
<1>5. CASE EndInput
  <2>1. /\ pc' = "exit" /\ line' = chvec_create(INITCAP) /\ typed' = << >>
        /\ p' = 0 /\ tree' = << >> /\ word' = word
    BY <1>1, <1>5 DEF EndInput, memory
  <2>2. TypeOK'
    BY <1>2, <2>1, Created DEF TypeOK
  <2> QED BY <2>1, <2>2 DEF IInv, Kept, WithinLine, Filled, Terminated, Parsing
<1> QED BY <1>3, <1>4, <1>5

\* What a step of the parser keeps whatever it does.
LEMMA SameLine ==
  ASSUME IInv, Parsing, typed' = typed, line' = line,
         p' \in Nat, Parsing' => p' < line.end, pc' # "read", pc' # "run"
  PROVE  Kept' /\ WithinLine' /\ Terminated' /\ (pc' = "run" => cmds' = get_command_arr')
BY DEF IInv, Kept, WithinLine, Terminated

\* The characters that move the pointer are none of them the NUL.
LEMMA Moving ==
  ASSUME IInv, Parsing, Char \in Idchars \cup Spaces \cup {BAR}
  PROVE  Char \in Chars /\ p + 1 \in Nat /\ p + 1 < line.end
<1>1. Char # NUL /\ Char \in Chars
  BY CharAssumption DEF Chars
<1> QED BY <1>1, AtPointer

LEMMA MovingPointer ==
  ASSUME IInv, Skip \/ InWord \/ Bar
  PROVE  IInv'
<1>1. /\ typed \in Seq(Chars) /\ line \in Vectors /\ word \in Vectors
      /\ tree \in Seq(Seq(Vectors))
  BY DEF IInv, TypeOK
<1>2. /\ Parsing /\ Char \in Chars /\ p + 1 \in Nat /\ p + 1 < line.end
      /\ p' = p + 1 /\ typed' = typed /\ line' = line /\ tree' = tree
  BY Moving DEF Skip, Skips, InWord, Bar, Parsing, memory
<1>3. pc' = (IF Bar THEN "command" ELSE pc)
  BY DEF Skip, InWord, Bar
<1>4. word' \in Vectors
  BY <1>1, <1>2, Pushed DEF Skip, InWord, Bar, memory
<1>5. TypeOK'
  BY <1>1, <1>2, <1>3, <1>4 DEF TypeOK, Parsing
<1>6. Filled'
  BY <1>2, <1>3 DEF IInv, Filled, Bar, Parsing
<1>7. pc' # "read" /\ pc' # "run"
  BY <1>2, <1>3 DEF Parsing
<1>8. Kept' /\ WithinLine' /\ Terminated' /\ (pc' = "run" => cmds' = get_command_arr')
  BY <1>2, <1>7, SameLine
<1> QED BY <1>5, <1>6, <1>8 DEF IInv

\* A step of the parser that leaves the pointer where it is.
LEMMA Standing ==
  ASSUME IInv, BeginCommand \/ EndWord \/ NextWord \/ EndParse
  PROVE  IInv'
<1>1. /\ typed \in Seq(Chars) /\ line \in Vectors /\ word \in Vectors
      /\ tree \in Seq(Seq(Vectors)) /\ Len(tree) \in Nat /\ p \in Nat
  BY DEF IInv, TypeOK
<1>2. /\ Parsing /\ p' = p /\ typed' = typed /\ line' = line
      /\ pc' \in {"word", "after", "array"}
  BY DEF BeginCommand, EndWord, NextWord, EndParse, Parsing
<1>3. Kept' /\ WithinLine' /\ Terminated' /\ (pc' = "run" => cmds' = get_command_arr')
  BY <1>1, <1>2, SameLine DEF IInv, WithinLine
<1>4. word' \in Vectors /\ tree' \in Seq(Seq(Vectors)) /\ Filled'
  <2>1. CASE BeginCommand
    <3>1. word' \in Vectors
      BY <2>1, Created DEF BeginCommand
    <3>2. pc = "command" /\ pc' = "word" /\ tree' = Append(tree, << >>)
      BY <2>1 DEF BeginCommand
    <3>3. << >> \in Seq(Vectors)
      OBVIOUS
    <3>4. /\ tree' \in Seq(Seq(Vectors)) /\ Len(tree') = Len(tree) + 1
          /\ DOMAIN tree' = 1..(Len(tree) + 1) /\ tree'[Len(tree) + 1] = << >>
          /\ \A k \in 1..Len(tree) : tree'[k] = tree[k]
      BY <1>1, <3>2, <3>3
    <3>5. \A k \in 1..Len(tree) : tree[k] # << >> /\ \A j \in DOMAIN tree[k] : tree[k][j].end # 0
      BY <1>1, <3>2 DEF IInv, Filled
    <3>6. \A k \in DOMAIN tree' : k \in 1..Len(tree) \/ k = Len(tree) + 1
      BY <1>1, <3>4
    <3>7. \A k \in DOMAIN tree' : \A j \in DOMAIN tree'[k] : tree'[k][j].end # 0
      <4> TAKE k \in DOMAIN tree'
      <4>1. CASE k \in 1..Len(tree)
        BY <3>4, <3>5, <4>1
      <4>2. CASE k = Len(tree) + 1
        BY <3>4, <4>2
      <4> QED BY <3>6, <4>1, <4>2
    <3>8. \A k \in DOMAIN tree' : tree'[k] = << >> => k = Len(tree')
      BY <3>4, <3>5, <3>6
    <3>9. tree' # << >>
      BY <1>1, <3>4
    <3> QED BY <3>1, <3>2, <3>4, <3>7, <3>8, <3>9 DEF Filled
  <2>2. CASE EndWord
    <3> DEFINE n == Len(tree)
               cmd == Append(tree[n], Ended)
    <3>1. /\ pc = "word" /\ pc' = "after" /\ word' = word
          /\ tree' = [tree EXCEPT ![n] = cmd]
      BY <2>2 DEF EndWord
    <3>2. Ended \in Vectors /\ Ended.end # 0
      <4>1. NUL \in Chars /\ word.end \in Nat
        BY <1>1 DEF Chars, Vectors
      <4> QED BY <1>1, <4>1, Pushed DEF Ended
    <3>3. n \in 1..n /\ tree[n] \in Seq(Vectors)
      BY <1>1, <3>1 DEF IInv, Filled
    <3>4. /\ cmd \in Seq(Vectors) /\ cmd # << >>
          /\ \A j \in DOMAIN cmd : cmd[j] = Ended \/ (j \in DOMAIN tree[n] /\ cmd[j] = tree[n][j])
      BY <3>2, <3>3
    <3>5. \A j \in DOMAIN cmd : cmd[j].end # 0
      BY <1>1, <3>2, <3>3, <3>4 DEF IInv, Filled
    <3> HIDE DEF cmd
    <3>6. /\ tree' \in Seq(Seq(Vectors)) /\ Len(tree') = n /\ DOMAIN tree' = 1..n
          /\ tree'[n] = cmd /\ \A k \in 1..n : k # n => tree'[k] = tree[k]
      BY <1>1, <3>1, <3>3, <3>4
    <3>7. \A k \in 1..n : k # n =>
            tree[k] # << >> /\ \A j \in DOMAIN tree[k] : tree[k][j].end # 0
      BY <1>1 DEF IInv, Filled
    <3>8. \A k \in DOMAIN tree' : tree'[k] # << >>
      BY <3>4, <3>6, <3>7
    <3>9. \A k \in DOMAIN tree' : \A j \in DOMAIN tree'[k] : tree'[k][j].end # 0
      BY <3>5, <3>6, <3>7
    <3>10. tree' # << >>
      <4>1. DOMAIN tree' # {}
        BY <3>3, <3>6
      <4> QED BY <4>1
    <3> QED BY <1>1, <3>1, <3>6, <3>8, <3>9, <3>10 DEF Filled
  <2>3. CASE NextWord
    BY <1>1, <2>3, Created DEF NextWord, IInv, Filled
  <2>4. CASE EndParse
    BY <1>1, <2>4 DEF EndParse, memory, IInv, Filled
  <2> QED BY <2>1, <2>2, <2>3, <2>4
<1>5. TypeOK'
  BY <1>1, <1>2, <1>4 DEF TypeOK
<1> QED BY <1>3, <1>4, <1>5 DEF IInv

LEMMA HandingOver ==
  ASSUME IInv, MakeArray \/ Free
  PROVE  IInv'
<1>1. CASE MakeArray
  <2>1. /\ pc = "array" /\ pc' = "run" /\ typed' = typed /\ line' = line /\ p' = p
        /\ tree' = tree /\ word' = word /\ cmds' = get_command_arr
    BY <1>1 DEF MakeArray
  <2>2. get_command_arr' = get_command_arr
    BY <2>1 DEF get_command_arr, count_ncmds
  <2> QED BY <2>1, <2>2 DEF IInv, TypeOK, Kept, WithinLine, Parsing, Filled, Terminated
<1>2. CASE Free
  <2>1. /\ pc' = "read" /\ typed' = << >> /\ line' = chvec_create(INITCAP)
        /\ p' = 0 /\ tree' = << >> /\ word' = chvec_create(INITCAP)
    BY <1>2 DEF Free, tr_free
  <2>2. TypeOK'
    BY <2>1, Created DEF TypeOK
  <2> QED BY <2>1, <2>2, Created DEF IInv, Kept, WithinLine, Filled, Terminated, Parsing
<1> QED BY <1>1, <1>2

LEMMA Inductive == IInv /\ [Next]_vars => IInv'
<1> SUFFICES ASSUME IInv, [Next]_vars
             PROVE  IInv'
  OBVIOUS
<1>1. CASE UNCHANGED vars
  BY <1>1 DEF vars, memory, IInv, TypeOK, Kept, WithinLine, Parsing, Filled, Terminated,
              get_command_arr, count_ncmds
<1>2. CASE TypeChar \/ EndLine \/ EndInput
  BY <1>2, Reading
<1>3. CASE Parse
  BY <1>3, MovingPointer, Standing DEF Parse
<1>4. CASE MakeArray \/ Free
  BY <1>4, HandingOver
<1> QED BY <1>1, <1>2, <1>3, <1>4 DEF Next

LEMMA Invariance == Spec => []IInv
<1>1. Init => IInv
  BY Start
<1> QED BY <1>1, Inductive, PTL DEF Spec
-----------------------------------------------------------------------------
\* Every vector of the shell keeps its end within its capacity, and the tree
\* is one of vectors: the type invariant of the reader and the parser.
THEOREM TypeCorrect == Spec => []TypeOK
<1>1. IInv => TypeOK
  BY DEF IInv
<1> QED BY <1>1, Invariance, PTL

\* The vector holds the line as it was typed, up to the first NUL in it, for
\* every length of the line and however often chvec_extend() has moved it.
THEOREM KeptHolds == Spec => []Kept
<1>1. IInv => Kept
  BY DEF IInv
<1> QED BY <1>1, Invariance, PTL

\* The parser never reads behind the bytes ussh_read_line() has written, and
\* get_command_arr() fills exactly the array that count_ncmds() has sized, the
\* null pointer at its end: no command it counts is an empty vector.
THEOREM InBoundsHolds == Spec => []InBounds
<1>1. IInv => WithinLine
  BY DEF IInv
<1>2. IInv => ArrayFits
  <2> SUFFICES ASSUME IInv, pc = "run"
               PROVE  /\ DOMAIN cmds = 0..count_ncmds /\ count_ncmds = Len(tree)
                      /\ cmds[count_ncmds] = NULL
    BY DEF ArrayFits
  <2>1. count_ncmds = Len(tree) /\ Len(tree) \in Nat
    BY AllCounted
  <2>2. cmds = [k \in (0..(Len(tree) - 1)) \cup {count_ncmds} |->
                  IF k < Len(tree) THEN tr_list_to_sarr(tree[k + 1]) ELSE NULL]
    BY DEF IInv, get_command_arr
  <2>3. (0..(Len(tree) - 1)) \cup {Len(tree)} = 0..Len(tree)
    BY <2>1
  <2> QED BY <2>1, <2>2, <2>3
<1>3. IInv => InBounds
  BY <1>1, <1>2 DEF InBounds
<1> QED BY <1>3, Invariance, PTL
-----------------------------------------------------------------------------
(* What the parser has made of the characters before its pointer: the      *)
(* operators take the line and the number of characters read.              *)

Bars(s, n) == Cardinality({k \in 1..n : s[k] = BAR})

\* The words of command c that begin among the first n characters, and the
\* number of them.
Begun(s, c, n) == {k \in 1..n : /\ s[k] \in Idchars /\ Bars(s, k) = c - 1
                                /\ k = 1 \/ s[k - 1] \notin Idchars}
Count(s, c, n) == Cardinality(Begun(s, c, n))

\* The vector holds the whole word that begins at k, and a NUL.
Holds(s, cv, k) ==
  LET e == k + cv.end - 2
  IN  /\ cv.end > 1 /\ e <= Len(s)
      /\ \A j \in k..e : s[j] \in Idchars
      /\ e = Len(s) \/ s[e + 1] \notin Idchars
      /\ \A j \in 1..(cv.end - 1) : cv.buf[j] = s[k + j - 1]
      /\ cv.buf[cv.end] = NUL

\* Word number w of command c is the w-th that begins in it.
Spelled(s, words, c, n) ==
  /\ Len(words) = Count(s, c, n)
  /\ \A k \in Begun(s, c, n) : Count(s, c, k) \in 1..Len(words) /\ Holds(s, words[Count(s, c, k)], k)
  /\ \A w \in 1..Len(words) : \E k \in Begun(s, c, n) : Count(s, c, k) = w

\* A command without words has the empty one.
Blank(s, words, c, n) ==
  Begun(s, c, n) = {} /\ Len(words) = 1 /\ words[1].end = 1 /\ words[1].buf[1] = NUL

Done(s, words, c, n) == Spelled(s, words, c, n) \/ Blank(s, words, c, n)

ReadTo(s, n) == n <= Len(s) /\ \A k \in 1..n : s[k] \in Known

AtCommand ==
  /\ Len(tree) = Bars(typed, p) /\ Begun(typed, Bars(typed, p) + 1, p) = {}
  /\ p = 0 \/ typed[p] \notin Idchars
  /\ \A c \in 1..Len(tree) : Done(typed, tree[c], c, p)

\* The word being read begins behind a character of none.
From == p + 1 - word.end

AtWord ==
  /\ Len(tree) = Bars(typed, p) + 1
  /\ From >= 1 /\ (From = 1 \/ typed[From - 1] \notin Idchars)
  /\ \A j \in From..p : typed[j] \in Idchars
  /\ \A j \in 1..word.end : word.buf[j] = typed[From + j - 1]
  /\ word.end = 0 => Char \notin Spaces /\ (tree[Len(tree)] # << >> => Char \in Idchars)
  /\ Spelled(typed, tree[Len(tree)], Len(tree), From - 1)
  /\ \A c \in 1..(Len(tree) - 1) : Done(typed, tree[c], c, p)

AtAfter ==
  /\ Len(tree) = Bars(typed, p) + 1
  /\ Char \in Idchars => p = 0 \/ typed[p] \notin Idchars
  /\ Blank(typed, tree[Len(tree)], Len(tree), p) => Char \notin Idchars \cup Spaces
  /\ \A c \in 1..Len(tree) : Done(typed, tree[c], c, p)

AllRead ==
  /\ Len(tree) = Bars(typed, p) + 1
  /\ ReadTo(typed, p) /\ (p = Len(typed) \/ typed[p + 1] \notin Known)
  /\ \A c \in 1..Len(tree) : Done(typed, tree[c], c, p)

SInv ==
  /\ Parsing => line.end = Len(typed) + 1 /\ ReadTo(typed, p)
  /\ pc = "command" => AtCommand
  /\ pc = "word" => AtWord
  /\ pc = "after" => AtAfter
  /\ pc \in {"array", "run"} => AllRead
-----------------------------------------------------------------------------
LEMMA BarsType ==
  ASSUME NEW s, NEW n \in Nat
  PROVE  IsFiniteSet({k \in 1..n : s[k] = BAR}) /\ Bars(s, n) \in Nat
<1>1. IsFiniteSet(1..n)
  BY FS_Interval
<1>2. IsFiniteSet({k \in 1..n : s[k] = BAR})
  BY <1>1, FS_Subset
<1> QED BY <1>2, FS_CardinalityType DEF Bars

LEMMA BarsStep ==
  ASSUME NEW s, NEW n \in Nat
  PROVE  Bars(s, n + 1) = IF s[n + 1] = BAR THEN Bars(s, n) + 1 ELSE Bars(s, n)
<1> DEFINE S == {k \in 1..n : s[k] = BAR}
           T == {k \in 1..(n + 1) : s[k] = BAR}
<1>1. CASE s[n + 1] = BAR
  <2>1. T = S \cup {n + 1} /\ n + 1 \notin S
    BY <1>1
  <2>2. IsFiniteSet(S)
    BY BarsType
  <2> HIDE DEF S, T
  <2>3. Cardinality(T) = Cardinality(S) + 1
    BY <2>1, <2>2, FS_AddElement
  <2> QED BY <1>1, <2>3 DEF S, T, Bars
<1>2. CASE s[n + 1] # BAR
  <2>1. T = S
    BY <1>2
  <2> QED BY <1>2, <2>1 DEF Bars
<1> QED BY <1>1, <1>2

LEMMA BarsSame ==
  ASSUME NEW s, NEW k \in Nat, NEW n \in Nat, k <= n, \A j \in (k + 1)..n : s[j] # BAR
  PROVE  Bars(s, k) = Bars(s, n)
<1>1. {j \in 1..k : s[j] = BAR} = {j \in 1..n : s[j] = BAR}
  OBVIOUS
<1> QED BY <1>1 DEF Bars

LEMMA BarsGrow ==
  ASSUME NEW s, NEW k \in Nat, NEW n \in Nat, k <= n
  PROVE  Bars(s, k) <= Bars(s, n)
<1> DEFINE S == {j \in 1..k : s[j] = BAR}
           T == {j \in 1..n : s[j] = BAR}
<1>1. S \subseteq T /\ IsFiniteSet(T)
  <2>1. IsFiniteSet(T)
    BY BarsType
  <2>2. S \subseteq T
    OBVIOUS
  <2> QED BY <2>1, <2>2
<1> HIDE DEF S, T
<1>2. Cardinality(S) <= Cardinality(T)
  BY <1>1, FS_Subset
<1> QED BY <1>2 DEF S, T, Bars

LEMMA BegunType ==
  ASSUME NEW s, NEW c, NEW n \in Nat
  PROVE  IsFiniteSet(Begun(s, c, n)) /\ Count(s, c, n) \in Nat /\ Begun(s, c, n) \subseteq 1..n
<1>1. IsFiniteSet(1..n) /\ Begun(s, c, n) \subseteq 1..n
  BY FS_Interval DEF Begun
<1>2. IsFiniteSet(Begun(s, c, n))
  BY <1>1, FS_Subset
<1> QED BY <1>1, <1>2, FS_CardinalityType DEF Count

\* No word of the command begins behind character k.
LEMMA BegunSame ==
  ASSUME NEW s, NEW c, NEW k \in Nat, NEW n \in Nat, k <= n,
         \A j \in (k + 1)..n : s[j] \notin Idchars \/ Bars(s, j) # c - 1 \/ (j # 1 /\ s[j - 1] \in Idchars)
  PROVE  Begun(s, c, n) = Begun(s, c, k)
BY DEF Begun

LEMMA BegunNext ==
  ASSUME NEW s, NEW c, NEW k \in Nat \ {0}, k \in Begun(s, c, k)
  PROVE  Begun(s, c, k) = Begun(s, c, k - 1) \cup {k} /\ Count(s, c, k) = Count(s, c, k - 1) + 1
<1>1. Begun(s, c, k) = Begun(s, c, k - 1) \cup {k} /\ k \notin Begun(s, c, k - 1)
  BY DEF Begun
<1>2. IsFiniteSet(Begun(s, c, k - 1))
  BY BegunType
<1> QED BY <1>1, <1>2, FS_AddElement DEF Count

\* What is done stays done while nothing of the command begins.
LEMMA DoneStays ==
  ASSUME NEW s, NEW words, NEW c, NEW k, NEW n, Begun(s, c, n) = Begun(s, c, k)
  PROVE  /\ Spelled(s, words, c, n) <=> Spelled(s, words, c, k)
         /\ Blank(s, words, c, n) <=> Blank(s, words, c, k)
         /\ Done(s, words, c, n) <=> Done(s, words, c, k)
BY DEF Spelled, Blank, Done, Count

\* The next character begins no word of a command before the last, and none
\* of any command unless it may be in a word.
LEMMA BegunStays ==
  ASSUME NEW s, NEW c \in Nat, NEW n \in Nat, c <= Bars(s, n) \/ s[n + 1] \notin Idchars
  PROVE  Begun(s, c, n + 1) = Begun(s, c, n)
<1>1. Bars(s, n) \in Nat /\ Bars(s, n + 1) \in Nat /\ Bars(s, n) <= Bars(s, n + 1)
  <2>1. n + 1 \in Nat /\ n <= n + 1
    OBVIOUS
  <2> QED BY <2>1, BarsType, BarsGrow
<1>2. s[n + 1] \notin Idchars \/ Bars(s, n + 1) # c - 1
  BY <1>1
<1>3. \A j \in (n + 1)..(n + 1) : j = n + 1
  OBVIOUS
<1>4. \A j \in (n + 1)..(n + 1) : s[j] \notin Idchars \/ Bars(s, j) # c - 1 \/ (j # 1 /\ s[j - 1] \in Idchars)
  BY <1>2, <1>3
<1> QED BY <1>4, BegunSame

\* A word more is spelled.
LEMMA OneMore ==
  ASSUME NEW s, NEW words \in Seq(Vectors), NEW cv \in Vectors, NEW c,
         NEW k \in Nat \ {0}, NEW n \in Nat,
         Spelled(s, words, c, k - 1), k \in Begun(s, c, k), Begun(s, c, n) = Begun(s, c, k), Holds(s, cv, k)
  PROVE  Spelled(s, Append(words, cv), c, n)
<1> DEFINE more == Append(words, cv)
<1>1. /\ Len(words) \in Nat /\ Len(more) = Len(words) + 1 /\ more[Len(words) + 1] = cv
      /\ \A w \in 1..Len(words) : more[w] = words[w]
  OBVIOUS
<1> HIDE DEF more
<1>2. Begun(s, c, n) = Begun(s, c, k - 1) \cup {k} /\ Count(s, c, n) = Len(words) + 1 /\ Count(s, c, k) = Len(words) + 1
  <2>1. Begun(s, c, k) = Begun(s, c, k - 1) \cup {k} /\ Count(s, c, k) = Count(s, c, k - 1) + 1
    BY BegunNext
  <2>2. Count(s, c, k - 1) = Len(words)
    BY DEF Spelled
  <2>3. Count(s, c, n) = Count(s, c, k)
    BY DEF Count
  <2> QED BY <2>1, <2>2, <2>3
<1>3. ASSUME NEW j \in Begun(s, c, n)
      PROVE  Count(s, c, j) \in 1..Len(more) /\ Holds(s, more[Count(s, c, j)], j)
  <2>1. CASE j = k
    BY <1>1, <1>2, <2>1
  <2>2. CASE j \in Begun(s, c, k - 1)
    <3>1. Count(s, c, j) \in 1..Len(words) /\ Holds(s, words[Count(s, c, j)], j)
      BY <2>2 DEF Spelled
    <3> QED BY <1>1, <3>1
  <2> QED BY <1>2, <2>1, <2>2
<1>4. ASSUME NEW w \in 1..Len(more)
      PROVE  \E j \in Begun(s, c, n) : Count(s, c, j) = w
  <2>1. CASE w = Len(words) + 1
    BY <1>2, <2>1
  <2>2. CASE w \in 1..Len(words)
    <3>1. PICK j \in Begun(s, c, k - 1) : Count(s, c, j) = w
      BY <2>2 DEF Spelled
    <3> QED BY <1>2, <3>1
  <2> QED BY <1>1, <2>1, <2>2
<1>5. Spelled(s, more, c, n)
  BY <1>1, <1>2, <1>3, <1>4 DEF Spelled
<1> QED BY <1>5 DEF more
-----------------------------------------------------------------------------
LEMMA Types ==
  ASSUME IInv
  PROVE  /\ typed \in Seq(Chars) /\ Len(typed) \in Nat /\ p \in Nat
         /\ word \in Vectors /\ word.end \in Nat
         /\ tree \in Seq(Seq(Vectors)) /\ Len(tree) \in Nat
         /\ line \in Vectors
<1>1. typed \in Seq(Chars) /\ p \in Nat /\ word \in Vectors /\ tree \in Seq(Seq(Vectors)) /\ line \in Vectors
  BY DEF IInv, TypeOK
<1>2. Len(typed) \in Nat /\ Len(tree) \in Nat
  BY <1>1
<1>3. word.end \in Nat
  BY <1>1 DEF Vectors
<1> QED BY <1>1, <1>2, <1>3

\* The character at the pointer is the one typed, or the NUL behind them all.
LEMMA CharTyped ==
  ASSUME IInv, SInv, Parsing
  PROVE  /\ p <= Len(typed)
         /\ p < Len(typed) => Char = typed[p + 1]
         /\ p = Len(typed) => Char = NUL
<1>1. /\ line.end = Len(typed) + 1 /\ p <= Len(typed) /\ \A k \in 1..p : typed[k] \in Known
      /\ line.buf[line.end] = NUL
  BY DEF SInv, ReadTo, IInv, Terminated
<1>2. ASSUME p < Len(typed) PROVE Char = typed[p + 1]
  <2>1. p + 1 \in DOMAIN typed
    BY <1>2, Types
  <2>2. \A j \in 1..((p + 1) - 1) : typed[j] # NUL
    <3>1. NUL \notin Known
      BY CharAssumption DEF Known
    <3>2. (p + 1) - 1 = p
      BY Types
    <3> QED BY <1>1, <3>1, <3>2
  <2>3. line.buf[p + 1] = typed[p + 1]
    BY <2>1, <2>2 DEF IInv, Kept
  <2> QED BY <2>3 DEF Char
<1>3. ASSUME p = Len(typed) PROVE Char = NUL
  BY <1>1, <1>3 DEF Char
<1> QED BY <1>1, <1>2, <1>3

\* Reading on over a character of the line.
LEMMA OneRead ==
  ASSUME IInv, SInv, Parsing, Char \in Known
  PROVE  /\ p + 1 \in Nat /\ p + 1 <= Len(typed) /\ typed[p + 1] = Char /\ ReadTo(typed, p + 1)
         /\ Bars(typed, p) \in Nat
         /\ Bars(typed, p + 1) = IF Char = BAR THEN Bars(typed, p) + 1 ELSE Bars(typed, p)
<1>1. NUL \notin Known
  BY CharAssumption DEF Known
<1>2. p < Len(typed) /\ typed[p + 1] = Char
  BY <1>1, CharTyped, Types
<1>3. ReadTo(typed, p)
  BY DEF SInv
<1>4. ReadTo(typed, p + 1)
  <2>1. ASSUME NEW k \in 1..(p + 1) PROVE typed[k] \in Known
    <3>1. k \in 1..p \/ k = p + 1
      BY Types
    <3> QED BY <1>2, <1>3, <3>1 DEF ReadTo
  <2> QED BY <1>2, <2>1, Types DEF ReadTo
<1>5. Bars(typed, p) \in Nat /\ Bars(typed, p + 1) = IF Char = BAR THEN Bars(typed, p) + 1 ELSE Bars(typed, p)
  BY <1>2, Types, BarsType, BarsStep
<1> QED BY <1>2, <1>4, <1>5, Types

\* What is done of the commands stays done over a character that begins no word.
LEMMA AllStay ==
  ASSUME IInv, NEW m \in Nat, m <= Len(tree),
         m <= Bars(typed, p) \/ typed[p + 1] \notin Idchars,
         \A c \in 1..m : Done(typed, tree[c], c, p)
  PROVE  \A c \in 1..m : Done(typed, tree[c], c, p + 1)
<1> TAKE c \in 1..m
<1>1. c \in Nat /\ (c <= Bars(typed, p) \/ typed[p + 1] \notin Idchars)
  <2>1. c \in Nat /\ c <= m
    BY Types
  <2>2. Bars(typed, p) \in Nat
    BY Types, BarsType
  <2> QED BY <2>1, <2>2
<1>2. Begun(typed, c, p + 1) = Begun(typed, c, p)
  BY <1>1, Types, BegunStays
<1> QED BY <1>2, DoneStays

\* The characters of words, blanks and bars are different.
LEMMA Apart ==
  /\ Idchars \cup Spaces \cup {BAR} = Known
  /\ \A c \in Idchars : c \notin Spaces /\ c # BAR
  /\ \A c \in Spaces : c \notin Idchars /\ c # BAR
  /\ BAR \notin Idchars \cup Spaces /\ NUL \notin Known
BY CharAssumption DEF Known

LEMMA SkipSpells ==
  ASSUME IInv, SInv, Skip
  PROVE  SInv'
<1>1. /\ Parsing /\ Char \in Spaces /\ pc \in {"command", "after"}
      /\ p' = p + 1 /\ pc' = pc /\ typed' = typed /\ line' = line /\ tree' = tree
  BY DEF Skip, Skips, Parsing, memory
<1>2. Char \in Known /\ Char \notin Idchars /\ Char # BAR
  BY <1>1, Apart
<1>3. /\ p + 1 \in Nat /\ p + 1 <= Len(typed) /\ typed[p + 1] = Char /\ ReadTo(typed, p + 1)
      /\ Bars(typed, p) \in Nat /\ Bars(typed, p + 1) = Bars(typed, p)
  BY <1>1, <1>2, OneRead
<1>4. CASE pc = "command"
  <2>1. /\ Len(tree) = Bars(typed, p) /\ Begun(typed, Bars(typed, p) + 1, p) = {}
        /\ \A c \in 1..Len(tree) : Done(typed, tree[c], c, p)
    BY <1>4 DEF SInv, AtCommand
  <2>2. \A c \in 1..Len(tree) : Done(typed, tree[c], c, p + 1)
    <3>1. Len(tree) \in Nat /\ Len(tree) <= Len(tree) /\ typed[p + 1] \notin Idchars
      BY <1>2, <1>3, Types
    <3> QED BY <2>1, <3>1, AllStay
  <2>3. Begun(typed, Bars(typed, p) + 1, p + 1) = {}
    BY <1>2, <1>3, <2>1, Types, BegunStays
  <2>4. AtCommand'
    BY <1>1, <1>2, <1>3, <2>1, <2>2, <2>3 DEF AtCommand
  <2> QED BY <1>1, <1>3, <1>4, <2>4 DEF SInv, Parsing
<1>5. CASE pc = "after"
  <2>1. /\ Len(tree) = Bars(typed, p) + 1
        /\ Blank(typed, tree[Len(tree)], Len(tree), p) => Char \notin Idchars \cup Spaces
        /\ \A c \in 1..Len(tree) : Done(typed, tree[c], c, p)
    BY <1>5 DEF SInv, AtAfter
  <2>2. \A c \in 1..Len(tree) : Done(typed, tree[c], c, p + 1)
    <3>1. Len(tree) \in Nat /\ Len(tree) <= Len(tree) /\ typed[p + 1] \notin Idchars
      BY <1>2, <1>3, Types
    <3> QED BY <2>1, <3>1, AllStay
  <2>3. ~Blank(typed, tree[Len(tree)], Len(tree), p + 1)
    <3>1. Len(tree) \in Nat /\ p \in Nat /\ typed[p + 1] \notin Idchars
      BY <1>2, <1>3, Types
    <3>2. Begun(typed, Len(tree), p + 1) = Begun(typed, Len(tree), p)
      BY <3>1, BegunStays
    <3>3. ~Blank(typed, tree[Len(tree)], Len(tree), p)
      BY <1>1, <2>1
    <3> QED BY <3>2, <3>3, DoneStays
  <2>4. AtAfter'
    <3>1. p' # 0 => typed'[p'] \notin Idchars
      BY <1>1, <1>2, <1>3
    <3>2. Len(tree') = Bars(typed', p') + 1
      BY <1>1, <1>3, <2>1
    <3>3. ~Blank(typed', tree'[Len(tree')], Len(tree'), p')
      BY <1>1, <2>3
    <3>4. \A c \in 1..Len(tree') : Done(typed', tree'[c], c, p')
      BY <1>1, <2>2
    <3> QED BY <3>1, <3>2, <3>3, <3>4 DEF AtAfter
  <2> QED BY <1>1, <1>3, <1>5, <2>4 DEF SInv, Parsing
<1> QED BY <1>1, <1>4, <1>5

LEMMA BarSpells ==
  ASSUME IInv, SInv, Bar
  PROVE  SInv'
<1>1. /\ Parsing /\ Char = BAR /\ pc = "after" /\ pc' = "command"
      /\ p' = p + 1 /\ typed' = typed /\ line' = line /\ tree' = tree
  BY DEF Bar, Parsing, memory
<1>2. Char \in Known /\ Char \notin Idchars
  BY <1>1, Apart
<1>3. /\ p + 1 \in Nat /\ p + 1 <= Len(typed) /\ typed[p + 1] = Char /\ ReadTo(typed, p + 1)
      /\ Bars(typed, p) \in Nat /\ Bars(typed, p + 1) = Bars(typed, p) + 1
  BY <1>1, <1>2, OneRead
<1>4. Len(tree) = Bars(typed, p) + 1 /\ \A c \in 1..Len(tree) : Done(typed, tree[c], c, p)
  BY <1>1 DEF SInv, AtAfter
<1>5. \A c \in 1..Len(tree) : Done(typed, tree[c], c, p + 1)
  BY <1>2, <1>3, <1>4, Types, AllStay
<1>6. Begun(typed, Bars(typed, p + 1) + 1, p + 1) = {}
  <2> SUFFICES ASSUME NEW k \in Begun(typed, Bars(typed, p + 1) + 1, p + 1)
               PROVE  FALSE
    OBVIOUS
  <2>1. k \in 1..(p + 1) /\ typed[k] \in Idchars /\ Bars(typed, k) = (Bars(typed, p + 1) + 1) - 1
    BY DEF Begun
  <2>2. k \in Nat /\ k <= p
    BY <1>2, <1>3, <2>1, Types
  <2>3. Bars(typed, k) <= Bars(typed, p) /\ Bars(typed, k) \in Nat
    BY <2>2, Types, BarsGrow, BarsType
  <2> QED BY <1>3, <2>1, <2>3
<1>7. AtCommand'
  BY <1>1, <1>2, <1>3, <1>4, <1>5, <1>6 DEF AtCommand
<1> QED BY <1>1, <1>3, <1>7 DEF SInv, Parsing

\* A new command, or a new word of the command: nothing of it is read yet.
LEMMA BeginSpells ==
  ASSUME IInv, SInv, BeginCommand
  PROVE  SInv'
<1>1. /\ Parsing /\ pc = "command" /\ pc' = "word" /\ Char \notin Spaces
      /\ p' = p /\ typed' = typed /\ line' = line /\ tree' = Append(tree, << >>)
      /\ word' = chvec_create(INITCAP)
  BY DEF BeginCommand, Skips, Parsing
<1>2. word'.end = 0 /\ Char' = Char
  BY <1>1, Created DEF Char
<1>3. /\ Len(tree) = Bars(typed, p) /\ Begun(typed, Len(tree) + 1, p) = {}
      /\ (p = 0 \/ typed[p] \notin Idchars)
      /\ \A c \in 1..Len(tree) : Done(typed, tree[c], c, p)
  BY <1>1 DEF SInv, AtCommand
<1>4. /\ Len(tree') = Len(tree) + 1 /\ tree'[Len(tree) + 1] = << >>
      /\ \A c \in 1..Len(tree) : tree'[c] = tree[c]
  BY <1>1, Types
<1>5. Spelled(typed, << >>, Len(tree) + 1, p)
  <2>1. Count(typed, Len(tree) + 1, p) = 0
    BY <1>3, FS_EmptySet DEF Count
  <2>2. Len(<< >>) = 0 /\ 1..0 = {}
    OBVIOUS
  <2> QED BY <1>3, <2>1, <2>2 DEF Spelled
<1>6. From' = p + 1 /\ p \in Nat /\ Len(tree) \in Nat
  BY <1>1, <1>2, Types DEF From
<1>7. AtWord'
  <2>1. Len(tree') = Bars(typed', p') + 1
    BY <1>1, <1>3, <1>4
  <2>2. From' >= 1 /\ (From' = 1 \/ typed'[From' - 1] \notin Idchars)
    BY <1>1, <1>3, <1>6
  <2>3. /\ \A j \in From'..p' : typed'[j] \in Idchars
        /\ \A j \in 1..word'.end : word'.buf[j] = typed'[From' + j - 1]
    BY <1>1, <1>2, <1>6
  <2>4. word'.end = 0 => Char' \notin Spaces /\ (tree'[Len(tree')] # << >> => Char' \in Idchars)
    BY <1>1, <1>2, <1>4
  <2>5. Spelled(typed', tree'[Len(tree')], Len(tree'), From' - 1)
    <3>1. (p + 1) - 1 = p
      BY <1>6
    <3> QED BY <1>1, <1>4, <1>5, <1>6, <3>1
  <2>6. \A c \in 1..(Len(tree') - 1) : Done(typed', tree'[c], c, p')
    <3>1. Len(tree') - 1 = Len(tree)
      BY <1>4, <1>6
    <3> QED BY <1>1, <1>3, <1>4, <3>1
  <2> QED BY <2>1, <2>2, <2>3, <2>4, <2>5, <2>6 DEF AtWord
<1>8. line.end = Len(typed) + 1 /\ ReadTo(typed, p)
  BY <1>1 DEF SInv
<1> QED BY <1>1, <1>7, <1>8 DEF SInv, Parsing

LEMMA NextWordSpells ==
  ASSUME IInv, SInv, NextWord
  PROVE  SInv'
<1>1. /\ Parsing /\ pc = "after" /\ pc' = "word" /\ Char \in Idchars
      /\ p' = p /\ typed' = typed /\ line' = line /\ tree' = tree
      /\ word' = chvec_create(INITCAP)
  BY DEF NextWord, Parsing
<1>2. word'.end = 0 /\ Char' = Char /\ Char \notin Spaces
  BY <1>1, Created, Apart DEF Char
<1>3. /\ Len(tree) = Bars(typed, p) + 1
      /\ (p = 0 \/ typed[p] \notin Idchars)
      /\ ~Blank(typed, tree[Len(tree)], Len(tree), p)
      /\ \A c \in 1..Len(tree) : Done(typed, tree[c], c, p)
  BY <1>1 DEF SInv, AtAfter
<1>4. From' = p + 1 /\ p \in Nat /\ Len(tree) \in Nat /\ Bars(typed, p) \in Nat
  <2>1. p \in Nat /\ Len(tree) \in Nat
    BY Types
  <2>2. Bars(typed, p) \in Nat
    BY <2>1, BarsType
  <2> QED BY <1>1, <1>2, <2>1, <2>2 DEF From
<1>5. Spelled(typed, tree[Len(tree)], Len(tree), p)
  <2>1. Len(tree) \in 1..Len(tree)
    BY <1>3, <1>4
  <2> QED BY <1>3, <2>1 DEF Done
<1>6. AtWord'
  <2>1. Len(tree') = Bars(typed', p') + 1
    BY <1>1, <1>3
  <2>2. From' >= 1 /\ (From' = 1 \/ typed'[From' - 1] \notin Idchars)
    BY <1>1, <1>3, <1>4
  <2>3. /\ \A j \in From'..p' : typed'[j] \in Idchars
        /\ \A j \in 1..word'.end : word'.buf[j] = typed'[From' + j - 1]
    BY <1>1, <1>2, <1>4
  <2>4. word'.end = 0 => Char' \notin Spaces /\ (tree'[Len(tree')] # << >> => Char' \in Idchars)
    BY <1>1, <1>2
  <2>5. Spelled(typed', tree'[Len(tree')], Len(tree'), From' - 1)
    <3>1. (p + 1) - 1 = p
      BY <1>4
    <3> QED BY <1>1, <1>4, <1>5, <3>1
  <2>6. \A c \in 1..(Len(tree') - 1) : Done(typed', tree'[c], c, p')
    BY <1>1, <1>3, <1>4
  <2> QED BY <2>1, <2>2, <2>3, <2>4, <2>5, <2>6 DEF AtWord
<1>7. line.end = Len(typed) + 1 /\ ReadTo(typed, p)
  BY <1>1 DEF SInv
<1> QED BY <1>1, <1>6, <1>7 DEF SInv, Parsing

LEMMA InWordSpells ==
  ASSUME IInv, SInv, InWord
  PROVE  SInv'
<1>1. /\ Parsing /\ pc = "word" /\ pc' = "word" /\ Char \in Idchars
      /\ p' = p + 1 /\ typed' = typed /\ line' = line /\ tree' = tree
      /\ word' = chvec_push_back(word, Char)
  BY DEF InWord, Parsing
<1>2. Char \in Known /\ Char \in Chars /\ Char # BAR
  BY <1>1, Apart DEF Chars
<1>3. /\ p + 1 \in Nat /\ p + 1 <= Len(typed) /\ typed[p + 1] = Char /\ ReadTo(typed, p + 1)
      /\ Bars(typed, p) \in Nat /\ Bars(typed, p + 1) = Bars(typed, p)
  BY <1>1, <1>2, OneRead
<1>4. /\ Len(tree) = Bars(typed, p) + 1
      /\ From >= 1 /\ (From = 1 \/ typed[From - 1] \notin Idchars)
      /\ \A j \in From..p : typed[j] \in Idchars
      /\ \A j \in 1..word.end : word.buf[j] = typed[From + j - 1]
      /\ Spelled(typed, tree[Len(tree)], Len(tree), From - 1)
      /\ \A c \in 1..(Len(tree) - 1) : Done(typed, tree[c], c, p)
  BY <1>1 DEF SInv, AtWord
<1>5. word.end \in Nat /\ p \in Nat /\ From \in Nat /\ From = p + 1 - word.end /\ Len(tree) \in Nat
  BY <1>4, Types DEF From
<1>6. /\ word'.end = word.end + 1 /\ word'.buf[word.end + 1] = Char
      /\ \A j \in 1..word.end : word'.buf[j] = typed[From + j - 1]
  <2>1. /\ word'.end = word.end + 1 /\ word'.buf[word.end + 1] = Char
        /\ \A k \in 1..word.end : (\A j \in 1..(k - 1) : word.buf[j] # NUL) => word'.buf[k] = word.buf[k]
    BY <1>1, <1>2, Types, Pushed
  <2>2. \A j \in 1..word.end : word.buf[j] # NUL
    <3> TAKE j \in 1..word.end
    <3>1. From + j - 1 \in From..p
      BY <1>5
    <3> QED BY <1>4, <3>1, Apart
  <2>3. ASSUME NEW k \in 1..word.end PROVE word'.buf[k] = word.buf[k]
    <3>1. \A j \in 1..(k - 1) : j \in 1..word.end
      BY <1>5
    <3> QED BY <2>1, <2>2, <3>1
  <2> QED BY <1>4, <2>1, <2>3
<1>7. From' = From
  BY <1>1, <1>5, <1>6 DEF From
<1>8. AtWord'
  <2>1. Len(tree') = Bars(typed', p') + 1
    BY <1>1, <1>3, <1>4
  <2>2. From' >= 1 /\ (From' = 1 \/ typed'[From' - 1] \notin Idchars)
    BY <1>1, <1>4, <1>7
  <2>3. \A j \in From'..p' : typed'[j] \in Idchars
    <3> TAKE j \in From'..p'
    <3>1. j \in From..p \/ j = p + 1
      BY <1>1, <1>5, <1>7
    <3> QED BY <1>1, <1>3, <1>4, <3>1
  <2>4. \A j \in 1..word'.end : word'.buf[j] = typed'[From' + j - 1]
    <3> TAKE j \in 1..word'.end
    <3>1. CASE j \in 1..word.end
      BY <1>1, <1>6, <1>7, <3>1
    <3>2. CASE j = word.end + 1
      <4>1. From + j - 1 = p + 1
        BY <1>5, <3>2
      <4> QED BY <1>1, <1>3, <1>6, <1>7, <3>2, <4>1
    <3>3. j \in 1..(word.end + 1)
      BY <1>6
    <3>4. j \in 1..word.end \/ j = word.end + 1
      BY <1>5, <3>3
    <3> QED BY <3>1, <3>2, <3>4
  <2>5. word'.end # 0
    BY <1>5, <1>6
  <2>6. Spelled(typed', tree'[Len(tree')], Len(tree'), From' - 1)
    BY <1>1, <1>4, <1>7
  <2>7. \A c \in 1..(Len(tree) - 1) : Done(typed, tree[c], c, p + 1)
    <3>1. Len(tree) - 1 \in Nat /\ Len(tree) - 1 <= Len(tree) /\ Len(tree) - 1 <= Bars(typed, p)
      <4>1. Bars(typed, p) \in Nat /\ Len(tree) = Bars(typed, p) + 1
        BY <1>3, <1>4
      <4> QED BY <4>1
    <3> QED BY <1>4, <3>1, AllStay
  <2>8. \A c \in 1..(Len(tree') - 1) : Done(typed', tree'[c], c, p')
    BY <1>1, <2>7
  <2> QED BY <2>1, <2>2, <2>3, <2>4, <2>5, <2>6, <2>8 DEF AtWord
<1>9. line.end = Len(typed) + 1
  BY <1>1 DEF SInv
<1> QED BY <1>1, <1>3, <1>8, <1>9 DEF SInv, Parsing

\* The word just read begins at From, and is the next of its command.
LEMMA WordRead ==
  ASSUME IInv, SInv, pc = "word", Char \notin Idchars, word.end # 0
  PROVE  /\ From \in Nat \ {0} /\ Ended \in Vectors
         /\ From \in Begun(typed, Len(tree), From)
         /\ Begun(typed, Len(tree), p) = Begun(typed, Len(tree), From)
         /\ Holds(typed, Ended, From)
<1>1. /\ Len(tree) = Bars(typed, p) + 1
      /\ From >= 1 /\ (From = 1 \/ typed[From - 1] \notin Idchars)
      /\ \A j \in From..p : typed[j] \in Idchars
      /\ \A j \in 1..word.end : word.buf[j] = typed[From + j - 1]
  BY DEF SInv, AtWord
<1>2. /\ word.end \in Nat /\ p \in Nat /\ From \in Nat /\ From <= p /\ From = p + 1 - word.end
      /\ Len(typed) \in Nat
  BY <1>1, Types DEF From
<1>3. Parsing
  BY DEF Parsing
<1>4. p <= Len(typed) /\ (p < Len(typed) => Char = typed[p + 1])
  BY <1>3, CharTyped
<1>5. /\ Ended \in Vectors /\ Ended.end = word.end + 1 /\ Ended.buf[word.end + 1] = NUL
      /\ \A j \in 1..word.end : Ended.buf[j] = typed[From + j - 1]
  <2>1. NUL \in Chars
    BY DEF Chars
  <2>2. /\ Ended \in Vectors /\ Ended.end = word.end + 1 /\ Ended.buf[word.end + 1] = NUL
        /\ \A k \in 1..word.end : (\A j \in 1..(k - 1) : word.buf[j] # NUL) => Ended.buf[k] = word.buf[k]
    BY <2>1, Types, Pushed DEF Ended
  <2>3. \A j \in 1..word.end : word.buf[j] # NUL
    <3> TAKE j \in 1..word.end
    <3>1. From + j - 1 \in From..p
      BY <1>2
    <3> QED BY <1>1, <3>1, Apart
  <2>4. ASSUME NEW k \in 1..word.end PROVE Ended.buf[k] = word.buf[k]
    <3>1. \A j \in 1..(k - 1) : j \in 1..word.end
      BY <1>2
    <3> QED BY <2>2, <2>3, <3>1
  <2> QED BY <1>1, <2>2, <2>4
<1>6. From \in Begun(typed, Len(tree), From)
  <2>1. \A j \in (From + 1)..p : typed[j] # BAR
    BY <1>1, <1>2, Apart
  <2>2. Bars(typed, From) = Bars(typed, p) /\ Bars(typed, p) \in Nat
    BY <1>2, <2>1, BarsSame, BarsType
  <2>3. Bars(typed, From) = Len(tree) - 1
    BY <1>1, <2>2
  <2>4. From \in 1..From /\ typed[From] \in Idchars
    BY <1>1, <1>2
  <2> QED BY <1>1, <2>3, <2>4 DEF Begun
<1>7. Begun(typed, Len(tree), p) = Begun(typed, Len(tree), From)
  <2>1. \A j \in (From + 1)..p : j # 1 /\ typed[j - 1] \in Idchars
    <3> TAKE j \in (From + 1)..p
    <3>0. j \in Int /\ From + 1 <= j /\ j <= p
      BY <1>2
    <3>1. j - 1 \in From..p /\ j # 1
      BY <1>1, <1>2, <3>0
    <3> QED BY <1>1, <3>1
  <2> QED BY <1>2, <2>1, BegunSame
<1>8. Holds(typed, Ended, From)
  <2>1. From + Ended.end - 2 = p /\ Ended.end > 1 /\ Ended.end - 1 = word.end
    BY <1>2, <1>5
  <2>2. p = Len(typed) \/ typed[p + 1] \notin Idchars
    <3>1. CASE p < Len(typed)
      BY <1>4, <3>1
    <3>2. CASE p = Len(typed)
      BY <3>2
    <3> QED BY <1>2, <1>4, <3>1, <3>2
  <2>3. \A j \in 1..(Ended.end - 1) : Ended.buf[j] = typed[From + j - 1]
    BY <1>5, <2>1
  <2>4. Ended.buf[Ended.end] = NUL
    BY <1>5
  <2>5. /\ From + Ended.end - 2 <= Len(typed)
        /\ \A j \in From..(From + Ended.end - 2) : typed[j] \in Idchars
        /\ From + Ended.end - 2 = Len(typed) \/ typed[(From + Ended.end - 2) + 1] \notin Idchars
    BY <1>1, <1>4, <2>1, <2>2
  <2> QED BY <2>1, <2>3, <2>4, <2>5 DEF Holds
<1>9. From # 0
  BY <1>1
<1> QED BY <1>2, <1>5, <1>6, <1>7, <1>8, <1>9

LEMMA EndWordSpells ==
  ASSUME IInv, SInv, EndWord
  PROVE  SInv'
<1> DEFINE n == Len(tree)
           words == Append(tree[n], Ended)
<1>1. /\ Parsing /\ pc = "word" /\ pc' = "after" /\ Char \notin Idchars
      /\ p' = p /\ typed' = typed /\ line' = line
      /\ tree' = [tree EXCEPT ![n] = words]
  BY DEF EndWord, Parsing
<1>2. Char' = Char
  BY <1>1 DEF Char
<1>3. /\ n = Bars(typed, p) + 1
      /\ word.end = 0 => Char \notin Spaces /\ (tree[n] # << >> => Char \in Idchars)
      /\ Spelled(typed, tree[n], n, From - 1)
      /\ \A c \in 1..(n - 1) : Done(typed, tree[c], c, p)
  BY <1>1 DEF SInv, AtWord
<1>4. /\ p \in Nat /\ n \in Nat /\ n \in 1..n /\ tree \in Seq(Seq(Vectors)) /\ tree[n] \in Seq(Vectors)
      /\ word \in Vectors /\ word.end \in Nat
  <2>1. p \in Nat /\ n \in Nat /\ tree \in Seq(Seq(Vectors)) /\ word \in Vectors /\ word.end \in Nat
    BY Types
  <2>2. Bars(typed, p) \in Nat
    BY <2>1, BarsType
  <2>3. n \in 1..n
    BY <1>3, <2>1, <2>2
  <2>4. tree[n] \in Seq(Vectors)
    BY <2>1, <2>3
  <2> QED BY <2>1, <2>3, <2>4
<1>5. Len(tree') = n /\ tree'[n] = words /\ \A c \in 1..(n - 1) : tree'[c] = tree[c]
  BY <1>1, <1>4
<1>6. Done(typed, words, n, p) /\ (Blank(typed, words, n, p) => Char \notin Idchars \cup Spaces)
  <2>1. CASE word.end # 0
    <3>1. /\ From \in Nat \ {0} /\ Ended \in Vectors
          /\ From \in Begun(typed, n, From) /\ Begun(typed, n, p) = Begun(typed, n, From)
          /\ Holds(typed, Ended, From)
      BY <1>1, <2>1, WordRead
    <3>2. Spelled(typed, words, n, p)
      BY <1>3, <1>4, <3>1, OneMore
    <3>3. ~Blank(typed, words, n, p)
      BY <3>1 DEF Blank
    <3> QED BY <3>2, <3>3 DEF Done
  <2>2. CASE word.end = 0
    <3>1. tree[n] = << >> /\ Char \notin Spaces
      BY <1>1, <1>3, <2>2
    <3>2. From - 1 = p
      BY <1>4, <2>2 DEF From
    <3>3. Begun(typed, n, p) = {}
      <4>1. Count(typed, n, p) = 0
        <5>1. Len(<< >>) = 0
          OBVIOUS
        <5> QED BY <1>3, <3>1, <3>2, <5>1 DEF Spelled
      <4>2. IsFiniteSet(Begun(typed, n, p))
        BY <1>4, BegunType
      <4> QED BY <4>1, <4>2, FS_EmptySet DEF Count
    <3>4. Len(words) = 1 /\ words[1] = Ended
      BY <3>1
    <3>5. Ended.end = 1 /\ Ended.buf[1] = NUL
      <4>1. NUL \in Chars
        BY DEF Chars
      <4>2. Ended.end = word.end + 1 /\ Ended.buf[word.end + 1] = NUL
        BY <1>4, <4>1, Pushed DEF Ended
      <4> QED BY <2>2, <4>2
    <3>6. Blank(typed, words, n, p)
      BY <3>3, <3>4, <3>5 DEF Blank
    <3> QED BY <1>1, <3>1, <3>6 DEF Done
  <2> QED BY <2>1, <2>2
<1> HIDE DEF n, words
<1>7. AtAfter'
  <2>1. Len(tree') = Bars(typed', p') + 1
    BY <1>1, <1>3, <1>5
  <2>2. Char' \notin Idchars
    BY <1>1, <1>2
  <2>3. Blank(typed', tree'[Len(tree')], Len(tree'), p') => Char' \notin Idchars \cup Spaces
    BY <1>1, <1>2, <1>5, <1>6
  <2>4. \A c \in 1..Len(tree') : Done(typed', tree'[c], c, p')
    <3> TAKE c \in 1..Len(tree')
    <3>1. c \in 1..(n - 1) \/ c = n
      BY <1>4, <1>5
    <3>2. CASE c = n
      BY <1>1, <1>5, <1>6, <3>2
    <3>3. CASE c \in 1..(n - 1)
      BY <1>1, <1>3, <1>5, <3>3
    <3> QED BY <3>1, <3>2, <3>3
  <2> QED BY <2>1, <2>2, <2>3, <2>4 DEF AtAfter
<1>8. line.end = Len(typed) + 1 /\ ReadTo(typed, p)
  BY <1>1 DEF SInv
<1> QED BY <1>1, <1>7, <1>8 DEF SInv, Parsing

LEMMA EndParseSpells ==
  ASSUME IInv, SInv, EndParse
  PROVE  SInv'
<1>1. /\ Parsing /\ pc = "after" /\ pc' = "array" /\ Char \notin Known
      /\ p' = p /\ typed' = typed /\ line' = line /\ tree' = tree
  BY DEF EndParse, Parsing, memory, Known
<1>2. /\ Len(tree) = Bars(typed, p) + 1 /\ ReadTo(typed, p)
      /\ \A c \in 1..Len(tree) : Done(typed, tree[c], c, p)
  BY <1>1 DEF SInv, AtAfter
<1>3. p = Len(typed) \/ typed[p + 1] \notin Known
  BY <1>1, CharTyped, Types
<1>4. AllRead'
  BY <1>1, <1>2, <1>3 DEF AllRead
<1> QED BY <1>1, <1>4 DEF SInv, Parsing

\* The reader hands over a line that ends behind what was typed.
LEMMA ReadingSpells ==
  ASSUME IInv, SInv, TypeChar \/ EndLine \/ EndInput
  PROVE  SInv'
<1>1. CASE TypeChar \/ EndInput
  <2>1. pc' \in {"read", "exit"}
    BY <1>1 DEF TypeChar, EndInput
  <2> QED BY <2>1 DEF SInv, Parsing
<1>2. CASE EndLine
  <2>1. /\ pc = "read" /\ pc' = "command" /\ line' = chvec_push_back(line, NUL)
        /\ typed' = typed /\ p' = 0 /\ tree' = << >>
    BY <1>2 DEF EndLine, EndedLine, memory, IInv, Terminated
  <2>2. line'.end = Len(typed) + 1
    <3>1. NUL \in Chars
      BY DEF Chars
    <3> QED BY <2>1, <3>1, KeptByPush
  <2>3. ReadTo(typed, 0)
    BY Types DEF ReadTo
  <2>4. Bars(typed, 0) = 0
    <3>1. {k \in 1..0 : typed[k] = BAR} = {}
      OBVIOUS
    <3> QED BY <3>1, FS_EmptySet DEF Bars
  <2>5. Begun(typed, Bars(typed, 0) + 1, 0) = {}
    BY DEF Begun
  <2>6. AtCommand'
    <3>1. Len(<< >>) = 0 /\ 1..0 = {}
      OBVIOUS
    <3> QED BY <2>1, <2>4, <2>5, <3>1 DEF AtCommand
  <2> QED BY <2>1, <2>2, <2>3, <2>6 DEF SInv, Parsing
<1> QED BY <1>1, <1>2

LEMMA SpellingInductive == IInv /\ SInv /\ [Next]_vars => SInv'
<1> SUFFICES ASSUME IInv, SInv, [Next]_vars
             PROVE  SInv'
  OBVIOUS
<1>1. CASE UNCHANGED vars
  <2>1. UNCHANGED <<pc, typed, line, p, tree, word>>
    BY <1>1 DEF vars, memory
  <2>2. (AtCommand <=> AtCommand') /\ (AllRead <=> AllRead')
    BY <2>1 DEF AtCommand, AllRead
  <2>3. (AtWord <=> AtWord') /\ (AtAfter <=> AtAfter')
    BY <2>1 DEF AtWord, AtAfter, From, Char
  <2> QED BY <2>1, <2>2, <2>3 DEF SInv, Parsing
<1>2. CASE TypeChar \/ EndLine \/ EndInput
  BY <1>2, ReadingSpells
<1>3. CASE Parse
  BY <1>3, SkipSpells, BarSpells, BeginSpells, NextWordSpells, InWordSpells, EndWordSpells,
     EndParseSpells DEF Parse
<1>4. CASE MakeArray
  <2>1. /\ pc = "array" /\ pc' = "run" /\ typed' = typed /\ p' = p /\ tree' = tree
    BY <1>4 DEF MakeArray
  <2>2. AllRead
    BY <2>1 DEF SInv
  <2>3. AllRead'
    BY <2>1, <2>2 DEF AllRead
  <2> QED BY <2>1, <2>3 DEF SInv, Parsing
<1>5. CASE Free
  <2>1. pc' = "read"
    BY <1>5 DEF Free
  <2> QED BY <2>1 DEF SInv, Parsing
<1> QED BY <1>1, <1>2, <1>3, <1>4, <1>5 DEF Next

LEMMA SpellingInvariance == Spec => [](IInv /\ SInv)
<1>1. Init => IInv /\ SInv
  <2>1. Init => SInv
    BY DEF Init, SInv, Parsing
  <2> QED BY <2>1, Start
<1>2. IInv /\ SInv /\ [Next]_vars => (IInv /\ SInv)'
  BY Inductive, SpellingInductive
<1> QED BY <1>1, <1>2, PTL DEF Spec
-----------------------------------------------------------------------------
\* The string in a buffer ends at its first NUL.
LEMMA StringIs ==
  ASSUME NEW S, NEW buf \in Seq(S), NEW m \in 1..Len(buf), buf[m] = NUL, \A k \in 1..(m - 1) : buf[k] # NUL
  PROVE  CString(buf) = SubSeq(buf, 1, m - 1)
<1> DEFINE P(n) == buf[n] = NUL /\ \A k \in 1..(n - 1) : buf[k] # NUL
<1>1. Len(buf) \in Nat /\ m \in Nat
  OBVIOUS
<1>2. P(m)
  OBVIOUS
<1>3. ASSUME NEW n \in 1..Len(buf), P(n) PROVE n = m
  <2>1. n \in Nat /\ n >= 1 /\ m >= 1
    BY <1>1
  <2>2. ~(n < m)
    <3> SUFFICES ASSUME n < m PROVE FALSE
      OBVIOUS
    <3>1. n \in 1..(m - 1)
      BY <1>1, <2>1
    <3> QED BY <1>3, <3>1
  <2>3. ~(m < n)
    <3> SUFFICES ASSUME m < n PROVE FALSE
      OBVIOUS
    <3>1. m \in 1..(n - 1)
      BY <1>1, <2>1
    <3> QED BY <1>3, <3>1
  <2> QED BY <1>1, <2>1, <2>2, <2>3
<1> DEFINE q == CHOOSE n \in 1..Len(buf) : P(n)
<1>4. CString(buf) = SubSeq(buf, 1, q - 1)
  BY DEF CString
<1> HIDE DEF P
<1>5. q = m
  BY <1>2, <1>3
<1> HIDE DEF q
<1> QED BY <1>4, <1>5

\* The string in the vector is the word of the line.
LEMMA StringHeld ==
  ASSUME NEW s \in Seq(Chars), NEW cv \in Vectors, NEW k \in Nat \ {0}, Holds(s, cv, k)
  PROVE  CString(cv.buf) = SubSeq(s, k, k + cv.end - 2)
<1> DEFINE a == SubSeq(cv.buf, 1, cv.end - 1)
           b == SubSeq(s, k, k + cv.end - 2)
<1>1. /\ cv.buf \in Seq(Byte) /\ cv.end \in Nat /\ cv.end <= Len(cv.buf) /\ Len(s) \in Nat
      /\ \A j \in 1..Len(cv.buf) : cv.buf[j] \in Byte
  BY DEF Vectors, Byte
<1>2. /\ cv.end > 1 /\ k + cv.end - 2 <= Len(s)
      /\ \A j \in k..(k + cv.end - 2) : s[j] \in Idchars
      /\ \A j \in 1..(cv.end - 1) : cv.buf[j] = s[k + j - 1]
      /\ cv.buf[cv.end] = NUL
  BY DEF Holds
<1>3. \A j \in 1..(cv.end - 1) : cv.buf[j] # NUL
  <2> TAKE j \in 1..(cv.end - 1)
  <2>1. k + j - 1 \in k..(k + cv.end - 2)
    BY <1>1
  <2> QED BY <1>2, <2>1, Apart
<1>4. CString(cv.buf) = a
  <2>1. cv.end \in 1..Len(cv.buf)
    BY <1>1, <1>2
  <2> QED BY <1>1, <1>2, <1>3, <2>1, StringIs
<1>5. /\ a \in Seq(Byte) /\ Len(a) = cv.end - 1
      /\ \A j \in 1..(cv.end - 1) : a[j] = cv.buf[j]
  <2>1. \A j \in 1..(cv.end - 1) : cv.buf[j] \in Byte
    BY <1>1
  <2>2. 1 \in Int /\ cv.end - 1 \in Int
    BY <1>1
  <2>3. /\ a \in Seq(Byte) /\ Len(a) = IF 1 <= cv.end - 1 THEN (cv.end - 1) - 1 + 1 ELSE 0
        /\ \A j \in 1..((cv.end - 1) - 1 + 1) : a[j] = cv.buf[1 + j - 1]
    BY <2>1, <2>2, SubSeqProperties
  <2> HIDE DEF a
  <2>4. Len(a) = cv.end - 1 /\ (cv.end - 1) - 1 + 1 = cv.end - 1
    BY <1>1, <1>2, <2>3
  <2>5. ASSUME NEW j \in 1..(cv.end - 1) PROVE a[j] = cv.buf[j]
    <3>1. 1 + j - 1 = j
      OBVIOUS
    <3> QED BY <2>3, <2>4, <3>1
  <2> QED BY <2>3, <2>4, <2>5
<1>6. /\ b \in Seq(Byte) /\ Len(b) = cv.end - 1
      /\ \A j \in 1..(cv.end - 1) : b[j] = s[k + j - 1]
  <2>1. \A j \in k..(k + cv.end - 2) : s[j] \in Byte
    BY <1>2 DEF Byte, Chars
  <2>2. k \in Int /\ k + cv.end - 2 \in Int
    BY <1>1
  <2>3. /\ b \in Seq(Byte) /\ Len(b) = IF k <= k + cv.end - 2 THEN (k + cv.end - 2) - k + 1 ELSE 0
        /\ \A j \in 1..((k + cv.end - 2) - k + 1) : b[j] = s[k + j - 1]
    BY <2>1, <2>2, SubSeqProperties
  <2> HIDE DEF b
  <2>4. Len(b) = cv.end - 1 /\ (k + cv.end - 2) - k + 1 = cv.end - 1
    BY <1>1, <1>2, <2>3
  <2> QED BY <2>3, <2>4
<1> HIDE DEF a, b
<1>7. a = b
  <2>1. Len(a) = Len(b)
    BY <1>5, <1>6
  <2>2. ASSUME NEW j \in 1..Len(a) PROVE a[j] = b[j]
    <3>1. j \in 1..(cv.end - 1)
      BY <1>5
    <3>2. a[j] = cv.buf[j] /\ b[j] = s[k + j - 1] /\ cv.buf[j] = s[k + j - 1]
      BY <1>2, <1>5, <1>6, <3>1
    <3> QED BY <3>2
  <2> QED BY <1>5, <1>6, <2>1, <2>2, SeqEqual
<1> QED BY <1>4, <1>7 DEF b

\* All that counts of the line is what has been read.
LEMMA LengthRead ==
  ASSUME IInv, AllRead
  PROVE  p \in 0..Len(typed) /\ Length = p
<1> DEFINE P(n) == /\ n = Len(typed) \/ typed[n + 1] \notin Known
                   /\ \A k \in 1..n : typed[k] \in Known
<1>1. p \in 0..Len(typed) /\ P(p) /\ Len(typed) \in Nat /\ p \in Nat
  BY Types DEF AllRead, ReadTo
<1>2. ASSUME NEW n \in 0..Len(typed), P(n) PROVE n = p
  <2>1. ~(n < p)
    <3> SUFFICES ASSUME n < p PROVE FALSE
      OBVIOUS
    <3>1. n + 1 \in 1..p /\ n # Len(typed)
      BY <1>1
    <3> QED BY <1>1, <1>2, <3>1
  <2>2. ~(p < n)
    <3> SUFFICES ASSUME p < n PROVE FALSE
      OBVIOUS
    <3>1. p + 1 \in 1..n /\ p # Len(typed)
      BY <1>1
    <3> QED BY <1>1, <1>2, <3>1
  <2> QED BY <1>1, <2>1, <2>2
<1>3. Length = CHOOSE n \in 0..Len(typed) : P(n)
  BY DEF Length
<1> HIDE DEF P
<1> QED BY <1>1, <1>2, <1>3

\* The reference ends a word where the parser did.
LEMMA EndIs ==
  ASSUME IInv, AllRead, NEW k \in 1..p, NEW cv \in Vectors, Holds(typed, cv, k)
  PROVE  EndOf(k) = k + cv.end - 2
<1> DEFINE e == k + cv.end - 2
           P(n) == /\ n = p \/ typed[n + 1] \notin Idchars
                   /\ \A j \in k..n : typed[j] \in Idchars
<1>1. /\ p \in Nat /\ Len(typed) \in Nat /\ p <= Len(typed) /\ Length = p
      /\ p = Len(typed) \/ typed[p + 1] \notin Idchars
  BY Types, LengthRead, Apart DEF AllRead, ReadTo
<1>2. k \in Nat /\ cv.end \in Nat
  BY <1>1 DEF Vectors
<1>3. /\ cv.end > 1 /\ e <= Len(typed) /\ \A j \in k..e : typed[j] \in Idchars
      /\ e = Len(typed) \/ typed[e + 1] \notin Idchars
  BY DEF Holds
<1>4. e \in Nat /\ k <= e
  BY <1>2, <1>3
<1> HIDE DEF e
<1>5. e <= p
  <2> SUFFICES ASSUME p < e PROVE FALSE
    BY <1>1, <1>4
  <2>1. p + 1 \in k..e /\ p # Len(typed)
    BY <1>1, <1>3, <1>4
  <2> QED BY <1>1, <1>3, <2>1
<1>6. e \in k..p /\ P(e)
  <2>1. e = p \/ typed[e + 1] \notin Idchars
    BY <1>1, <1>3, <1>4, <1>5
  <2> QED BY <1>1, <1>2, <1>3, <1>4, <1>5, <2>1
<1>7. ASSUME NEW n \in k..p, P(n) PROVE n = e
  <2>1. ~(n < e)
    <3> SUFFICES ASSUME n < e PROVE FALSE
      OBVIOUS
    <3>1. n + 1 \in k..e /\ n # p
      BY <1>1, <1>2, <1>4, <1>5
    <3> QED BY <1>3, <1>7, <3>1
  <2>2. ~(e < n)
    <3> SUFFICES ASSUME e < n PROVE FALSE
      OBVIOUS
    <3>1. e + 1 \in k..n /\ e # Len(typed)
      BY <1>1, <1>2, <1>4, <1>5
    <3> QED BY <1>3, <1>7, <3>1
  <2> QED BY <1>1, <1>2, <1>4, <2>1, <2>2
<1>8. EndOf(k) = CHOOSE n \in k..p : P(n)
  BY <1>1 DEF EndOf
<1> HIDE DEF P
<1>9. EndOf(k) = e
  BY <1>6, <1>7, <1>8
<1> QED BY <1>9 DEF e

\* What execvp() makes of the array of a command: a string for every word.
LEMMA ArgumentsAre ==
  ASSUME NEW list \in Seq(Vectors)
  PROVE  /\ Arguments(tr_list_to_sarr(list)) = Len(list)
         /\ \A w \in 1..Len(list) : tr_list_to_sarr(list)[w - 1] = list[w].buf
<1> DEFINE argv == tr_list_to_sarr(list)
           P(n) == argv[n] = NULL /\ \A k \in 0..(n - 1) : argv[k] # NULL
<1>1. /\ Len(list) \in Nat /\ DOMAIN argv = 0..Len(list) /\ argv[Len(list)] = NULL
      /\ \A k \in 0..(Len(list) - 1) : argv[k] = list[k + 1].buf
  BY DEF tr_list_to_sarr
<1>2. \A k \in 0..(Len(list) - 1) : argv[k] # NULL
  <2> TAKE k \in 0..(Len(list) - 1)
  <2>1. k + 1 \in 1..Len(list)
    BY <1>1
  <2>2. list[k + 1] \in Vectors
    BY <2>1
  <2>3. list[k + 1].buf \in Seq(Byte)
    BY <2>2 DEF Vectors, Byte
  <2> QED BY <1>1, <2>3, NullAssumption DEF Byte
<1> HIDE DEF argv
<1>3. Len(list) \in DOMAIN argv /\ P(Len(list))
  BY <1>1, <1>2
<1>4. ASSUME NEW n \in DOMAIN argv, P(n) PROVE n = Len(list)
  <2>1. n \in 0..Len(list)
    BY <1>1
  <2>2. ~(n < Len(list))
    <3> SUFFICES ASSUME n < Len(list) PROVE FALSE
      OBVIOUS
    <3>1. n \in 0..(Len(list) - 1)
      BY <1>1, <2>1
    <3> QED BY <1>2, <1>4, <3>1
  <2> QED BY <1>1, <2>1, <2>2
<1>5. Arguments(argv) = CHOOSE n \in DOMAIN argv : P(n)
  BY DEF Arguments
<1> HIDE DEF P
<1>6. Arguments(argv) = Len(list)
  BY <1>3, <1>4, <1>5
<1>7. ASSUME NEW w \in 1..Len(list) PROVE argv[w - 1] = list[w].buf
  <2>1. w - 1 \in 0..(Len(list) - 1) /\ (w - 1) + 1 = w
    BY <1>1
  <2> QED BY <1>1, <2>1
<1> QED BY <1>6, <1>7 DEF argv

\* The words of a command that is done are those of the reference.
LEMMA WordsAre ==
  ASSUME IInv, AllRead, pc = "run", NEW c \in 1..Len(tree)
  PROVE  WordsOf(c) = [w \in 1..Len(tree[c]) |-> CString(tree[c][w].buf)]
<1> DEFINE words == tree[c]
<1>1. /\ words \in Seq(Vectors) /\ Len(words) \in Nat
      /\ typed \in Seq(Chars) /\ p \in Nat /\ Length = p /\ c \in Nat
  BY Types, LengthRead
<1>2. Starts(c) = Begun(typed, c, p)
  BY <1>1 DEF Starts, Begun, BarsUpTo, Bars
<1>3. Done(typed, words, c, p)
  BY DEF AllRead
<1> HIDE DEF words
<1>4. CASE Blank(typed, words, c, p)
  <2>1. /\ Starts(c) = {} /\ Len(words) = 1 /\ words[1] \in Vectors
        /\ words[1].end = 1 /\ words[1].buf[1] = NUL
    <3>1. /\ Starts(c) = {} /\ Len(words) = 1
          /\ words[1].end = 1 /\ words[1].buf[1] = NUL
      BY <1>2, <1>4 DEF Blank
    <3>2. words[1] \in Vectors
      <4>1. words \in Seq(Vectors) /\ 1 \in 1..Len(words)
        BY <1>1, <3>1
      <4> QED BY <4>1
    <3> QED BY <3>1, <3>2
  <2>2. /\ words[1].buf \in Seq(Byte) /\ 1 <= Len(words[1].buf)
        /\ Len(words[1].buf) \in Nat
    BY <2>1 DEF Vectors, Byte
  <2>3. 1 \in 1..Len(words[1].buf) /\ \A k \in 1..(1 - 1) : words[1].buf[k] # NUL
    BY <2>2
  <2>4. CString(words[1].buf) = SubSeq(words[1].buf, 1, 1 - 1)
    BY <2>1, <2>2, <2>3, StringIs
  <2>5. CString(words[1].buf) = << >>
    BY <2>4, SubSeqEmpty
  <2>6. [w \in 1..Len(words) |-> CString(words[w].buf)] = [w \in 1..1 |-> << >>]
    <3>1. \A w \in 1..1 : w = 1
      OBVIOUS
    <3>2. \A w \in 1..1 : CString(words[w].buf) = << >>
      BY <2>5, <3>1
    <3> QED BY <2>1, <3>2
  <2>7. [w \in 1..1 |-> << >>] = <<<< >>>>
    OBVIOUS
  <2>8. WordsOf(c) = <<<< >>>>
    BY <2>1 DEF WordsOf
  <2> QED BY <2>6, <2>7, <2>8 DEF words
<1>5. CASE Spelled(typed, words, c, p) /\ Begun(typed, c, p) # {}
  <2>1. /\ Len(words) = Count(typed, c, p) /\ Cardinality(Starts(c)) = Len(words) /\ Starts(c) # {}
        /\ \A k \in Begun(typed, c, p) :
             Count(typed, c, k) \in 1..Len(words) /\ Holds(typed, words[Count(typed, c, k)], k)
        /\ \A w \in 1..Len(words) : \E k \in Begun(typed, c, p) : Count(typed, c, k) = w
    BY <1>2, <1>5 DEF Spelled, Count
  <2>2. ASSUME NEW k \in Begun(typed, c, p)
        PROVE  Cardinality({j \in Starts(c) : j <= k}) = Count(typed, c, k)
    <3>1. k \in 1..p
      BY <1>1, BegunType
    <3>2. {j \in Begun(typed, c, p) : j <= k} = Begun(typed, c, k)
      BY <1>1, <3>1 DEF Begun
    <3> QED BY <1>2, <3>2 DEF Count
  <2> DEFINE at(w) == CHOOSE k \in Starts(c) : Cardinality({j \in Starts(c) : j <= k}) = w
  <2>3. WordsOf(c) = [w \in 1..Len(words) |-> SubSeq(typed, at(w), EndOf(at(w)))]
    BY <2>1 DEF WordsOf
  <2>4. ASSUME NEW w \in 1..Len(words)
        PROVE  SubSeq(typed, at(w), EndOf(at(w))) = CString(words[w].buf)
    <3>1. at(w) \in Starts(c) /\ Cardinality({j \in Starts(c) : j <= at(w)}) = w
      <4>1. \E k \in Starts(c) : Cardinality({j \in Starts(c) : j <= k}) = w
        BY <1>2, <2>1, <2>2
      <4> QED BY <4>1
    <3> DEFINE k == at(w)
    <3> HIDE DEF at
    <3>2. k \in Begun(typed, c, p) /\ Count(typed, c, k) = w
      BY <1>2, <2>2, <3>1
    <3>3. Holds(typed, words[w], k) /\ words[w] \in Vectors
      BY <1>1, <2>1, <3>2
    <3>4. k \in 1..p /\ k \in Nat \ {0}
      <4>1. k \in 1..p
        BY <1>1, <3>2, BegunType
      <4> QED BY <1>1, <4>1
    <3> HIDE DEF k
    <3>5. EndOf(k) = k + words[w].end - 2
      BY <3>3, <3>4, EndIs
    <3>6. CString(words[w].buf) = SubSeq(typed, k, k + words[w].end - 2)
      BY <1>1, <3>3, <3>4, StringHeld
    <3> QED BY <3>5, <3>6 DEF k
  <2> HIDE DEF at
  <2>5. [w \in 1..Len(words) |-> SubSeq(typed, at(w), EndOf(at(w)))]
          = [w \in 1..Len(words) |-> CString(words[w].buf)]
    BY <2>4
  <2> QED BY <2>3, <2>5 DEF words
<1>6. CASE Spelled(typed, words, c, p) /\ Begun(typed, c, p) = {}
  <2>1. Len(words) = 0
    BY <1>6, FS_EmptySet DEF Spelled, Count
  <2>2. words = << >>
    BY <1>1, <2>1
  <2>3. words # << >>
    <3>1. c \in DOMAIN tree
      BY Types
    <3>2. tree[c] # << >>
      BY <3>1 DEF IInv, Filled
    <3> QED BY <3>2 DEF words
  <2> QED BY <2>2, <2>3
<1> QED BY <1>3, <1>4, <1>5, <1>6 DEF Done

\* The arrays are what the shell was asked for, whatever the line and its
\* length: a command for every bar and one more, each with the words typed in
\* it, up to the first character that parse() has no rule for.
THEOREM ParsedHolds == Spec => []Parsed
<1>1. ASSUME IInv, SInv, pc = "run"
      PROVE  /\ DOMAIN cmds = 0..(BarsUpTo(Length) + 1)
             /\ \A c \in 1..(BarsUpTo(Length) + 1) :
                  WordsOf(c) = [w \in 1..Arguments(cmds[c - 1]) |-> CString(cmds[c - 1][w - 1])]
  <2>1. AllRead
    BY <1>1 DEF SInv
  <2>2. Length = p /\ BarsUpTo(p) + 1 = Len(tree)
    <3>1. BarsUpTo(p) = Bars(typed, p)
      BY DEF BarsUpTo, Bars
    <3> QED BY <1>1, <2>1, <3>1, LengthRead DEF AllRead
  <2>3. tree \in Seq(Seq(Vectors)) /\ Len(tree) \in Nat /\ count_ncmds = Len(tree)
    BY <1>1, Types, AllCounted
  <2>4. cmds = [k \in (0..(Len(tree) - 1)) \cup {count_ncmds} |->
                  IF k < Len(tree) THEN tr_list_to_sarr(tree[k + 1]) ELSE NULL]
    BY <1>1 DEF IInv, get_command_arr
  <2>5. (0..(Len(tree) - 1)) \cup {Len(tree)} = 0..Len(tree)
    BY <2>3
  <2>6. DOMAIN cmds = 0..Len(tree)
    BY <2>3, <2>4, <2>5
  <2>7. ASSUME NEW c \in 1..Len(tree)
        PROVE  WordsOf(c) = [w \in 1..Arguments(cmds[c - 1]) |-> CString(cmds[c - 1][w - 1])]
    <3>1. c - 1 \in 0..Len(tree) /\ c - 1 < Len(tree) /\ (c - 1) + 1 = c
      BY <2>3
    <3>2. cmds[c - 1] = tr_list_to_sarr(tree[c])
      BY <2>3, <2>4, <2>5, <3>1
    <3>3. tree[c] \in Seq(Vectors)
      BY <2>3
    <3>4. /\ Arguments(cmds[c - 1]) = Len(tree[c])
          /\ \A w \in 1..Len(tree[c]) : cmds[c - 1][w - 1] = tree[c][w].buf
      BY <3>2, <3>3, ArgumentsAre
    <3>5. WordsOf(c) = [w \in 1..Len(tree[c]) |-> CString(tree[c][w].buf)]
      BY <1>1, <2>1, WordsAre
    <3>6. [w \in 1..Arguments(cmds[c - 1]) |-> CString(cmds[c - 1][w - 1])]
            = [w \in 1..Len(tree[c]) |-> CString(tree[c][w].buf)]
      BY <3>4
    <3> QED BY <3>5, <3>6
  <2> QED BY <2>2, <2>6, <2>7
<1>2. IInv /\ SInv => Parsed
  BY <1>1 DEF Parsed
<1> QED BY <1>2, SpellingInvariance, PTL
=============================================================================
