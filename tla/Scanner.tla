------------------------------ MODULE Scanner -------------------------------
(***************************************************************************)
(* tokenize() of 2023/9cc, one action per turn of its loop, over texts of  *)
(* one-character strings, as read_file() leaves them.  A token has the     *)
(* place of its first character and of the first one behind it.            *)
(***************************************************************************)
EXTENDS Integers, Sequences, FiniteSets

CONSTANT Texts    \* the files to read

\* A file that does not end a line is given an end of line.
read_file(t) == IF t # << >> /\ t[Len(t)] = "\n" THEN t ELSE Append(t, "\n")

ASSUME TextsAssumption == \A t \in Texts : read_file(t) \in Seq(STRING)

Lower == {"a", "c", "e", "f", "h", "i", "l", "n", "o", "p", "r", "s", "t", "u", "w", "x", "z"}
isspace(c) == c \in {" ", "\n"}
QUOTE == "\""
Digits == {"0", "1", "2"}
is_alnum(c) == c \in Lower \cup Digits \cup {"_", "N"}
Symbols == {"+", "-", "*", "/", "&", "<", ">", "(", ")", "[", "]", "{", "}", "=", ",", ";"}
Symbols2 == {<<"<", "=">>, <<">", "=">>, <<"=", "=">>, <<"!", "=">>}

\* Per keyword, in the order they are tried: its letters, how many of them
\* strncmp() compares, and so how far the text moves on.
Keywords == <<
  [kind |-> "CHAR", word |-> <<"c", "h", "a", "r">>, compared |-> 4],
  [kind |-> "IF", word |-> <<"i", "f">>, compared |-> 2],
  [kind |-> "INT", word |-> <<"i", "n", "t">>, compared |-> 2],
  [kind |-> "ELSE", word |-> <<"e", "l", "s", "e">>, compared |-> 4],
  [kind |-> "RETURN", word |-> <<"r", "e", "t", "u", "r", "n">>, compared |-> 6],
  [kind |-> "SIZEOF", word |-> <<"s", "i", "z", "e", "o", "f">>, compared |-> 6],
  [kind |-> "WHILE", word |-> <<"w", "h", "i", "l", "e">>, compared |-> 5] >>

VARIABLES
  text,    \* the text
  p,       \* the characters before the pointer
  tokens,  \* the list built so far
  failed   \* error_at() has been called

vars == <<text, p, tokens, failed>>

\* p[n]; the text ends with a NUL.
Char(n) == IF p + n < Len(text) THEN text[p + n + 1] ELSE "NUL"
Matches(word, n) == \A k \in 1..n : Char(k - 1) = word[k]

\* Variant: and the character behind the run.
RunPast(class, n) ==
  1 + CHOOSE m \in n..Len(text) :
        /\ m = Len(text) \/ text[m + 1] \notin class
        /\ \A k \in (n + 1)..m : text[k] \in class

\* The end of the run of characters of class from position n on.
Run(class, n) ==
  CHOOSE m \in n..Len(text) :
    /\ m = Len(text) \/ text[m + 1] \notin class
    /\ \A k \in (n + 1)..m : text[k] \in class

Start(texts) ==
  /\ text \in {read_file(t) : t \in texts}
  /\ p = 0 /\ tokens = << >> /\ failed = FALSE
Init == Start(Texts)

Token(kind, from, to) ==
  /\ tokens' = Append(tokens, [kind |-> kind, str |-> from, end |-> to])
  /\ UNCHANGED <<text, failed>>

\* Variant: a keyword may be the beginning of a longer word.
EndsAnywhere(n) == TRUE

\* The end of a keyword is where no alphanumeric follows.
EndsAt(n) == ~is_alnum(Char(n))

Keyword(k) == Matches(Keywords[k].word, Keywords[k].compared) /\ EndsAt(Len(Keywords[k].word))
KeywordHere == \E k \in DOMAIN Keywords : Keyword(k)

Space ==
  /\ isspace(Char(0))
  /\ p' = p + 1 /\ UNCHANGED <<text, tokens, failed>>

TakeKeyword ==
  /\ KeywordHere
  /\ LET k == CHOOSE n \in DOMAIN Keywords : Keyword(n) /\ \A m \in 1..(n - 1) : ~Keyword(m)
         end == p + Len(Keywords[k].word)
     IN  p' = end /\ Token(Keywords[k].kind, p, end)

\* Variant: one-character symbols are tried first.
Never2char == FALSE

is_2char_symbol == <<Char(0), Char(1)>> \in Symbols2

Take2char ==
  /\ ~KeywordHere /\ is_2char_symbol
  /\ p' = p + 2 /\ Token("RESERVED", p, p + 2)

TakeSymbol ==
  /\ ~KeywordHere /\ ~is_2char_symbol /\ Char(0) \in Symbols
  /\ p' = p + 1 /\ Token("RESERVED", p, p + 1)

TakeIdent ==
  /\ ~KeywordHere /\ Char(0) \in Lower
  /\ p' = Run(Lower, p) /\ Token("IDENT", p, Run(Lower, p))

TakeNumber ==
  /\ Char(0) \in Digits
  /\ p' = Run(Digits, p) /\ Token("NUM", p, Run(Digits, p))

\* The places of quotes behind the one at the pointer.
Quotes == {m \in (p + 1)..(Len(text) - 1) : text[m + 1] = QUOTE}

TakeString ==
  /\ Char(0) = QUOTE /\ Quotes # {}
  /\ LET end == CHOOSE m \in Quotes : \A n \in Quotes : m <= n
     IN  p' = end + 1 /\ Token("STR", p + 1, end)

\* Nothing but a quote ends a string: without one the loop runs past the NUL,
\* through memory that is not the text, until it finds a quote there or faults.
\* The model follows the pointer out of the text and no further.
TakeUnclosed ==
  /\ Char(0) = QUOTE /\ Quotes = {}
  /\ p' = Len(text) + 1 /\ Token("STR", p + 1, Len(text) + 1)

Fail ==
  /\ ~failed /\ ~KeywordHere /\ ~is_2char_symbol
  /\ ~isspace(Char(0)) /\ Char(0) \notin Symbols \cup Lower \cup Digits \cup {QUOTE, "NUL"}
  /\ failed' = TRUE /\ UNCHANGED <<text, p, tokens>>

AtEnd ==
  /\ Char(0) = "NUL" /\ \A k \in DOMAIN tokens : tokens[k].kind # "EOF"
  /\ Token("EOF", p, p) /\ UNCHANGED p

Next ==
  /\ ~failed /\ p <= Len(text)
  /\ \/ Space \/ TakeKeyword \/ Take2char \/ TakeSymbol \/ TakeIdent \/ TakeNumber
     \/ TakeString \/ TakeUnclosed \/ Fail \/ AtEnd

Spec == Init /\ [][Next]_vars
-----------------------------------------------------------------------------
(* Properties.                                                             *)

\* The quotes among the first n characters, and whether they make pairs.
QuotesIn(n) == {m \in DOMAIN text : m <= n /\ text[m] = QUOTE}
Paired(n) == Cardinality(QuotesIn(n)) % 2 = 0

\* The pointer leaves the text, past the NUL, only when the quotes of the text
\* do not make pairs; the tokens are before the pointer, in order.
TypeOK ==
  /\ p \in 0..(Len(text) + 1) /\ failed \in BOOLEAN
  /\ Paired(Len(text)) => p <= Len(text)
  /\ \A k \in DOMAIN tokens : 0 <= tokens[k].str /\ tokens[k].str <= tokens[k].end /\ tokens[k].end <= p
  /\ \A k \in 2..Len(tokens) : tokens[k - 1].end <= tokens[k].str

\* Only spaces and quotes are between two tokens: nothing of the text is
\* dropped (tokenize()).
NothingLost ==
  \A n \in DOMAIN text : n <= p =>
    \/ isspace(text[n]) \/ text[n] = QUOTE
    \/ \E k \in DOMAIN tokens : tokens[k].str < n /\ n <= tokens[k].end

\* A word of two or three characters that begins with "in" and is not the
\* type's: the code takes it, or it and the character behind, for the keyword.
HasIn(t) ==
  \E n \in 1..(Len(t) - 1) :
    /\ n = 1 \/ t[n - 1] \notin Lower
    /\ t[n] = "i" /\ t[n + 1] = "n" /\ (n + 2 > Len(t) \/ t[n + 2] # "t")
    /\ n + 3 > Len(t) \/ ~is_alnum(t[n + 3])

\* A word is one token, and a keyword exactly when it has the letters of one
\* and no alphanumeric follows: "int" and "char" are the arithmetic types of
\* syntax.ebnf, and no other word is.
Word(t) == SubSeq(text, t.str + 1, IF t.end < Len(text) THEN t.end ELSE Len(text))
IsKeyword(t) == t.kind \in {Keywords[k].kind : k \in DOMAIN Keywords}
After(t) == IF t.end < Len(text) THEN text[t.end + 1] ELSE "NUL"
Words ==
  \A k \in DOMAIN tokens : IsKeyword(tokens[k]) \/ tokens[k].kind = "IDENT" =>
    /\ \A n \in DOMAIN Word(tokens[k]) : Word(tokens[k])[n] \in Lower
    /\ After(tokens[k]) \notin Lower
    /\ IsKeyword(tokens[k]) <=>
         ~is_alnum(After(tokens[k])) /\ \E n \in DOMAIN Keywords : Word(tokens[k]) = Keywords[n].word

\* Two characters that make up a symbol are not read as two (is_2char_symbol()).
LongestSymbol ==
  \A k \in DOMAIN tokens :
    tokens[k].kind = "RESERVED" /\ tokens[k].end = tokens[k].str + 1 =>
      Word(tokens[k]) \o <<After(tokens[k])>> \notin Symbols2

\* The text is cut where the grammar cuts it: no character is lost between
\* two tokens and no symbol is cut in two.
WellCut == NothingLost /\ LongestSymbol
=============================================================================
