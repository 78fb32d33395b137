---------------------------- MODULE ScannerProofs ----------------------------
(***************************************************************************)
(* For every set of texts: tokenize() stays within a text whose quotes     *)
(* make pairs, drops nothing of a text, cuts no symbol of two characters   *)
(* in two, and finds the words and the keywords of the grammar.  The texts *)
(* are those without a word of two or three characters that begins with    *)
(* "in" and is not the type's: TLC shows that the code reads the others    *)
(* wrongly.                                                                *)
(***************************************************************************)
EXTENDS Scanner, TLAPS, FiniteSetTheorems, WellFoundedInduction, SequenceTheorems

Kinds == {"CHAR", "IF", "INT", "ELSE", "RETURN", "SIZEOF", "WHILE",
          "IDENT", "RESERVED", "NUM", "STR", "EOF"}
TokenSet == [kind : Kinds, str : Nat, end : Nat]

\* What Words and LongestSymbol say of one token.
OneWord(t) ==
  IsKeyword(t) \/ t.kind = "IDENT" =>
    /\ \A n \in DOMAIN Word(t) : Word(t)[n] \in Lower
    /\ After(t) \notin Lower
    /\ IsKeyword(t) <=>
         ~is_alnum(After(t)) /\ \E n \in DOMAIN Keywords : Word(t) = Keywords[n].word

OneSymbol(t) ==
  t.kind = "RESERVED" /\ t.end = t.str + 1 => Word(t) \o <<After(t)>> \notin Symbols2

\* A text the code reads as the grammar does.
Sane == text \in Seq(STRING) /\ ~HasIn(text)

\* No word of the text goes on at n.
Cut(n) == n = 0 \/ n >= Len(text) \/ text[n] \notin Lower \/ text[n + 1] \notin Lower

\* Between two tokens the quotes before the pointer make pairs; they never
\* will once the pointer has left the text.
Within == p <= Len(text)
Pairs == IF Within THEN Paired(p) ELSE ~Paired(Len(text))

IInv == Sane /\ Cut(p) /\ tokens \in Seq(TokenSet) /\ TypeOK /\ Pairs /\ WellCut /\ Words

\* The step appends t, and nothing but blanks and quotes is outside of it.
Takes(t) ==
  /\ t \in TokenSet /\ tokens' = Append(tokens, t)
  /\ text' = text /\ failed' = failed /\ p' \in 0..(Len(text) + 1)
  /\ p <= t.str /\ t.str <= t.end /\ t.end <= p' /\ Cut(p')
  /\ \A n \in (p + 1)..p' : isspace(text[n]) \/ text[n] = QUOTE \/ (t.str < n /\ n <= t.end)
  /\ Pairs' /\ OneWord(t) /\ OneSymbol(t)

-----------------------------------------------------------------------------
\* A set of natural numbers has a least element.  The intervals below its
\* elements are finite, and the strict inclusion of finite sets is well founded.
LEMMA Least ==
  ASSUME NEW S, S \subseteq Nat, S # {}
  PROVE  \E n \in S : \A m \in S : n <= m
<1> DEFINE Order == StrictSubsetOrdering(Nat)
           T == {1..n : n \in S}
<1>1. IsWellFoundedOn(Order, FiniteSubsetsOf(Nat))
  BY FS_StrictSubsetOrderingWellFounded
<1>2. \A n \in S : 1..n \in FiniteSubsetsOf(Nat)
  <2> TAKE n \in S
  <2>1. IsFiniteSet(1..n) /\ 1..n \in SUBSET Nat
    BY FS_Interval
  <2> QED BY <2>1 DEF FiniteSubsetsOf
<1>3. ASSUME NEW m \in S, NEW n \in S, m < n PROVE <<1..m, 1..n>> \in Order
  <2>1. 1..m \in SUBSET Nat /\ 1..n \in SUBSET Nat /\ 1..m \subseteq 1..n
    BY <1>3
  <2>2. n \in 1..n /\ n \notin 1..m
    BY <1>3
  <2>3. 1..m # 1..n
    BY <2>2
  <2> QED BY <2>1, <2>3 DEF StrictSubsetOrdering
<1> HIDE DEF Order
<1>4. PICK I \in T : \A J \in T : <<J, I>> \notin Order
  <2>1. T \subseteq FiniteSubsetsOf(Nat) /\ T # {}
    BY <1>2
  <2> HIDE DEF T
  <2> QED BY <1>1, <2>1, WFMin
<1>5. PICK n \in S : I = 1..n
  BY <1>4
<1>6. ASSUME NEW m \in S PROVE n <= m
  <2>1. <<1..m, 1..n>> \notin Order
    BY <1>4, <1>5
  <2> QED BY <1>3, <2>1
<1> QED BY <1>6

\* The run from n on is of characters of the class, and as long as it can be.
LEMMA RunEnds ==
  ASSUME text \in Seq(STRING), NEW class, NEW n \in 0..Len(text)
  PROVE  /\ Run(class, n) \in n..Len(text)
         /\ Run(class, n) = Len(text) \/ text[Run(class, n) + 1] \notin class
         /\ \A k \in (n + 1)..Run(class, n) : text[k] \in class
<1> DEFINE S == {m \in n..Len(text) : m = Len(text) \/ text[m + 1] \notin class}
           Q(m) == /\ m = Len(text) \/ text[m + 1] \notin class
                   /\ \A k \in (n + 1)..m : text[k] \in class
<1>1. Len(text) \in Nat /\ S \subseteq n..Len(text) /\ Len(text) \in S
  OBVIOUS
<1>2. \A j \in n..Len(text) : j \notin S => j # Len(text) /\ text[j + 1] \in class
  OBVIOUS
<1>3. \A j \in S : j = Len(text) \/ text[j + 1] \notin class
  OBVIOUS
<1> HIDE DEF S
<1>4. PICK m \in S : \A j \in S : m <= j
  <2>1. S \subseteq Nat /\ S # {}
    BY <1>1
  <2> QED BY <2>1, Least
<1>5. ASSUME NEW k \in (n + 1)..m PROVE text[k] \in class
  <2>1. k - 1 \in n..Len(text) /\ k - 1 < m /\ (k - 1) + 1 = k
    BY <1>1, <1>4
  <2>2. k - 1 \notin S
    BY <1>1, <1>4, <2>1
  <2> QED BY <1>2, <2>1, <2>2
<1>6. Q(m) /\ m \in n..Len(text)
  BY <1>1, <1>3, <1>4, <1>5
<1> HIDE DEF Q
<1>7. Run(class, n) = CHOOSE j \in n..Len(text) : Q(j)
  BY DEF Run, Q
<1>8. Run(class, n) \in n..Len(text) /\ Q(Run(class, n))
  BY <1>6, <1>7
<1> QED BY <1>8 DEF Q

\* A keyword is of small letters, and all of them are compared but of "int".
KeywordOf(w) ==
  /\ w.kind \in Kinds \ {"IDENT", "RESERVED", "NUM", "STR", "EOF"}
  /\ w.word \in Seq(Lower) /\ Len(w.word) \in Nat \ {0}
  /\ w.compared = Len(w.word) \/ (w.word = <<"i", "n", "t">> /\ w.compared = 2)

LEMMA KeywordTable == DOMAIN Keywords = 1..7 /\ \A k \in 1..7 : KeywordOf(Keywords[k])
<1>1. DOMAIN Keywords = 1..7
  BY DEF Keywords
<1>2. KeywordOf(Keywords[1])
  <2>1. Keywords[1] = [kind |-> "CHAR", word |-> <<"c", "h", "a", "r">>, compared |-> 4]
    BY DEF Keywords
  <2> QED BY <2>1 DEF KeywordOf, Kinds, Lower
<1>3. KeywordOf(Keywords[2])
  <2>1. Keywords[2] = [kind |-> "IF", word |-> <<"i", "f">>, compared |-> 2]
    BY DEF Keywords
  <2> QED BY <2>1 DEF KeywordOf, Kinds, Lower
<1>4. KeywordOf(Keywords[3])
  <2>1. Keywords[3] = [kind |-> "INT", word |-> <<"i", "n", "t">>, compared |-> 2]
    BY DEF Keywords
  <2> QED BY <2>1 DEF KeywordOf, Kinds, Lower
<1>5. KeywordOf(Keywords[4])
  <2>1. Keywords[4] = [kind |-> "ELSE", word |-> <<"e", "l", "s", "e">>, compared |-> 4]
    BY DEF Keywords
  <2> QED BY <2>1 DEF KeywordOf, Kinds, Lower
<1>6. KeywordOf(Keywords[5])
  <2>1. Keywords[5] = [kind |-> "RETURN", word |-> <<"r", "e", "t", "u", "r", "n">>, compared |-> 6]
    BY DEF Keywords
  <2> QED BY <2>1 DEF KeywordOf, Kinds, Lower
<1>7. KeywordOf(Keywords[6])
  <2>1. Keywords[6] = [kind |-> "SIZEOF", word |-> <<"s", "i", "z", "e", "o", "f">>, compared |-> 6]
    BY DEF Keywords
  <2> QED BY <2>1 DEF KeywordOf, Kinds, Lower
<1>8. KeywordOf(Keywords[7])
  <2>1. Keywords[7] = [kind |-> "WHILE", word |-> <<"w", "h", "i", "l", "e">>, compared |-> 5]
    BY DEF Keywords
  <2> QED BY <2>1 DEF KeywordOf, Kinds, Lower
<1> QED BY <1>1, <1>2, <1>3, <1>4, <1>5, <1>6, <1>7, <1>8

\* What is at the pointer is in the text, unless it is the NUL behind it.
LEMMA AtPointer ==
  ASSUME text \in Seq(STRING), p \in 0..Len(text), NEW n \in Nat, Char(n) # "NUL"
  PROVE  p + n + 1 \in 1..Len(text) /\ Char(n) = text[p + n + 1]
BY DEF Char

LEMMA WordIs ==
  ASSUME text \in Seq(STRING), NEW t, t.str \in Nat, t.end \in Nat, t.str <= t.end, t.end <= Len(text)
  PROVE  /\ Word(t) \in Seq(STRING) /\ Len(Word(t)) = t.end - t.str
         /\ DOMAIN Word(t) = 1..(t.end - t.str)
         /\ \A n \in 1..(t.end - t.str) : Word(t)[n] = text[t.str + n]
<1> DEFINE from == t.str + 1
           to == t.end
<1>1. Word(t) = SubSeq(text, from, to)
  <2>1. (IF t.end < Len(text) THEN t.end ELSE Len(text)) = t.end
    <3>1. Len(text) \in Nat
      OBVIOUS
    <3> QED BY <3>1
  <2> QED BY <2>1 DEF Word
<1>2. from \in Int /\ to \in Int /\ \A n \in from..to : text[n] \in STRING
  OBVIOUS
<1> HIDE DEF from, to
<1>3. /\ SubSeq(text, from, to) \in Seq(STRING)
      /\ Len(SubSeq(text, from, to)) = IF from <= to THEN to - from + 1 ELSE 0
      /\ \A n \in 1..(to - from + 1) : SubSeq(text, from, to)[n] = text[from + n - 1]
  BY <1>2, SubSeqProperties
<1>4. /\ Word(t) \in Seq(STRING) /\ Len(Word(t)) = t.end - t.str
  BY <1>1, <1>3 DEF from, to
<1>5. ASSUME NEW n \in 1..(t.end - t.str) PROVE Word(t)[n] = text[t.str + n]
  <2>1. n \in 1..(to - from + 1) /\ from + n - 1 = t.str + n
    BY DEF from, to
  <2> QED BY <1>1, <1>3, <2>1
<1> QED BY <1>4, <1>5

\* The two characters that make up the keyword int are followed by the third.
LEMMA WholeKeyword ==
  ASSUME Sane, Cut(p), p \in 0..Len(text), NEW k \in 1..7, Keyword(k)
  PROVE  /\ p + Len(Keywords[k].word) <= Len(text)
         /\ \A j \in 1..Len(Keywords[k].word) : text[p + j] = Keywords[k].word[j]
         /\ ~is_alnum(Char(Len(Keywords[k].word)))
<1> DEFINE w == Keywords[k].word
           n == Keywords[k].compared
<1>1. /\ w \in Seq(Lower) /\ Len(w) \in Nat \ {0} /\ n \in 1..Len(w)
      /\ n = Len(w) \/ (w = <<"i", "n", "t">> /\ n = 2)
  <2>1. KeywordOf(Keywords[k])
    BY KeywordTable
  <2>2. /\ w \in Seq(Lower) /\ Len(w) \in Nat \ {0}
        /\ n = Len(w) \/ (w = <<"i", "n", "t">> /\ n = 2)
    BY <2>1 DEF KeywordOf
  <2> HIDE DEF w, n
  <2>3. CASE n = Len(w)
    BY <2>2, <2>3
  <2>4. CASE w = <<"i", "n", "t">> /\ n = 2
    <3>1. Len(w) = 3
      BY <2>4
    <3>2. n = 2
      BY <2>4
    <3>3. n \in 1..Len(w)
      BY <3>1, <3>2
    <3> QED BY <2>2, <3>3
  <2> QED BY <2>2, <2>3, <2>4
<1>2. ~is_alnum(Char(Len(w))) /\ \A j \in 1..n : Char(j - 1) = w[j]
  BY DEF Keyword, EndsAt, Matches
<1>3. text \in Seq(STRING) /\ ~HasIn(text)
  BY DEF Sane
<1> HIDE DEF w, n
<1>4. ASSUME NEW j \in 1..n PROVE p + j <= Len(text) /\ text[p + j] = w[j]
  <2>1. w[j] \in Lower /\ Char(j - 1) = w[j]
    BY <1>1, <1>2
  <2>2. Char(j - 1) # "NUL" /\ j - 1 \in Nat
    BY <1>1, <2>1 DEF Lower
  <2>3. p + (j - 1) + 1 \in 1..Len(text) /\ Char(j - 1) = text[p + (j - 1) + 1]
    BY <1>3, <2>2, AtPointer
  <2> QED BY <1>1, <2>1, <2>3
<1>5. p + Len(w) <= Len(text) /\ \A j \in 1..Len(w) : text[p + j] = w[j]
  <2>1. CASE n = Len(w)
    BY <1>1, <1>4, <2>1
  <2>2. CASE w = <<"i", "n", "t">> /\ n = 2
    <3>1. p + 1 \in 1..(Len(text) - 1) /\ text[p + 1] = "i" /\ text[(p + 1) + 1] = "n"
      BY <1>3, <1>4, <2>2
    <3>2. Len(w) = 3
      BY <2>2
    <3>3. p + 4 > Len(text) \/ ~is_alnum(text[p + 4])
      BY <1>2, <1>3, <3>2 DEF Char
    <3>4. p + 1 = 1 \/ text[(p + 1) - 1] \notin Lower
      BY <1>3, <3>1 DEF Cut, Lower
    <3>5. p + 3 <= Len(text) /\ text[p + 3] = "t"
      <4>1. (p + 1) + 2 = p + 3 /\ (p + 1) + 3 = p + 4
        BY <1>3
      <4> QED BY <1>3, <3>1, <3>3, <3>4, <4>1 DEF HasIn
    <3> QED BY <1>4, <2>2, <3>2, <3>5
  <2> QED BY <1>1, <2>1, <2>2
<1> QED BY <1>2, <1>5 DEF w

LEMMA FiniteQuotes ==
  ASSUME text \in Seq(STRING)
  PROVE  \A n : IsFiniteSet(QuotesIn(n)) /\ Cardinality(QuotesIn(n)) \in Nat
<1> TAKE n
<1>1. IsFiniteSet(1..Len(text)) /\ QuotesIn(n) \in SUBSET (1..Len(text))
  BY FS_Interval DEF QuotesIn
<1>2. IsFiniteSet(QuotesIn(n))
  BY <1>1, FS_Subset
<1> QED BY <1>2, FS_CardinalityType

\* A token without a quote leaves the pairs as they are.
LEMMA NoQuote ==
  ASSUME text \in Seq(STRING), text' = text, p \in 0..Len(text), Pairs,
         p' \in p..Len(text), \A n \in (p + 1)..p' : text[n] # QUOTE
  PROVE  Pairs'
<1>1. QuotesIn(p') = QuotesIn(p)
  <2>1. \A m \in 1..Len(text) : text[m] = QUOTE => (m <= p' <=> m <= p)
    OBVIOUS
  <2> QED BY <2>1 DEF QuotesIn
<1>2. Paired(p)
  BY DEF Pairs, Within
<1>3. Paired(p')
  BY <1>1, <1>2 DEF Paired
<1>4. Within'
  BY DEF Within
<1>5. Paired(p)'
  BY <1>3 DEF Paired, QuotesIn
<1> QED BY <1>4, <1>5 DEF Pairs

LEMMA Appended ==
  ASSUME IInv, NEW t, Takes(t)
  PROVE  IInv'
<1>0. /\ tokens \in Seq(TokenSet) /\ text \in Seq(STRING) /\ failed \in BOOLEAN /\ p \in 0..(Len(text) + 1)
  BY DEF IInv, Sane, TypeOK
<1>1. /\ t \in TokenSet /\ tokens' = Append(tokens, t) /\ tokens \in Seq(TokenSet)
      /\ text' = text /\ failed' = failed /\ p' \in 0..(Len(text) + 1)
      /\ p <= t.str /\ t.str <= t.end /\ t.end <= p' /\ t.str \in Nat /\ t.end \in Nat
      /\ Len(tokens) \in Nat /\ Len(text) \in Nat /\ DOMAIN tokens = 1..Len(tokens)
      /\ p \in Nat /\ p' \in Nat
  <2>1. t \in TokenSet
    BY DEF Takes
  <2>2. t.str \in Nat /\ t.end \in Nat
    BY <2>1 DEF TokenSet
  <2>3. Len(tokens) \in Nat /\ Len(text) \in Nat /\ DOMAIN tokens = 1..Len(tokens)
    BY <1>0
  <2> QED BY <1>0, <2>1, <2>2, <2>3 DEF Takes
<1>2. /\ tokens' \in Seq(TokenSet) /\ Len(tokens') = Len(tokens) + 1
      /\ DOMAIN tokens' = 1..(Len(tokens) + 1) /\ tokens'[Len(tokens) + 1] = t
      /\ \A k \in 1..Len(tokens) : tokens'[k] = tokens[k]
  BY <1>1
<1>3. Sane' /\ Cut(p)'
  BY <1>1 DEF IInv, Sane, HasIn, Takes, Cut
<1>4. /\ \A k \in 1..Len(tokens) : 0 <= tokens[k].str /\ tokens[k].str <= tokens[k].end /\ tokens[k].end <= p
      /\ \A k \in 2..Len(tokens) : tokens[k - 1].end <= tokens[k].str
  BY <1>1 DEF IInv, TypeOK
<1>5. ASSUME NEW k \in 1..Len(tokens) PROVE tokens[k].str \in Nat /\ tokens[k].end \in Nat
  <2>1. tokens[k] \in TokenSet
    BY <1>1
  <2> QED BY <2>1 DEF TokenSet
<1>6. TypeOK'
  <2>1. \A k \in DOMAIN tokens' : 0 <= tokens'[k].str /\ tokens'[k].str <= tokens'[k].end /\ tokens'[k].end <= p'
    <3> TAKE k \in DOMAIN tokens'
    <3>1. CASE k \in 1..Len(tokens)
      BY <1>1, <1>2, <1>4, <1>5, <3>1
    <3>2. CASE k = Len(tokens) + 1
      BY <1>1, <1>2, <3>2
    <3> QED BY <1>1, <1>2, <3>1, <3>2
  <2>2. \A k \in 2..Len(tokens') : tokens'[k - 1].end <= tokens'[k].str
    <3> TAKE k \in 2..Len(tokens')
    <3>0. k \in 2..(Len(tokens) + 1) /\ k - 1 \in 1..Len(tokens)
      BY <1>1, <1>2
    <3>1. CASE k \in 2..Len(tokens)
      <4>1. tokens'[k] = tokens[k] /\ tokens'[k - 1] = tokens[k - 1]
        BY <1>2, <3>0, <3>1
      <4> QED BY <1>4, <3>1, <4>1
    <3>2. CASE k = Len(tokens) + 1
      BY <1>1, <1>2, <1>4, <1>5, <3>0, <3>2
    <3> QED BY <1>1, <3>0, <3>1, <3>2
  <2>3. (Paired(Len(text)) => p <= Len(text))'
    <3>1. Pairs'
      BY DEF Takes
    <3> QED BY <3>1 DEF Pairs, Within
  <2>4. p' \in 0..(Len(text') + 1) /\ failed' \in BOOLEAN
    BY <1>0, <1>1
  <2> QED BY <2>1, <2>2, <2>3, <2>4 DEF TypeOK
<1>7. NothingLost'
  <2>0. text' = text /\ DOMAIN text = 1..Len(text)
    BY <1>1
  <2> SUFFICES ASSUME NEW n \in 1..Len(text), n <= p', ~isspace(text[n]), text[n] # QUOTE
               PROVE  \E k \in DOMAIN tokens' : tokens'[k].str < n /\ n <= tokens'[k].end
    BY <2>0 DEF NothingLost
  <2>1. CASE n <= p
    <3>1. PICK k \in DOMAIN tokens : tokens[k].str < n /\ n <= tokens[k].end
      BY <1>1, <2>1 DEF IInv, WellCut, NothingLost
    <3>2. k \in DOMAIN tokens' /\ tokens'[k] = tokens[k]
      BY <1>1, <1>2, <3>1
    <3> QED BY <3>1, <3>2
  <2>2. CASE n > p
    <3>1. t.str < n /\ n <= t.end
      BY <1>1, <2>2 DEF Takes
    <3>2. Len(tokens) + 1 \in DOMAIN tokens'
      BY <1>1, <1>2
    <3> QED BY <1>2, <3>1, <3>2
  <2> QED BY <1>1, <2>1, <2>2
<1>8. \A u : /\ OneWord(u)' <=> OneWord(u)
             /\ OneSymbol(u)' <=> OneSymbol(u)
  BY <1>1 DEF OneWord, OneSymbol, Word, After, IsKeyword
<1>9. \A k \in DOMAIN tokens : OneWord(tokens[k]) /\ OneSymbol(tokens[k])
  BY DEF IInv, WellCut, Words, LongestSymbol, OneWord, OneSymbol
<1>10. \A k \in DOMAIN tokens' : OneWord(tokens'[k]) /\ OneSymbol(tokens'[k])
  <2> TAKE k \in DOMAIN tokens'
  <2>1. CASE k \in 1..Len(tokens)
    BY <1>1, <1>2, <1>9, <2>1
  <2>2. CASE k = Len(tokens) + 1
    BY <1>2, <2>2 DEF Takes
  <2> QED BY <1>1, <1>2, <2>1, <2>2
<1>11. \A k \in DOMAIN tokens' : OneWord(tokens[k])' /\ OneSymbol(tokens[k])'
  BY <1>8, <1>10
<1>12. Words' /\ LongestSymbol'
  BY <1>11 DEF Words, LongestSymbol, OneWord, OneSymbol
<1> QED BY <1>2, <1>3, <1>6, <1>7, <1>12 DEF IInv, WellCut, Takes
-----------------------------------------------------------------------------
\* The keyword a step takes is one that is there.
FirstKeyword == CHOOSE n \in DOMAIN Keywords : Keyword(n) /\ \A m \in 1..(n - 1) : ~Keyword(m)

LEMMA KeywordFound ==
  ASSUME KeywordHere
  PROVE  FirstKeyword \in 1..7 /\ Keyword(FirstKeyword)
<1> DEFINE S == {n \in 1..7 : Keyword(n)}
           First(n) == Keyword(n) /\ \A m \in 1..(n - 1) : ~Keyword(m)
<1>1. S \subseteq Nat /\ S # {}
  BY KeywordTable DEF KeywordHere
<1>2. PICK n \in S : \A m \in S : n <= m
  <2> HIDE DEF S
  <2> QED BY <1>1, Least
<1>3. n \in 1..7 /\ First(n)
  BY <1>2
<1> HIDE DEF First
<1>4. FirstKeyword = CHOOSE j \in 1..7 : First(j)
  BY KeywordTable DEF FirstKeyword, First
<1>5. First(FirstKeyword) /\ FirstKeyword \in 1..7
  BY <1>3, <1>4
<1> QED BY <1>5 DEF First

\* What is not of small letters.
LEMMA OtherThanWords ==
  /\ \A c : isspace(c) \/ c = QUOTE => c \notin Lower
  /\ \A c \in Symbols \cup Digits : c \notin Lower
  /\ \A c : \A d : <<c, d>> \in Symbols2 => d \notin Lower
  /\ QUOTE \notin Symbols \cup Digits /\ ~isspace(QUOTE)
  /\ \A c : \A d : <<c, d>> \in Symbols2 => c # QUOTE /\ d # QUOTE
<1>1. ASSUME NEW c, isspace(c) PROVE c \notin Lower
  BY <1>1, Zenon DEF isspace, Lower
<1>2. ASSUME NEW c, c = QUOTE PROVE c \notin Lower
  BY <1>2, Zenon DEF QUOTE, Lower
<1>3. ASSUME NEW c \in Symbols PROVE c \notin Lower
  BY <1>3, ZenonT(60) DEF Symbols, Lower
<1>4. ASSUME NEW c \in Digits PROVE c \notin Lower
  BY DEF Digits, Lower
<1>5. ASSUME NEW c, NEW d, <<c, d>> \in Symbols2 PROVE d \notin Lower
  BY <1>5 DEF Symbols2, Lower
<1>6. QUOTE \notin Symbols
  BY ZenonT(60) DEF QUOTE, Symbols
<1>7. QUOTE \notin Digits /\ ~isspace(QUOTE)
  BY Zenon DEF QUOTE, Digits, isspace
<1>8. ASSUME NEW c, NEW d, <<c, d>> \in Symbols2 PROVE c # QUOTE /\ d # QUOTE
  <2>1. c \in {"<", ">", "=", "!"} /\ d = "="
    BY <1>8 DEF Symbols2
  <2>2. QUOTE \notin {"<", ">", "=", "!"}
    BY Zenon DEF QUOTE
  <2> QED BY <2>1, <2>2
<1> QED BY <1>1, <1>2, <1>3, <1>4, <1>5, <1>6, <1>7, <1>8

LEMMA KeywordTaken ==
  ASSUME IInv, Within, TakeKeyword
  PROVE  IInv'
<1> DEFINE k == FirstKeyword
           w == Keywords[k].word
           t == [kind |-> Keywords[k].kind, str |-> p, end |-> p + Len(w)]
<1>1. k \in 1..7 /\ Keyword(k)
  BY KeywordFound DEF TakeKeyword
<1>2. /\ tokens' = Append(tokens, t) /\ text' = text /\ failed' = failed /\ p' = p + Len(w)
  BY DEF TakeKeyword, Token, FirstKeyword
<1>3. KeywordOf(Keywords[k])
  BY <1>1, KeywordTable
<1>4. /\ Sane /\ Cut(p) /\ p \in 0..Len(text) /\ text \in Seq(STRING)
      /\ Len(text) \in Nat /\ p \in Nat
  <2>1. Sane /\ Cut(p) /\ p \in 0..Len(text) /\ text \in Seq(STRING)
    BY DEF IInv, TypeOK, Sane, Within
  <2>2. Len(text) \in Nat
    BY <2>1
  <2> QED BY <2>1, <2>2
<1>5. /\ p + Len(w) <= Len(text) /\ \A j \in 1..Len(w) : text[p + j] = w[j]
      /\ ~is_alnum(Char(Len(w)))
  <2> HIDE DEF k
  <2> QED BY <1>1, <1>4, WholeKeyword
<1> HIDE DEF k
<1>6. /\ w \in Seq(Lower) /\ Len(w) \in Nat \ {0} /\ DOMAIN w = 1..Len(w)
      /\ Keywords[k].kind \in Kinds \ {"IDENT", "RESERVED", "NUM", "STR", "EOF"}
  <2>1. w \in Seq(Lower) /\ Len(w) \in Nat \ {0}
        /\ Keywords[k].kind \in Kinds \ {"IDENT", "RESERVED", "NUM", "STR", "EOF"}
    BY <1>3 DEF KeywordOf
  <2>2. DOMAIN w = 1..Len(w)
    BY <2>1
  <2> QED BY <2>1, <2>2
<1> HIDE DEF w
<1>7. /\ t.str = p /\ t.end = p + Len(w) /\ t.kind = Keywords[k].kind
      /\ t \in TokenSet
  BY <1>4, <1>6 DEF TokenSet
<1>8. t.str \in Nat /\ t.end \in Nat /\ t.str <= t.end /\ t.end <= Len(text) /\ t.end - t.str = Len(w)
  BY <1>4, <1>5, <1>6, <1>7
<1> HIDE DEF t
<1>9. /\ Word(t) \in Seq(STRING) /\ Len(Word(t)) = Len(w) /\ DOMAIN Word(t) = 1..Len(w)
      /\ \A n \in 1..Len(w) : Word(t)[n] = w[n]
  <2>1. /\ Word(t) \in Seq(STRING) /\ Len(Word(t)) = t.end - t.str
        /\ DOMAIN Word(t) = 1..(t.end - t.str)
        /\ \A n \in 1..(t.end - t.str) : Word(t)[n] = text[t.str + n]
    BY <1>4, <1>8, WordIs
  <2> QED BY <1>5, <1>7, <1>8, <2>1
<1>10. Word(t) = w
  BY <1>6, <1>9
<1>11. After(t) = Char(Len(w))
  BY <1>4, <1>6, <1>7 DEF After, Char
<1>12. OneWord(t)
  <2>1. \A n \in DOMAIN w : w[n] \in Lower
    BY <1>6
  <2>2. After(t) \notin Lower /\ ~is_alnum(After(t))
    BY <1>5, <1>11 DEF is_alnum
  <2>3. k \in DOMAIN Keywords /\ w = Keywords[k].word /\ IsKeyword(t)
    BY <1>1, <1>7, KeywordTable DEF w, IsKeyword
  <2> QED BY <1>10, <2>1, <2>2, <2>3 DEF OneWord
<1>13. OneSymbol(t)
  BY <1>6, <1>7 DEF OneSymbol
<1>14. Cut(p')
  <2>1. p' = p + Len(w) /\ (p' = Len(text) \/ Char(Len(w)) = text[p' + 1])
    BY <1>2, <1>4, <1>5, <1>6 DEF Char
  <2>2. Char(Len(w)) \notin Lower
    BY <1>5 DEF is_alnum
  <2> QED BY <2>1, <2>2 DEF Cut
<1>15. Pairs'
  <2>1. ASSUME NEW n \in (p + 1)..p' PROVE text[n] # QUOTE
    <3>1. n - p \in 1..Len(w) /\ p + (n - p) = n
      BY <1>2, <1>4, <1>6
    <3>2. w[n - p] \in Lower
      BY <1>6, <3>1
    <3>3. text[n] \in Lower
      BY <1>5, <3>1, <3>2
    <3> QED BY <3>3, OtherThanWords
  <2>2. Pairs
    BY DEF IInv
  <2>3. p' \in p..Len(text)
    BY <1>2, <1>4, <1>5, <1>6
  <2> QED BY <1>2, <1>4, <2>1, <2>2, <2>3, NoQuote
<1>16. Takes(t)
  BY <1>2, <1>4, <1>5, <1>6, <1>7, <1>12, <1>13, <1>14, <1>15 DEF Takes
<1> QED BY <1>16, Appended

LEMMA SpaceTaken ==
  ASSUME IInv, Within, Space
  PROVE  IInv'
<1>1. /\ text \in Seq(STRING) /\ p \in 0..Len(text)
      /\ isspace(Char(0)) /\ p' = p + 1 /\ text' = text /\ tokens' = tokens /\ failed' = failed
  BY DEF IInv, TypeOK, Sane, Space, Within
<1>2. Char(0) # "NUL"
  <2>1. "NUL" \notin {" ", "\n"}
    BY Zenon
  <2> QED BY <1>1, <2>1, Zenon DEF isspace
<1>3. p + 1 \in 1..Len(text) /\ isspace(text[p + 1])
  <2>1. p + 0 + 1 \in 1..Len(text) /\ Char(0) = text[p + 0 + 1]
    BY <1>1, <1>2, AtPointer
  <2>2. p + 0 + 1 = p + 1
    BY <1>1
  <2> QED BY <1>1, <2>1, <2>2
<1>4. Len(text) \in Nat /\ p \in Nat
  BY <1>1
<1>5. /\ Sane' /\ Words' /\ LongestSymbol'
      /\ Cut(p)'
  <2>1. Sane' /\ Words' /\ LongestSymbol'
    <3>1. Sane /\ Words /\ LongestSymbol
      BY DEF IInv, WellCut
    <3>2. Sane'
      BY <1>1, <3>1 DEF Sane, HasIn
    <3>3. Words'
      BY <1>1, <3>1 DEF Words, Word, After, IsKeyword
    <3>4. LongestSymbol'
      BY <1>1, <3>1 DEF LongestSymbol, Word, After
    <3> QED BY <3>2, <3>3, <3>4
  <2>2. text[p + 1] \notin Lower
    BY <1>3, OtherThanWords
  <2> QED BY <1>1, <2>1, <2>2 DEF Cut
<1>6. tokens \in Seq(TokenSet)
  BY DEF IInv
<1>7. TypeOK'
  <2>1. \A k \in DOMAIN tokens : tokens[k].end \in Nat
    <3> TAKE k \in DOMAIN tokens
    <3>1. tokens[k] \in TokenSet
      BY <1>6
    <3> QED BY <3>1 DEF TokenSet
  <2>2. /\ failed \in BOOLEAN
        /\ \A k \in DOMAIN tokens : 0 <= tokens[k].str /\ tokens[k].str <= tokens[k].end /\ tokens[k].end <= p
        /\ \A k \in 2..Len(tokens) : tokens[k - 1].end <= tokens[k].str
    BY DEF IInv, TypeOK
  <2>3. \A k \in DOMAIN tokens : tokens[k].end <= p + 1
    BY <1>4, <2>1, <2>2
  <2>4. (Paired(Len(text)) => p <= Len(text))'
    BY <1>1, <1>3, <1>4
  <2> QED BY <1>1, <1>3, <1>4, <2>2, <2>3, <2>4 DEF TypeOK
<1>8. NothingLost'
  <2> SUFFICES ASSUME NEW n \in 1..Len(text), n <= p + 1
               PROVE  \/ isspace(text[n]) \/ text[n] = QUOTE
                      \/ \E k \in DOMAIN tokens : tokens[k].str < n /\ n <= tokens[k].end
    BY <1>1 DEF NothingLost
  <2>1. CASE n \in 1..p
    BY <2>1 DEF IInv, WellCut, NothingLost
  <2>2. CASE n = p + 1
    BY <1>3, <2>2
  <2> QED BY <1>4, <2>1, <2>2
<1>9. Pairs'
  <2>1. \A n \in (p + 1)..p' : text[n] # QUOTE
    BY <1>1, <1>3, <1>4, OtherThanWords
  <2>2. Pairs /\ p' \in p..Len(text)
    BY <1>1, <1>3, <1>4 DEF IInv
  <2> QED BY <1>1, <2>1, <2>2, NoQuote
<1> QED BY <1>1, <1>5, <1>6, <1>7, <1>8, <1>9 DEF IInv, WellCut

\* What every step may use.
LEMMA Here ==
  ASSUME IInv, Within
  PROVE  /\ Sane /\ text \in Seq(STRING) /\ Len(text) \in Nat
         /\ p \in 0..Len(text) /\ p \in Nat /\ Pairs
<1>1. Sane /\ text \in Seq(STRING) /\ p \in 0..Len(text) /\ Pairs
  BY DEF IInv, TypeOK, Sane, Within
<1>2. Len(text) \in Nat
  BY <1>1
<1> QED BY <1>1, <1>2

LEMMA NoKeyword ==
  ASSUME NEW t, t.kind \in {"IDENT", "RESERVED", "NUM", "STR", "EOF"}
  PROVE  /\ ~IsKeyword(t) /\ (t.kind # "IDENT" => OneWord(t)) /\ (t.kind # "RESERVED" => OneSymbol(t))
<1>1. \A k \in DOMAIN Keywords : Keywords[k].kind \notin {"IDENT", "RESERVED", "NUM", "STR", "EOF"}
  BY KeywordTable DEF KeywordOf
<1>2. ~IsKeyword(t)
  BY <1>1 DEF IsKeyword
<1> QED BY <1>2 DEF OneWord, OneSymbol

LEMMA OneElement ==
  ASSUME NEW S, NEW s \in Seq(S), Len(s) = 1
  PROVE  s = <<s[1]>>
<1>1. DOMAIN s = 1..1 /\ s = [k \in 1..1 |-> s[k]]
  OBVIOUS
<1>2. <<s[1]>> = [k \in 1..1 |-> s[k]]
  OBVIOUS
<1> QED BY <1>1, <1>2

LEMMA Couple ==
  ASSUME NEW a, NEW b
  PROVE  <<a>> \o <<b>> = <<a, b>>
<1> DEFINE S == {a, b}
           c == <<a>> \o <<b>>
<1>1. <<a>> \in Seq(S) /\ <<b>> \in Seq(S)
  OBVIOUS
<1>2. c \in Seq(S) /\ Len(c) = 2 /\ c[1] = a /\ c[2] = b
  BY <1>1
<1> HIDE DEF S, c
<1>3. c = [k \in 1..2 |-> c[k]]
  BY <1>2
<1>4. <<a, b>> = [k \in 1..2 |-> IF k = 1 THEN a ELSE b]
  OBVIOUS
<1>5. \A k \in 1..2 : c[k] = IF k = 1 THEN a ELSE b
  BY <1>2
<1>6. c = <<a, b>>
  BY <1>3, <1>4, <1>5
<1> QED BY <1>6 DEF c

LEMMA SymbolTaken ==
  ASSUME IInv, Within, Take2char \/ TakeSymbol
  PROVE  IInv'
<1>1. CASE Take2char
  <2> DEFINE t == [kind |-> "RESERVED", str |-> p, end |-> p + 2]
  <2>1. tokens' = Append(tokens, t) /\ text' = text /\ failed' = failed /\ p' = p + 2
    BY <1>1 DEF Take2char, Token
  <2>2. Char(1) # "NUL"
    BY <1>1 DEF Take2char, is_2char_symbol, Symbols2
  <2>3. p + 2 <= Len(text)
    <3>1. p + 1 + 1 \in 1..Len(text)
      BY <2>2, Here, AtPointer
    <3> QED BY <3>1, Here
  <2>4. t \in TokenSet /\ t.str = p /\ t.end = p + 2 /\ t.kind = "RESERVED"
    BY Here DEF TokenSet, Kinds
  <2> HIDE DEF t
  <2>5. OneWord(t)
    BY <2>4, NoKeyword
  <2>6. OneSymbol(t)
    BY <2>4, Here DEF OneSymbol
  <2>7. Cut(p')
    <3>1. Char(1) \notin Lower
      BY <1>1, OtherThanWords DEF Take2char, is_2char_symbol
    <3>2. Char(1) = text[p + 2] /\ p' = p + 2
      <4>1. p + 1 + 1 = p + 2 /\ Char(1) = text[p + 1 + 1]
        BY <2>2, Here, AtPointer
      <4> QED BY <2>1, <4>1
    <3> QED BY <3>1, <3>2 DEF Cut
  <2>8. Pairs'
    <3>1. Char(0) # QUOTE /\ Char(1) # QUOTE
      BY <1>1, OtherThanWords DEF Take2char, is_2char_symbol
    <3>2. Char(0) = text[p + 1] /\ Char(1) = text[p + 2]
      BY <2>3, Here DEF Char
    <3>3. \A n \in (p + 1)..p' : n = p + 1 \/ n = p + 2
      BY <2>1, Here
    <3>4. \A n \in (p + 1)..p' : text[n] # QUOTE
      BY <3>1, <3>2, <3>3
    <3>5. p' \in p..Len(text)
      BY <2>1, <2>3, Here
    <3> QED BY <2>1, <3>4, <3>5, Here, NoQuote
  <2>9. Takes(t)
    BY <2>1, <2>3, <2>4, <2>5, <2>6, <2>7, <2>8, Here DEF Takes
  <2> QED BY <2>9, Appended
<1>2. CASE TakeSymbol
  <2> DEFINE t == [kind |-> "RESERVED", str |-> p, end |-> p + 1]
  <2>1. tokens' = Append(tokens, t) /\ text' = text /\ failed' = failed /\ p' = p + 1
    BY <1>2 DEF TakeSymbol, Token
  <2>2. Char(0) # "NUL"
    <3>1. "NUL" \notin Symbols
      BY Zenon DEF Symbols
    <3> QED BY <1>2, <3>1 DEF TakeSymbol
  <2>3. p + 1 <= Len(text) /\ Char(0) = text[p + 1]
    <3>1. p + 0 + 1 \in 1..Len(text) /\ Char(0) = text[p + 0 + 1]
      BY <2>2, Here, AtPointer
    <3>2. p + 0 + 1 = p + 1
      BY Here
    <3> QED BY <3>1, <3>2, Here
  <2>4. t \in TokenSet /\ t.str = p /\ t.end = p + 1 /\ t.kind = "RESERVED"
    BY Here DEF TokenSet, Kinds
  <2> HIDE DEF t
  <2>5. OneWord(t)
    BY <2>4, NoKeyword
  <2>6. OneSymbol(t)
    <3>1. /\ Word(t) \in Seq(STRING) /\ Len(Word(t)) = t.end - t.str
          /\ \A n \in 1..(t.end - t.str) : Word(t)[n] = text[t.str + n]
      <4>1. t.str \in Nat /\ t.end \in Nat /\ t.str <= t.end /\ t.end <= Len(text)
        BY <2>3, <2>4, Here
      <4> QED BY <4>1, Here, WordIs
    <3>2. t.end - t.str = 1 /\ t.str + 1 = p + 1
      BY <2>4, Here
    <3>3. Len(Word(t)) = 1 /\ Word(t)[1] = Char(0)
      BY <2>3, <3>1, <3>2
    <3>4. Word(t) = <<Char(0)>>
      BY <3>1, <3>3, OneElement
    <3>5. After(t) = Char(1)
      BY <2>4, Here DEF After, Char
    <3>6. <<Char(0)>> \o <<Char(1)>> = <<Char(0), Char(1)>>
      BY Couple
    <3> QED BY <1>2, <3>4, <3>5, <3>6 DEF OneSymbol, TakeSymbol, is_2char_symbol
  <2>7. Cut(p')
    <3>1. text[p + 1] \notin Lower
      BY <1>2, <2>3, OtherThanWords DEF TakeSymbol
    <3> QED BY <2>1, <3>1 DEF Cut
  <2>8. Pairs'
    <3>1. text[p + 1] # QUOTE
      BY <1>2, <2>3, OtherThanWords DEF TakeSymbol
    <3>2. \A n \in (p + 1)..p' : text[n] # QUOTE
      BY <2>1, <3>1, Here
    <3>3. p' \in p..Len(text)
      BY <2>1, <2>3, Here
    <3> QED BY <2>1, <3>2, <3>3, Here, NoQuote
  <2>9. Takes(t)
    BY <2>1, <2>3, <2>4, <2>5, <2>6, <2>7, <2>8, Here DEF Takes
  <2> QED BY <2>9, Appended
<1> QED BY <1>1, <1>2

LEMMA NumberTaken ==
  ASSUME IInv, Within, TakeNumber
  PROVE  IInv'
<1> DEFINE e == Run(Digits, p)
           t == [kind |-> "NUM", str |-> p, end |-> e]
<1>1. tokens' = Append(tokens, t) /\ text' = text /\ failed' = failed /\ p' = e
  BY DEF TakeNumber, Token
<1>2. /\ e \in p..Len(text) /\ (e = Len(text) \/ text[e + 1] \notin Digits)
      /\ \A n \in (p + 1)..e : text[n] \in Digits
  BY Here, RunEnds
<1> HIDE DEF e
<1>3. t \in TokenSet /\ t.str = p /\ t.end = e /\ t.kind = "NUM"
  BY <1>2, Here DEF TokenSet, Kinds
<1> HIDE DEF t
\* The run is not empty, so it ends with a digit.
<1>4. Cut(p')
  <2>1. Char(0) \in Digits /\ Char(0) # "NUL"
    BY DEF TakeNumber, Digits
  <2>2. p + 0 + 1 \in 1..Len(text) /\ Char(0) = text[p + 0 + 1] /\ p + 0 + 1 = p + 1
    BY <2>1, Here, AtPointer
  <2>3. p + 1 <= Len(text) /\ text[p + 1] \in Digits
    BY <2>1, <2>2
  <2>4. e # p
    BY <1>2, <2>3, Here
  <2>5. e \in (p + 1)..e
    BY <1>2, <2>4, Here
  <2>6. text[e] \notin Lower
    BY <1>2, <2>5, OtherThanWords
  <2> QED BY <1>1, <2>6 DEF Cut
<1>5. Pairs'
  <2>1. \A n \in (p + 1)..p' : text[n] # QUOTE
    BY <1>1, <1>2, OtherThanWords
  <2> QED BY <1>1, <1>2, <2>1, Here, NoQuote
<1>6. Takes(t)
  BY <1>1, <1>2, <1>3, <1>4, <1>5, Here, NoKeyword DEF Takes
<1> QED BY <1>6, Appended

LEMMA StringTaken ==
  ASSUME IInv, Within, TakeString
  PROVE  IInv'
<1> DEFINE e == CHOOSE m \in Quotes : \A n \in Quotes : m <= n
           t == [kind |-> "STR", str |-> p + 1, end |-> e]
<1>1. tokens' = Append(tokens, t) /\ text' = text /\ failed' = failed /\ p' = e + 1
  BY DEF TakeString, Token
<1>2. e \in Quotes /\ \A m \in Quotes : e <= m
  <2>1. Quotes \subseteq Nat /\ Quotes # {}
    <3>1. Quotes \subseteq Nat
      BY Here DEF Quotes
    <3> QED BY <3>1 DEF TakeString
  <2>2. \E m \in Quotes : \A n \in Quotes : m <= n
    BY <2>1, Least
  <2> QED BY <2>2
<1> HIDE DEF e
<1>3. e \in (p + 1)..(Len(text) - 1) /\ text[e + 1] = QUOTE
  BY <1>2 DEF Quotes
<1>4. text[p + 1] = QUOTE
  <2>1. QUOTE # "NUL"
    BY Zenon DEF QUOTE
  <2>2. Char(0) # "NUL" /\ Char(0) = QUOTE
    BY <2>1 DEF TakeString
  <2>3. p + 0 + 1 \in 1..Len(text) /\ Char(0) = text[p + 0 + 1]
    BY <2>2, Here, AtPointer
  <2>4. p + 0 + 1 = p + 1
    BY Here
  <2> QED BY <2>2, <2>3, <2>4
<1>5. t \in TokenSet /\ t.str = p + 1 /\ t.end = e /\ t.kind = "STR"
  BY <1>3, Here DEF TokenSet, Kinds
<1> HIDE DEF t
<1>6. ASSUME NEW n \in (p + 1)..(e + 1)
      PROVE  text[n] = QUOTE \/ (t.str < n /\ n <= t.end)
  <2>1. n = p + 1 \/ n = e + 1 \/ (p + 1 < n /\ n <= e)
    BY <1>3, Here
  <2> QED BY <1>3, <1>4, <1>5, <2>1
<1>7. Cut(p')
  BY <1>1, <1>3, OtherThanWords DEF Cut
\* The two quotes are one pair more.
<1>8. Pairs'
  <2>1. \A n \in 1..Len(text) : (p + 1 < n /\ n <= e) => text[n] # QUOTE
    <3> TAKE n \in 1..Len(text)
    <3> SUFFICES ASSUME p + 1 < n, n <= e, text[n] = QUOTE PROVE FALSE
      OBVIOUS
    <3>1. n - 1 \in Quotes /\ n - 1 < e
      <4>1. n - 1 \in (p + 1)..(Len(text) - 1) /\ (n - 1) + 1 = n /\ n - 1 < e
        BY <1>3, Here
      <4> QED BY <4>1 DEF Quotes
    <3> QED BY <1>2, <1>3, <3>1, Here
  <2>2. QuotesIn(e + 1) = (QuotesIn(p) \cup {p + 1}) \cup {e + 1}
    <3>1. p + 1 \in DOMAIN text /\ e + 1 \in DOMAIN text /\ p <= e + 1 /\ p + 1 <= e + 1
      BY <1>3, Here
    <3>2. \A n \in 1..Len(text) : text[n] = QUOTE /\ n <= e + 1 => n <= p \/ n = p + 1 \/ n = e + 1
      BY <1>3, <2>1, Here
    <3>3. \A n \in 1..Len(text) : n <= p => n <= e + 1
      BY <1>3, Here
    <3> QED BY <1>3, <1>4, <3>1, <3>2, <3>3, Here DEF QuotesIn
  <2>3. p + 1 \notin QuotesIn(p) /\ e + 1 \notin QuotesIn(p) \cup {p + 1}
    BY <1>3, Here DEF QuotesIn
  <2>4. Cardinality(QuotesIn(e + 1)) = Cardinality(QuotesIn(p)) + 2
    <3> DEFINE Q == QuotesIn(p)
               R == Q \cup {p + 1}
    <3>1. IsFiniteSet(Q) /\ Cardinality(Q) \in Nat
      BY Here, FiniteQuotes
    <3>2. IsFiniteSet(R) /\ Cardinality(R) = Cardinality(Q) + 1
      <4>1. p + 1 \notin Q
        BY <2>3
      <4> HIDE DEF Q
      <4> QED BY <3>1, <4>1, FS_AddElement
    <3>3. Cardinality(R \cup {e + 1}) = Cardinality(R) + 1
      <4>1. e + 1 \notin R
        BY <2>3
      <4> HIDE DEF R
      <4> QED BY <3>2, <4>1, FS_AddElement
    <3>4. QuotesIn(e + 1) = R \cup {e + 1}
      BY <2>2
    <3> HIDE DEF R, Q
    <3>5. Cardinality(QuotesIn(e + 1)) = Cardinality(Q) + 2
      BY <3>1, <3>2, <3>3, <3>4
    <3> QED BY <3>5 DEF Q
  <2>5. Paired(p)
    BY Here DEF Pairs
  <2>6. Paired(e + 1)
    BY <2>4, <2>5, Here, FiniteQuotes DEF Paired
  <2>7. Within' /\ Paired(p)'
    BY <1>1, <1>3, <2>6, Here DEF Within, Paired, QuotesIn
  <2> QED BY <2>7 DEF Pairs
<1>9. Takes(t)
  BY <1>1, <1>3, <1>5, <1>6, <1>7, <1>8, Here, NoKeyword DEF Takes
<1> QED BY <1>9, Appended

LEMMA UnclosedTaken ==
  ASSUME IInv, Within, TakeUnclosed
  PROVE  IInv'
<1> DEFINE t == [kind |-> "STR", str |-> p + 1, end |-> Len(text) + 1]
<1>1. tokens' = Append(tokens, t) /\ text' = text /\ failed' = failed /\ p' = Len(text) + 1
  BY DEF TakeUnclosed, Token
<1>2. p + 1 \in 1..Len(text) /\ text[p + 1] = QUOTE
  <2>1. Char(0) = QUOTE /\ Char(0) # "NUL"
    BY Zenon DEF TakeUnclosed, QUOTE
  <2>2. p + 0 + 1 \in 1..Len(text) /\ Char(0) = text[p + 0 + 1] /\ p + 0 + 1 = p + 1
    BY <2>1, Here, AtPointer
  <2> QED BY <2>1, <2>2
<1>3. t \in TokenSet /\ t.str = p + 1 /\ t.end = Len(text) + 1 /\ t.kind = "STR"
  BY Here DEF TokenSet, Kinds
<1> HIDE DEF t
\* The quote that opens the string is one more than the pairs.
<1>4. Pairs'
  <2>1. \A n \in 1..Len(text) : text[n] = QUOTE => n <= p + 1
    <3> TAKE n \in 1..Len(text)
    <3> SUFFICES ASSUME ~(n <= p + 1), text[n] = QUOTE PROVE FALSE
      OBVIOUS
    <3>1. n - 1 \in (p + 1)..(Len(text) - 1) /\ (n - 1) + 1 = n
      BY Here
    <3> QED BY <3>1 DEF TakeUnclosed, Quotes
  <2>2. QuotesIn(Len(text)) = QuotesIn(p) \cup {p + 1}
    <3>1. \A n \in 1..Len(text) : n <= Len(text) /\ (n <= p + 1 <=> n <= p \/ n = p + 1)
      BY Here
    <3> QED BY <1>2, <2>1, <3>1, Here DEF QuotesIn
  <2>3. p + 1 \notin QuotesIn(p)
    BY Here DEF QuotesIn
  <2>4. Cardinality(QuotesIn(Len(text))) = Cardinality(QuotesIn(p)) + 1
    BY <2>2, <2>3, Here, FiniteQuotes, FS_AddElement
  <2>5. Paired(p)
    BY Here DEF Pairs
  <2>6. ~Paired(Len(text))
    BY <2>4, <2>5, Here, FiniteQuotes DEF Paired
  <2>7. ~Within' /\ ~Paired(Len(text))'
    BY <1>1, <2>6, Here DEF Within, Paired, QuotesIn
  <2> QED BY <2>7 DEF Pairs
<1>5. Cut(p')
  BY <1>1, Here DEF Cut
<1>6. ASSUME NEW n \in (p + 1)..p' PROVE text[n] = QUOTE \/ (t.str < n /\ n <= t.end)
  BY <1>1, <1>2, <1>3, Here
<1>7. Takes(t)
  BY <1>1, <1>2, <1>3, <1>4, <1>5, <1>6, Here, NoKeyword DEF Takes
<1> QED BY <1>7, Appended

LEMMA EndTaken ==
  ASSUME IInv, Within, AtEnd
  PROVE  IInv'
<1> DEFINE t == [kind |-> "EOF", str |-> p, end |-> p]
<1>1. tokens' = Append(tokens, t) /\ text' = text /\ failed' = failed /\ p' = p
  BY DEF AtEnd, Token
<1>2. t \in TokenSet /\ t.str = p /\ t.end = p /\ t.kind = "EOF"
  BY Here DEF TokenSet, Kinds
<1> HIDE DEF t
<1>3. Cut(p')
  BY <1>1 DEF IInv
<1>4. Pairs'
  <2>1. p' \in p..Len(text) /\ (p + 1)..p' = {}
    BY <1>1, Here
  <2> QED BY <1>1, <2>1, Here, NoQuote
<1>5. Takes(t)
  BY <1>1, <1>2, <1>3, <1>4, Here, NoKeyword DEF Takes
<1> QED BY <1>5, Appended

LEMMA IdentTaken ==
  ASSUME IInv, Within, TakeIdent
  PROVE  IInv'
<1> DEFINE e == Run(Lower, p)
           t == [kind |-> "IDENT", str |-> p, end |-> e]
<1>1. tokens' = Append(tokens, t) /\ text' = text /\ failed' = failed /\ p' = e
  BY DEF TakeIdent, Token
<1>2. /\ e \in p..Len(text) /\ (e = Len(text) \/ text[e + 1] \notin Lower)
      /\ \A n \in (p + 1)..e : text[n] \in Lower
  BY Here, RunEnds
<1> HIDE DEF e
<1>3. t \in TokenSet /\ t.str = p /\ t.end = e /\ t.kind = "IDENT"
  BY <1>2, Here DEF TokenSet, Kinds
<1> HIDE DEF t
<1>4. /\ Word(t) \in Seq(STRING) /\ Len(Word(t)) = e - p /\ DOMAIN Word(t) = 1..(e - p)
      /\ \A n \in 1..(e - p) : Word(t)[n] = text[p + n]
  <2>1. t.str \in Nat /\ t.end \in Nat /\ t.str <= t.end /\ t.end <= Len(text)
    BY <1>2, <1>3, Here
  <2> QED BY <1>3, <2>1, Here, WordIs
<1>5. After(t) = Char(e - p)
  BY <1>2, <1>3, Here DEF After, Char
<1>6. After(t) \notin Lower
  BY <1>2, <1>3, Here DEF After, Lower
<1>7. \A n \in DOMAIN Word(t) : Word(t)[n] \in Lower
  <2> TAKE n \in DOMAIN Word(t)
  <2>1. n \in 1..(e - p) /\ p + n \in (p + 1)..e
    BY <1>2, <1>4, Here
  <2> QED BY <1>2, <1>4, <2>1
\* A keyword of these letters would have been taken.
<1>8. ASSUME NEW k \in DOMAIN Keywords, Word(t) = Keywords[k].word, ~is_alnum(After(t))
      PROVE  FALSE
  <2> DEFINE w == Keywords[k].word
             n == Keywords[k].compared
  <2>1. w \in Seq(Lower) /\ Len(w) = e - p /\ (n = Len(w) \/ (w = <<"i", "n", "t">> /\ n = 2))
    BY <1>4, <1>8, KeywordTable DEF KeywordOf
  <2>2. n <= Len(w) /\ n \in Nat
    <3> HIDE DEF w, n
    <3>1. CASE n = Len(w)
      BY <1>2, <2>1, <3>1, Here
    <3>2. CASE w = <<"i", "n", "t">> /\ n = 2
      <4>1. Len(w) = 3
        BY <3>2
      <4>2. n = 2
        BY <3>2
      <4> QED BY <4>1, <4>2
    <3> QED BY <2>1, <3>1, <3>2
  <2>3. ASSUME NEW j \in 1..n PROVE Char(j - 1) = w[j]
    <3>1. j \in 1..(e - p) /\ p + (j - 1) < Len(text) /\ p + (j - 1) + 1 = p + j
      BY <1>2, <2>1, <2>2, Here
    <3> QED BY <1>4, <1>8, <3>1 DEF Char
  <2>4. ~is_alnum(Char(Len(w)))
    BY <1>5, <1>8, <2>1
  <2>5. Keyword(k)
    BY <2>3, <2>4 DEF Keyword, Matches, EndsAt
  <2> QED BY <2>5 DEF TakeIdent, KeywordHere
<1>9. OneWord(t)
  <2>1. ~IsKeyword(t)
    BY <1>3, NoKeyword
  <2>2. ~(~is_alnum(After(t)) /\ \E n \in DOMAIN Keywords : Word(t) = Keywords[n].word)
    BY <1>8
  <2> QED BY <1>6, <1>7, <2>1, <2>2 DEF OneWord
<1>10. Cut(p')
  BY <1>1, <1>2 DEF Cut
<1>11. Pairs'
  <2>1. \A n \in (p + 1)..p' : text[n] # QUOTE
    BY <1>1, <1>2, OtherThanWords
  <2> QED BY <1>1, <1>2, <2>1, Here, NoQuote
<1>12. Takes(t)
  BY <1>1, <1>2, <1>3, <1>9, <1>10, <1>11, Here, NoKeyword DEF Takes
<1> QED BY <1>12, Appended

LEMMA Inductive == IInv /\ [Next]_vars => IInv'
<1> SUFFICES ASSUME IInv, [Next]_vars
             PROVE  IInv'
  OBVIOUS
<1>1. CASE UNCHANGED <<text, p, tokens>> /\ failed' \in BOOLEAN
  <2>1. Sane' /\ Cut(p)' /\ tokens' \in Seq(TokenSet)
    BY <1>1 DEF IInv, Sane, Cut, HasIn
  <2>2. TypeOK' /\ Pairs'
    BY <1>1 DEF IInv, TypeOK, Pairs, Within, Paired, QuotesIn
  <2>3. WellCut'
    BY <1>1 DEF IInv, WellCut, NothingLost, LongestSymbol, Word, After
  <2>4. Words'
    <3>1. \A t : (OneWord(t)' <=> OneWord(t))
      BY <1>1 DEF OneWord, Word, After, IsKeyword
    <3>2. \A k \in DOMAIN tokens : OneWord(tokens[k])
      BY DEF IInv, Words, OneWord
    <3>3. \A k \in DOMAIN tokens' : OneWord(tokens[k])'
      BY <1>1, <3>1, <3>2
    <3> QED BY <3>3 DEF Words, OneWord
  <2> QED BY <2>1, <2>2, <2>3, <2>4 DEF IInv
<1>2. CASE UNCHANGED vars
  <2>1. failed \in BOOLEAN
    BY DEF IInv, TypeOK
  <2> QED BY <1>1, <1>2, <2>1 DEF vars
<1>3. CASE Fail
  BY <1>1, <1>3 DEF Fail
<1>4. CASE Next
  <2>1. Within
    BY <1>4 DEF Next, Within
  <2> QED BY <1>3, <1>4, <2>1, SpaceTaken, KeywordTaken, SymbolTaken, IdentTaken, NumberTaken, StringTaken,
             UnclosedTaken, EndTaken DEF Next
<1> QED BY <1>2, <1>4

\* What the texts must be: no word in them is taken for the type's that is not.
AllSane == \A t \in Texts : ~HasIn(read_file(t))

LEMMA Invariance == AllSane => (Spec => []IInv)
<1>1. AllSane /\ Init => IInv
  <2> SUFFICES ASSUME AllSane, Init
               PROVE  IInv
    OBVIOUS
  <2>1. Sane /\ Cut(p)
    <3>1. PICK t \in Texts : text = read_file(t)
      BY DEF Init, Start
    <3>2. text \in Seq(STRING)
      BY <3>1, TextsAssumption
    <3> QED BY <3>1, <3>2 DEF AllSane, Init, Start, Sane, Cut
  <2>2. tokens = << >> /\ p = 0 /\ failed = FALSE
    BY DEF Init, Start
  <2>3. Len(text) \in Nat
    BY <2>1 DEF Sane
  <2>4. TypeOK
    <3>1. failed \in BOOLEAN
      BY <2>2, Zenon
    <3>2. p \in 0..Len(text)
      BY <2>2, <2>3
    <3>3. DOMAIN tokens = {} /\ Len(tokens) = 0
      BY <2>2
    <3>4. p \in 0..(Len(text) + 1) /\ p <= Len(text)
      BY <2>2, <2>3
    <3> QED BY <3>1, <3>3, <3>4 DEF TypeOK
  <2>5. WellCut /\ Words
    BY <2>2 DEF WellCut, NothingLost, LongestSymbol, Words
  <2>6. Pairs
    <3>1. QuotesIn(p) = {} /\ Within
      BY <2>2, <2>3 DEF QuotesIn, Within
    <3>2. Cardinality(QuotesIn(p)) = 0
      BY <3>1, FS_EmptySet
    <3> QED BY <3>1, <3>2 DEF Pairs, Paired
  <2> QED BY <2>1, <2>2, <2>4, <2>5, <2>6 DEF IInv
<1> QED BY <1>1, Inductive, PTL DEF Spec
-----------------------------------------------------------------------------
\* tokenize() passes the NUL only in a text whose quotes do not make pairs,
\* and its tokens are one behind the other before the pointer.
THEOREM TypeCorrect == AllSane => (Spec => []TypeOK)
<1>1. IInv => TypeOK
  BY DEF IInv
<1> QED BY <1>1, Invariance, PTL

\* Nothing but blanks and quotes is outside of the tokens, and no symbol of
\* two characters is read as one of one.
THEOREM WellCutHolds == AllSane => (Spec => []WellCut)
<1>1. IInv => WellCut
  BY DEF IInv
<1> QED BY <1>1, Invariance, PTL

\* A word is one token, and a keyword exactly when it has the letters of one
\* and no letter, digit or underscore follows.
THEOREM WordsHold == AllSane => (Spec => []Words)
<1>1. IInv => Words
  BY DEF IInv
<1> QED BY <1>1, Invariance, PTL
=============================================================================
