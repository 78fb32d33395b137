------------------------------ MODULE Grammar -------------------------------
(***************************************************************************)
(* The front end of 2023/9cc as main() runs it: tokenize() to the end of   *)
(* the text, then parse().  An expression is written down with a space    *)
(* only where two words would meet and with as few parentheses as          *)
(* syntax.ebnf asks for, or with some more behind a sign and around a      *)
(* sizeof, which parse.c needs.                                            *)
(***************************************************************************)
EXTENDS Scanner
LOCAL INSTANCE SequencesExt
P == INSTANCE Parser
C == INSTANCE Csource

CONSTANTS
  Expressions,    \* the expressions, as Csource has them
  Styles          \* how they are written: Csource's Ebnf, Accepted

VARIABLES
  source,   \* << >>, or the expression the text was written from
  read      \* what expr() makes of its tokens, << >> before the call

frontVars == <<vars, source, read>>

\* The characters of a token of the reference.
Spelling(t) ==
  CASE t.kind = "IDENT" -> <<t.str>>
    [] t.kind = "NUM" -> <<IF t.val = 1 THEN "1" ELSE "2">>
    [] t.kind = "RESERVED" /\ t.str \in {"<=", ">=", "==", "!="} ->
         CHOOSE s \in Symbols2 : s[1] \o s[2] = t.str
    [] t.kind = "RESERVED" /\ t.str \in Symbols -> <<t.str>>
    [] OTHER -> Keywords[CHOOSE k \in DOMAIN Keywords : Keywords[k].kind = t.kind].word

Joined(s, w) == IF s # << >> /\ is_alnum(Last(s)) /\ is_alnum(w[1]) THEN s \o <<" ">> \o w ELSE s \o w
Written(style, e) == FoldLeft(LAMBDA s, t : Joined(s, Spelling(t)), << >>, C!Tokens(style, e, 0))

\* What the parser sees of a token of tokenize().
Seen(t) ==
  LET chars == SubSeq(text, t.str + 1, t.end)
      name == FoldLeft(LAMBDA s, c : s \o c, "", chars)
  IN  CASE t.kind = "IDENT" -> P!IDENT(name)
        [] t.kind = "NUM" -> P!NUM(FoldLeft(LAMBDA v, c : 10 * v + (CHOOSE d \in 0..9 : ToString(d) = c), 0, chars))
        [] t.kind = "STR" -> P!STR(chars)
        [] t.kind = "RESERVED" -> P!Sym(name)
        [] OTHER -> P!Key(t.kind)

\* int x; int *p; int a[3];
Scope ==
  P!register_lvar(P!register_lvar(P!register_lvar(<< >>, "x", P!T_INT), "p", P!new_ty_ptr(P!T_INT)),
                  "a", P!new_ty_array(3, P!T_INT))

\* The tree of an expression: comparisons are < and <= on exchanged operands,
\* subscripts are additions, an array is replaced by its address, sizeof by its value.
RECURSIVE Tree(_)
Operand(e) ==
  IF e.e = "var" /\ e.x = "a" THEN [kind |-> "ADDR", lhs |-> Tree(e)] ELSE Tree(e)

RECURSIVE IsPointer(_)
IsPointer(e) ==
  \/ e.e = "var" /\ e.x \in {"p", "a"}
  \/ e.e = "un" /\ e.op = "&"
  \/ e.e = "bin" /\ e.op = "+" /\ IsPointer(e.a)

SizeOf(e) == IF e.e = "var" /\ e.x = "a" THEN 12 ELSE IF IsPointer(e) THEN 8 ELSE 4

Kind(op) == CASE op = "+" -> "ADD" [] op = "-" -> "SUB" [] op = "*" -> "MUL" [] op = "/" -> "DIV"
              [] op = "==" -> "EQU" [] op = "!=" -> "NEQ" [] op \in {"<", ">"} -> "LES" [] OTHER -> "LEQ"

Tree(e) ==
  CASE e.e = "num" -> [kind |-> "INT", val |-> e.n]
    [] e.e = "var" -> [kind |-> "LVAR", var |-> CHOOSE v \in {Scope[k] : k \in DOMAIN Scope} : v.name = e.x]
    [] e.e = "set" -> [kind |-> "ASSIGN", lhs |-> Tree(e.a), rhs |-> Tree(e.b)]
    [] e.e = "bin" -> LET l == IF e.op \in {">", ">="} THEN e.b ELSE e.a
                          r == IF e.op \in {">", ">="} THEN e.a ELSE e.b
                      IN  [kind |-> Kind(e.op), lhs |-> Operand(l), rhs |-> Operand(r)]
    [] e.e = "idx" -> [kind |-> "DEREF", lhs |-> [kind |-> "ADD", lhs |-> Operand(e.a), rhs |-> Operand(e.b)]]
    [] e.e = "call" -> [kind |-> "FNCALL", name |-> e.f, args |-> [k \in DOMAIN e.args |-> Tree(e.args[k])]]
    [] e.e = "un" /\ e.op = "+" -> Operand(e.a)
    [] e.e = "un" /\ e.op = "-" -> [kind |-> "SUB", lhs |-> P!INT(0), rhs |-> Operand(e.a)]
    [] e.e = "un" /\ e.op = "*" -> [kind |-> "DEREF", lhs |-> Operand(e.a)]
    [] e.e = "un" /\ e.op = "&" -> [kind |-> "ADDR", lhs |-> Tree(e.a)]
    [] e.e = "un" /\ e.op = "sizeof" -> P!INT(SizeOf(e.a))

FrontInit ==
  /\ read = << >>
  /\ \/ Start(Texts) /\ source = << >>
     \/ \E e \in Expressions : \E style \in Styles :
          Start({Written(style, e)}) /\ source = <<e>>

Scan == Next /\ UNCHANGED <<source, read>>

\* The list is complete, and main() goes on to the parser.
Read ==
  /\ read = << >> /\ source # << >>
  /\ tokens # << >> /\ Last(tokens).kind = "EOF"
  /\ read' = <<P!expr([P!parser([k \in 1..(Len(tokens) - 1) |-> Seen(tokens[k])]) EXCEPT !.LOCAL_VARS = Scope])>>
  /\ UNCHANGED <<vars, source>>

FrontNext == Scan \/ Read

FrontSpec == FrontInit /\ [][FrontNext]_frontVars

\* The parser takes all tokens and finds the expression they were written from.
Understood ==
  /\ read[1].p.ok /\ read[1].p.CUR_TOKEN = <<P!EOF>>
  /\ read[1].n = Tree(source[1])

\* An expression is read back as the tree it was written from, to its last
\* token: precedence, grouping, the order of > and >=, subscripts and sizeof
\* are those of the grammar (assign() to primary()), exactly when the operand
\* of a sign is a primary and no sizeof is an operand of a product, a sign or
\* a sizeof, or they are in parentheses: - -1, -a[0], sizeof x * 2 and 2 * sizeof x, which
\* are in the grammar (syntax.ebnf:31-35), are not read back.
ReadBack ==
  read # << >> => (Understood <=> text = read_file(Written(C!Accepted, source[1])))
=============================================================================
