------------------------------- MODULE Parser -------------------------------
(***************************************************************************)
(* parse.c of 2023/9cc: recursive descent over the token list, with the    *)
(* variables in scope and the string literals met so far.  Each function   *)
(* of the parser takes the parser's globals p and gives them back with the *)
(* node it has built: [p |-> ..., n |-> ...].  After error_at() ok is      *)
(* FALSE and the rest of the result means nothing.                         *)
(***************************************************************************)
EXTENDS Ctypes, TLC
LOCAL INSTANCE SequencesExt
INSTANCE Locals WITH nbytes <- nbytes_type

Sym(op) == [kind |-> "RESERVED", str |-> op]
Key(kw) == [kind |-> kw]
IDENT(x) == [kind |-> "IDENT", str |-> x]
NUM(n) == [kind |-> "NUM", val |-> n]
STR(s) == [kind |-> "STR", text |-> s]
EOF == [kind |-> "EOF"]

parser(tokens) ==
  [CUR_TOKEN |-> tokens \o <<EOF>>, ok |-> TRUE,
   LOCAL_VARS |-> << >>, GLOBAL_VARS |-> << >>, STR_LIT |-> << >>]

tok(p) == Head(p.CUR_TOKEN)
at(p, token) == tok(p) = token
next(p) == [p EXCEPT !.CUR_TOKEN = Tail(@)]
error_at(p) == [p EXCEPT !.ok = FALSE, !.CUR_TOKEN = <<EOF>>]
expect(p, op) == IF at(p, Sym(op)) THEN next(p) ELSE error_at(p)
skip(p, op) == IF at(p, Sym(op)) THEN next(p) ELSE p      \* consume(), result unused
Ends(p, op) == ~p.ok \/ at(p, Sym(op))                    \* while (!consume(op)) is over
Node(p, node) == [p |-> p, n |-> node]
Error(p) == Node(error_at(p), INT(0))
Then(a, F(_)) == IF a.p.ok THEN F(a) ELSE a               \* go on behind a
Closed(a, op) == Node(expect(a.p, op), a.n)

decay(node) == IF set_type(node).kind = "ARRAY" THEN NODE1("ADDR", node) ELSE node

seek_reserved_type(p) == tok(p).kind \in {"INT", "CHAR"}
ty_reserved(token) == IF token.kind = "INT" THEN T_INT ELSE T_CHAR
-----------------------------------------------------------------------------
(* Expressions.                                                            *)

\* Per level of precedence, from equality() to mul(): the nodes its operators
\* build.  > and >= are < and <= with their operands exchanged.
Operators ==
  << ("==" :> "EQU") @@ ("!=" :> "NEQ"),
     ("<=" :> "LEQ") @@ ("<" :> "LES") @@ (">=" :> "LEQ") @@ (">" :> "LES"),
     ("+" :> "ADD") @@ ("-" :> "SUB"),
     ("*" :> "MUL") @@ ("/" :> "DIV") >>

\* Variant: the operands of > and >= stay in their order.
NeverSwapped(op) == FALSE

Swapped(op) == op \in {">", ">="}

Binary(op, kind, lhs, rhs) ==
  IF Swapped(op) THEN NODE(kind, decay(rhs), decay(lhs)) ELSE NODE(kind, decay(lhs), decay(rhs))

\* All recursion goes through one operator, below: expression(0, p) is
\* assign(), 1 to 4 are the loops from equality() to mul(), 5 is unary().
RECURSIVE expression(_, _), chain(_, _, _), subscripts(_, _), arguments(_, _)
expr(p) == expression(0, p)

assign(p) ==
  Then(expression(1, p), LAMBDA a :
    IF at(a.p, Sym("="))
    THEN Then(expression(0, next(a.p)), LAMBDA b : Node(b.p, NODE("ASSIGN", a.n, b.n)))
    ELSE a)

\* equality(), relational(), add() and mul() are one loop over their operators
\* each; sizeof in mul() takes one unary() and leaves the loop out.
binary(k, p) ==
  IF k = 4 /\ at(p, Key("SIZEOF"))
  THEN Then(expression(5, next(p)), LAMBDA a : Node(a.p, INT(nbytes_type(set_type(a.n)))))
  ELSE Then(expression(k + 1, p), LAMBDA a : chain(k, a.p, a.n))

chain(k, p, node) ==
  LET op == tok(p).str
  IN  IF tok(p).kind = "RESERVED" /\ op \in DOMAIN Operators[k]
      THEN Then(expression(k + 1, next(p)), LAMBDA b :
             chain(k, b.p, Binary(op, Operators[k][op], node, b.n)))
      ELSE Node(p, node)

subscripts(p, node) ==
  IF at(p, Sym("["))
  THEN Then(Closed(expr(next(p)), "]"), LAMBDA i :
         subscripts(i.p, NODE1("DEREF", NODE("ADD", decay(node), decay(i.n)))))
  ELSE Node(p, node)

arguments(p, args) ==
  IF Ends(p, ")") THEN Node(skip(p, ")"), args)
  ELSE Then(expr(p), LAMBDA a : arguments(skip(a.p, ","), Append(args, a.n)))

register_string_literal(p, s) ==
  Node([p EXCEPT !.STR_LIT = Append(@, s)], [kind |-> "STR", val |-> Len(p.STR_LIT) + 1, text |-> s])

variable(p, x) ==
  CASE x \in Declared(p.LOCAL_VARS) -> Node(p, [kind |-> "LVAR", var |-> find_lvar(p.LOCAL_VARS, x)])
    [] x \notin Declared(p.LOCAL_VARS) /\ x \in Declared(p.GLOBAL_VARS) ->
         Node(p, [kind |-> "GVAR", var |-> find_lvar(p.GLOBAL_VARS, x)])
    [] OTHER -> Error(p)

primary(p) ==
  CASE at(p, Sym("(")) -> Closed(expr(next(p)), ")")
    [] at(p, Sym("&")) ->
         Then(expression(5, next(p)), LAMBDA a : Node(a.p, NODE1("ADDR", a.n)))
    [] at(p, Sym("*")) ->
         Then(expression(5, next(p)), LAMBDA a : Node(a.p, NODE1("DEREF", decay(a.n))))
    [] tok(p).kind = "NUM" -> Node(next(p), INT(tok(p).val))
    [] tok(p).kind = "STR" -> register_string_literal(next(p), tok(p).text)
    [] tok(p).kind = "IDENT" /\ at(next(p), Sym("(")) ->
         Then(arguments(next(next(p)), << >>), LAMBDA a :
           Node(a.p, [kind |-> "FNCALL", name |-> tok(p).str, args |-> a.n]))
    [] tok(p).kind = "IDENT" /\ ~at(next(p), Sym("(")) -> variable(next(p), tok(p).str)
    [] OTHER -> Error(p)

postfix(p) == Then(primary(p), LAMBDA a : subscripts(a.p, a.n))

\* Unlike the operand of & and *, that of + and - is a primary().
unary(p) ==
  CASE at(p, Sym("+")) -> Then(primary(next(p)), LAMBDA a : Node(a.p, decay(a.n)))
    [] at(p, Sym("-")) -> Then(primary(next(p)), LAMBDA a : Node(a.p, NODE("SUB", INT(0), decay(a.n))))
    [] OTHER -> postfix(p)

expression(k, p) ==
  CASE k = 0 -> assign(p) [] k \in 1..4 -> binary(k, p) [] k = 5 -> unary(p)
-----------------------------------------------------------------------------
(* Declarations.                                                           *)

RECURSIVE declarator(_, _), suffixes(_, _), parameters(_, _)

\* The parameter list of a declared or defined function: (name, type) pairs.
parameters(p, params) ==
  IF Ends(p, ")") THEN Node(skip(p, ")"), params)
  ELSE IF ~seek_reserved_type(p) THEN Error(p)
  ELSE IF tok(next(p)).kind # "IDENT" THEN Error(p)
  ELSE parameters(skip(next(next(p)), ","),
                  Append(params, [name |-> tok(next(p)).str, ty |-> ty_reserved(tok(p))]))

\* What follows the name: array sizes, and FN for a parameter list.
suffixes(p, found) ==
  CASE at(p, Sym("[")) /\ tok(next(p)).kind = "NUM" ->
         suffixes(expect(next(next(p)), "]"), Append(found, tok(next(p))))
    [] at(p, Sym("(")) ->
         Then(parameters(next(p), << >>), LAMBDA a : suffixes(a.p, Append(found, Key("FN"))))
    [] OTHER -> Node(p, found)

Suffixed(found, ty) ==
  FoldRight(LAMBDA s, to : IF s.kind = "FN" THEN new_ty_fn(to) ELSE new_ty_array(s.val, to), found, ty)

declarator(p, ty) ==
  CASE at(p, Sym("*")) -> declarator(next(p), new_ty_ptr(ty))
    [] tok(p).kind = "IDENT" ->
         Then(suffixes(next(p), << >>), LAMBDA a :
           Node(a.p, [kind |-> "DECL", name |-> tok(p).str, ty |-> Suffixed(a.n, ty)]))
    [] OTHER -> Error(p)

declaration(p) == Closed(declarator(next(p), ty_reserved(tok(p))), ";")
-----------------------------------------------------------------------------
(* Statements and the program.                                             *)

RECURSIVE stmt(_), statements(_, _), program(_, _)

\* "(" expr ")" of if and while
condition(p) == Closed(expr(expect(p, "(")), ")")

If(c, t, els) == [kind |-> "IF", cond |-> c.n, then |-> t.n, els |-> els]

if_stmt(p) ==
  Then(condition(p), LAMBDA c :
    Then(stmt(c.p), LAMBDA t :
      IF at(t.p, Key("ELSE"))
      THEN Then(stmt(next(t.p)), LAMBDA e : Node(e.p, If(c, t, <<e.n>>)))
      ELSE Node(t.p, If(c, t, << >>))))

while_stmt(p) ==
  Then(condition(p), LAMBDA c :
    Then(stmt(c.p), LAMBDA b :
      Node(b.p, [kind |-> "WHILE", cond |-> c.n, body |-> b.n])))

local_declaration(p) ==
  Then(declaration(p), LAMBDA d :
    IF d.n.ty.kind = "FN" THEN d
    ELSE Node([d.p EXCEPT !.LOCAL_VARS = register_lvar(@, d.n.name, d.n.ty)], d.n))

statements(p, done) ==
  IF Ends(p, "}") THEN Node(skip(p, "}"), done)
  ELSE Then(stmt(p), LAMBDA s : statements(s.p, Append(done, s.n)))

stmt(p) ==
  CASE ~p.ok -> Error(p)
    [] at(p, Key("IF")) -> if_stmt(next(p))
    [] at(p, Key("WHILE")) -> while_stmt(next(p))
    [] seek_reserved_type(p) -> local_declaration(p)
    [] at(p, Sym("{")) ->
         Then(statements(next(p), << >>), LAMBDA b : Node(b.p, [kind |-> "BLOCK", stmts |-> b.n]))
    [] at(p, Key("RETURN")) ->
         Then(Closed(expr(next(p)), ";"), LAMBDA e : Node(e.p, [kind |-> "RETURN", lhs |-> e.n]))
    [] OTHER -> Closed(expr(p), ";")

Parameters(params) ==
  FoldLeft(LAMBDA locals, v : new_param(locals, v.name, v.ty), << >>, params)

function(p) ==
  IF tok(next(p)).kind # "IDENT" THEN Error(p)
  ELSE Then(parameters(expect(next(next(p)), "("), << >>), LAMBDA ps :
         Then(stmt([ps.p EXCEPT !.LOCAL_VARS = Parameters(ps.n)]), LAMBDA body :
           Node(body.p, [kind |-> "FNDEF", name |-> tok(next(p)).str,
                         params |-> Reverse(Parameters(ps.n)),
                         locals |-> body.p.LOCAL_VARS, body |-> body.n])))

\* The token after the type and the stars of what comes next.
RECURSIVE skip_to_identifier(_)
skip_to_identifier(p) ==
  IF at(next(p), Sym("*")) THEN skip_to_identifier(next(p)) ELSE next(p)

program(p, code) ==
  IF ~p.ok \/ ~seek_reserved_type(p) THEN Node(p, code)
  ELSE IF at(next(skip_to_identifier(p)), Sym("("))
  THEN Then(function(p), LAMBDA f : program(f.p, Append(code, f.n)))
  ELSE Then(declaration(p), LAMBDA d :
         program([d.p EXCEPT !.GLOBAL_VARS = <<[name |-> d.n.name, ty |-> d.n.ty]>> \o @],
                 Append(code, d.n)))

\* What parse() leaves in code[], with the string literals and the globals.
parse(tokens) == program(parser(tokens), << >>)
=============================================================================
