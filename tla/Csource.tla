------------------------------ MODULE Csource -------------------------------
(***************************************************************************)
(* The reference: programs of the C subset that 2023/9cc compiles, as      *)
(* trees; the tokens that write them down, after syntax.ebnf; and what     *)
(* they mean in C, with objects instead of addresses.                      *)
(***************************************************************************)
EXTENDS Integers, Sequences, TLC
LOCAL INSTANCE SequencesExt
LOCAL INSTANCE Ctypes
LOCAL P == INSTANCE Parser

Num(n) == [e |-> "num", n |-> n]
Str(s) == [e |-> "str", s |-> s]
Var(x) == [e |-> "var", x |-> x]
Bin(op, a, b) == [e |-> "bin", op |-> op, a |-> a, b |-> b]
Set(a, b) == [e |-> "set", a |-> a, b |-> b]
Un(op, a) == [e |-> "un", op |-> op, a |-> a]     \* + - * & sizeof
Idx(a, b) == [e |-> "idx", a |-> a, b |-> b]
Call(f, args) == [e |-> "call", f |-> f, args |-> args]

Expr(a) == [s |-> "expr", a |-> a]
If(c, t) == [s |-> "if", c |-> c, t |-> t, els |-> << >>]
IfElse(c, t, f) == [s |-> "if", c |-> c, t |-> t, els |-> <<f>>]
While(c, b) == [s |-> "while", c |-> c, b |-> b]
Ret(a) == [s |-> "return", a |-> a]
Block(body) == [s |-> "block", body |-> body]
Decl(ty, stars, x, dims) == [s |-> "decl", ty |-> ty, stars |-> stars, x |-> x, dims |-> dims]
IntVar(x) == Decl("INT", 0, x, << >>)
Proto(f) == [s |-> "proto", f |-> f]

Fn(f, params, body) == [s |-> "fn", f |-> f, params |-> params, body |-> Block(body)]
Main(body) == Fn("main", << >>, body)
-----------------------------------------------------------------------------
(* Writing a program down.  An operand of a lower level than its place     *)
(* asks for is put in parentheses.  Two places ask for more in parse.c than *)
(* in syntax.ebnf: a sign is followed by a primary, not by any unary, and  *)
(* a sizeof stands where a product does, not where a unary does.           *)

UNARY == 6
PRIMARY == 8
Ebnf == [sizeof |-> UNARY, sign |-> UNARY]
Accepted == [sizeof |-> 4, sign |-> PRIMARY]

Level(op) == CASE op \in {"==", "!="} -> 1 [] op \in {"<=", "<", ">=", ">"} -> 2
               [] op \in {"+", "-"} -> 3 [] op \in {"*", "/"} -> 5

LevelOf(style, a) ==
  CASE a.e = "set" -> 0
    [] a.e = "bin" -> Level(a.op)
    [] a.e = "un" -> IF a.op = "sizeof" THEN style.sizeof ELSE UNARY
    [] a.e = "idx" -> 7
    [] OTHER -> PRIMARY

\* A primary may begin with & or *, as in syntax.ebnf.
Signed(style, a) == IF a.e = "un" /\ a.op \in {"&", "*"} THEN UNARY ELSE style.sign

S(op) == <<P!Sym(op)>>
Listed(parts) == FoldLeft(LAMBDA l, t : IF l = << >> THEN t ELSE l \o S(",") \o t, << >>, parts)

RECURSIVE Tokens(_, _, _)
Tokens(style, a, min) ==
  LET bare ==
        CASE a.e = "num" -> <<P!NUM(a.n)>>
          [] a.e = "str" -> <<P!STR(a.s)>>
          [] a.e = "var" -> <<P!IDENT(a.x)>>
          [] a.e = "set" -> Tokens(style, a.a, 1) \o S("=") \o Tokens(style, a.b, 0)
          [] a.e = "bin" -> Tokens(style, a.a, Level(a.op)) \o S(a.op) \o Tokens(style, a.b, Level(a.op) + 1)
          [] a.e = "un" /\ a.op = "sizeof" -> <<P!Key("SIZEOF")>> \o Tokens(style, a.a, UNARY)
          [] a.e = "un" /\ a.op \in {"&", "*"} -> S(a.op) \o Tokens(style, a.a, UNARY)
          [] a.e = "un" /\ a.op \in {"+", "-"} -> S(a.op) \o Tokens(style, a.a, Signed(style, a.a))
          [] a.e = "idx" -> Tokens(style, a.a, 7) \o S("[") \o Tokens(style, a.b, 0) \o S("]")
          [] a.e = "call" -> <<P!IDENT(a.f)>> \o S("(") \o Listed([k \in DOMAIN a.args |-> Tokens(style, a.args[k], 0)]) \o S(")")
  IN  IF LevelOf(style, a) < min THEN S("(") \o bare \o S(")") ELSE bare

\* Programs are written so that parse.c takes them.
RECURSIVE Text(_)
Text(s) ==
  CASE s.s = "expr" -> Tokens(Accepted, s.a, 0) \o S(";")
    [] s.s = "if" -> <<P!Key("IF")>> \o S("(") \o Tokens(Accepted, s.c, 0) \o S(")") \o Text(s.t)
                     \o (IF s.els = << >> THEN << >> ELSE <<P!Key("ELSE")>> \o Text(s.els[1]))
    [] s.s = "while" -> <<P!Key("WHILE")>> \o S("(") \o Tokens(Accepted, s.c, 0) \o S(")") \o Text(s.b)
    [] s.s = "return" -> <<P!Key("RETURN")>> \o Tokens(Accepted, s.a, 0) \o S(";")
    [] s.s = "block" -> S("{") \o FlattenSeq([k \in DOMAIN s.body |-> Text(s.body[k])]) \o S("}")
    [] s.s = "decl" -> <<P!Key(s.ty)>> \o [k \in 1..s.stars |-> P!Sym("*")] \o <<P!IDENT(s.x)>>
                       \o FlattenSeq([k \in DOMAIN s.dims |-> S("[") \o <<P!NUM(s.dims[k])>> \o S("]")]) \o S(";")
    [] s.s = "proto" -> <<P!Key("INT"), P!IDENT(s.f)>> \o S("(") \o S(")") \o S(";")
    [] s.s = "fn" -> <<P!Key("INT"), P!IDENT(s.f)>> \o S("(")
                     \o Listed([k \in DOMAIN s.params |-> <<P!Key(s.params[k][1]), P!IDENT(s.params[k][2])>>])
                     \o S(")") \o Text(s.body)

Write(program) == FlattenSeq([k \in DOMAIN program |-> Text(program[k])])
-----------------------------------------------------------------------------
(* What a program means.  A state st has the objects made so far, each a   *)
(* sequence of scalars, the variables in scope with their object and type, *)
(* and whether the function has returned, with which value.  An int is a   *)
(* value of object 0; a pointer has an object and an index.                *)
(*   The state also counts what the stack of gen() depends on: each        *)
(* statement of a block is followed by the pop of one value, but blocks    *)
(* and loops leave none, an if what its branch leaves, and the expression  *)
(* a loop repeats one each time.  left is what the last statement left,    *)
(* above how many values this call has popped more than were left, and     *)
(* peak the most any call has.                                             *)

Value(o, i) == [o |-> o, i |-> i]
IntValue(n) == Value(0, n)
Truth(P0) == IntValue(IF P0 THEN 1 ELSE 0)
Result(v, t, st) == [v |-> v, t |-> t, st |-> st]

RECURSIVE Cells(_)
Cells(t) == IF t.kind = "ARRAY" THEN t.array_size * Cells(t.ptr_to) ELSE 1

Quotient(a, b) ==
  IF (a < 0) = (b < 0) THEN (IF a < 0 THEN -a ELSE a) \div (IF b < 0 THEN -b ELSE b)
  ELSE -((IF a < 0 THEN -a ELSE a) \div (IF b < 0 THEN -b ELSE b))

Add(a, b, t) == [a EXCEPT !.i = @ + b.i * Cells(t)]
Arith(op, x, y) ==
  LET a == x.v
      b == y.v
      pointer == x.t.kind = "PTR"
  IN  CASE op = "+" -> IF pointer THEN Add(a, b, x.t.ptr_to) ELSE IntValue(a.i + b.i)
        [] op = "-" -> IntValue(a.i - b.i)
        [] op = "*" -> IntValue(a.i * b.i)
        [] op = "/" -> IntValue(Quotient(a.i, b.i))
        [] op = "==" -> Truth(a = b)
        [] op = "!=" -> Truth(a # b)
        [] op = "<" -> Truth(a.i < b.i)
        [] op = "<=" -> Truth(a.i <= b.i)
        [] op = ">" -> Truth(a.i > b.i)
        [] op = ">=" -> Truth(a.i >= b.i)

\* A new object for a variable.
Made(st, x, t, contents) ==
  [st EXCEPT !.objs = Append(@, contents),
             !.env = (x :> [o |-> Len(st.objs) + 1, t |-> t]) @@ @]

Unset(t) == [k \in 1..Cells(t) |-> IntValue(0)]
TypeOf(d) ==
  LET base == IF d.ty = "INT" THEN T_INT ELSE T_CHAR
      pointer == FoldLeft(LAMBDA t, k : new_ty_ptr(t), base, [k \in 1..d.stars |-> k])
  IN  FoldRight(LAMBDA n, t : new_ty_array(n, t), d.dims, pointer)

FnNamed(g, f) == g[CHOOSE k \in DOMAIN g : g[k].s = "fn" /\ g[k].f = f]
Foreign == "foo" :> 42

RECURSIVE Ev(_, _, _), Place(_, _, _), Ex(_, _, _), ExAll(_, _, _), Args(_, _, _)

\* The object, index and type an lvalue denotes.
Place(g, e, st) ==
  CASE e.e = "var" -> Result(Value(st.env[e.x].o, 1), st.env[e.x].t, st)
    [] e.e = "un" -> LET p == Ev(g, e.a, st) IN Result(p.v, p.t.ptr_to, p.st)
    [] e.e = "idx" -> LET p == Ev(g, Bin("+", e.a, e.b), st) IN Result(p.v, p.t.ptr_to, p.st)

Args(g, args, st) ==
  IF args = << >> THEN [vs |-> << >>, st |-> st]
  ELSE LET a == Ev(g, Head(args), st)
           r == Args(g, Tail(args), a.st)
       IN  [vs |-> <<a.v>> \o r.vs, st |-> r.st]

Ev(g, e, st) ==
  CASE e.e = "num" -> Result(IntValue(e.n), T_INT, st)
    [] e.e = "str" ->
         Result(Value(Len(st.objs) + 1, 1), new_ty_ptr(T_CHAR),
                [st EXCEPT !.objs = Append(@, [k \in 1..(Len(e.s) + 1) |->
                                     IntValue(IF k > Len(e.s) THEN 0 ELSE e.s[k])])])
    [] e.e = "un" /\ e.op = "&" ->
         LET l == Place(g, e.a, st) IN Result(l.v, new_ty_ptr(l.t), l.st)
    [] e.e = "un" /\ e.op = "sizeof" ->
         LET t == IF e.a.e \in {"var", "idx"} THEN Place(g, e.a, st).t ELSE Ev(g, e.a, st).t
         IN  Result(IntValue(nbytes_type(t)), T_INT, st)
    [] e.e = "un" /\ e.op \in {"+", "-"} ->
         LET a == Ev(g, e.a, st)
         IN  Result(IF e.op = "-" THEN IntValue(-a.v.i) ELSE a.v, T_INT, a.st)
    [] e.e \in {"var", "idx"} \/ (e.e = "un" /\ e.op = "*") ->
         LET l == Place(g, e, st)
         IN  IF l.t.kind = "ARRAY" THEN Result(l.v, new_ty_ptr(l.t.ptr_to), l.st)
             ELSE Result(l.st.objs[l.v.o][l.v.i], l.t, l.st)
    [] e.e = "bin" ->
         LET a == Ev(g, e.a, st)
             b == Ev(g, e.b, a.st)
         IN  Result(Arith(e.op, a, b), IF e.op = "+" THEN a.t ELSE T_INT, b.st)
    [] e.e = "set" ->
         LET l == Place(g, e.a, st)
             r == Ev(g, e.b, l.st)
         IN  Result(r.v, l.t, [r.st EXCEPT !.objs[l.v.o][l.v.i] = r.v])
    [] e.e = "call" /\ e.f \in DOMAIN Foreign -> Result(IntValue(Foreign[e.f]), T_INT, Args(g, e.args, st).st)
    [] e.e = "call" /\ e.f \notin DOMAIN Foreign ->
         LET as == Args(g, e.args, st)
             fn == FnNamed(g, e.f)
             entry == FoldLeft(LAMBDA s, k : Made(s, fn.params[k][2],
                                  IF fn.params[k][1] = "INT" THEN T_INT ELSE T_CHAR, <<as.vs[k]>>),
                               [as.st EXCEPT !.env = st.globals, !.above = 0], [k \in DOMAIN fn.params |-> k])
             end == Ex(g, fn.body, entry)
         IN  Result(end.val, T_INT, [end EXCEPT !.env = st.env, !.done = FALSE, !.above = as.st.above])

Leaves(n, st) == [st EXCEPT !.left = n]

\* The pop behind a statement of a block.
Popped(st) ==
  LET n == st.above + 1 - st.left
  IN  [st EXCEPT !.above = n, !.peak = IF n > @ THEN n ELSE @]

ExAll(g, body, st) ==
  IF body = << >> \/ st.done THEN st ELSE ExAll(g, Tail(body), Popped(Ex(g, Head(body), st)))

Ex(g, s, st) ==
  CASE s.s = "expr" -> Leaves(1, Ev(g, s.a, st).st)
    [] s.s = "if" ->
         LET c == Ev(g, s.c, st)
         IN  IF c.v # IntValue(0) THEN Ex(g, s.t, c.st)
             ELSE IF s.els = << >> THEN Leaves(0, c.st) ELSE Ex(g, s.els[1], c.st)
    [] s.s = "while" ->
         LET c == Ev(g, s.c, st)
             b == Ex(g, s.b, c.st)
         IN  IF c.v = IntValue(0) THEN Leaves(0, c.st)
             ELSE IF b.done THEN b ELSE Ex(g, s, [b EXCEPT !.above = @ - b.left])
    [] s.s = "return" ->
         LET r == Ev(g, s.a, st) IN [r.st EXCEPT !.done = TRUE, !.val = r.v]
    [] s.s = "block" -> Leaves(0, [ExAll(g, s.body, st) EXCEPT !.env = st.env])
    [] s.s = "decl" -> Leaves(1, Made(st, s.x, TypeOf(s), Unset(TypeOf(s))))
    [] s.s = "proto" -> Leaves(1, st)

Outcome(program) ==
  LET empty == [objs |-> << >>, env |-> << >>, globals |-> << >>, done |-> FALSE, val |-> IntValue(0),
                left |-> 0, above |-> 0, peak |-> 0]
      gvars == SelectSeq(program, LAMBDA d : d.s = "decl")
      start == FoldLeft(LAMBDA st, d : Made(st, d.x, TypeOf(d), Unset(TypeOf(d))), empty, gvars)
  IN  Ev(program, Call("main", << >>), [start EXCEPT !.globals = start.env])

\* The int that main() returns, and how far the stack climbs.
Run(program) == Outcome(program).v.i
Climbed(program) == Outcome(program).st.peak
=============================================================================
