------------------------------- MODULE MCNcc --------------------------------
(***************************************************************************)
(* Programs for the compiler: every pair of operators of an expression in  *)
(* both groupings, and one program per statement, declaration and call     *)
(* form of the C subset and per way they meet.                             *)
(***************************************************************************)
EXTENDS X86
LOCAL INSTANCE SequencesExt
C == INSTANCE Csource
LOCAL G == INSTANCE Compile

x == C!Var("x")
y == C!Var("y")
i == C!Var("i")
N(k) == C!Num(k)
Is(a, b) == C!Expr(C!Set(a, b))
Plus(a, b) == C!Bin("+", a, b)
Minus(a, b) == C!Bin("-", a, b)
Below(a, b) == C!Bin("<", a, b)

\* int main() { int x; int y; x = 5; y = 2; return e; }
TwoVariables(e) ==
  <<C!Main(<<C!IntVar("x"), C!IntVar("y"), Is(x, N(5)), Is(y, N(2)), C!Ret(e)>>)>>

BinaryOps == <<"+", "-", "*", "/", "==", "!=", "<", "<=", ">", ">=">>

\* (x op y) op 3 and x op (5 op y), the second where it does not divide by 0.
PairsOfOperators ==
  LET n == Len(BinaryOps)
      all == [k \in 1..(n * n) |-> <<BinaryOps[1 + (k - 1) \div n], BinaryOps[1 + ((k - 1) % n)]>>]
      defined == SelectSeq(all, LAMBDA ops : ops[1] = "/" => ops[2] \notin {"==", "<", "<="})
  IN  [k \in DOMAIN all |-> TwoVariables(C!Bin(all[k][2], C!Bin(all[k][1], x, y), N(3)))]
      \o [k \in DOMAIN defined |-> TwoVariables(C!Bin(defined[k][1], x, C!Bin(defined[k][2], N(5), y)))]

Loop(n, body) == C!While(Below(i, N(n)), C!Block(body \o <<Is(i, Plus(i, N(1)))>>))

Forms == <<
  \* unary operators, sizeof, nested assignment
  TwoVariables(C!Un("-", x)), TwoVariables(Plus(C!Un("+", x), C!Un("sizeof", x))),
  TwoVariables(Plus(C!Set(x, C!Set(y, N(4))), Plus(x, y))),
  TwoVariables(C!Un("sizeof", C!Un("&", x))),
  \* if, else, nested, without braces
  <<C!Main(<<C!IntVar("x"), Is(x, N(1)),
             C!IfElse(Below(x, N(1)), Is(x, N(7)), C!IfElse(x, Is(x, N(9)), Is(x, N(8)))), C!Ret(x)>>)>>,
  <<C!Main(<<C!IntVar("x"), Is(x, N(1)), C!If(x, C!Block(<<C!IntVar("y"), Is(y, N(3)), Is(x, Plus(x, y))>>)),
             C!If(Below(x, N(0)), Is(x, N(0))), C!Ret(x)>>)>>,
  \* while: with a block, with an expression, left by return, in a branch
  <<C!Main(<<C!IntVar("i"), C!IntVar("x"), Is(i, N(0)), Is(x, N(0)), Loop(4, <<Is(x, Plus(x, i))>>), C!Ret(x)>>)>>,
  <<C!Main(<<C!IntVar("i"), Is(i, N(0)), C!While(Below(i, N(5)), Is(i, Plus(i, N(1)))), C!Ret(i)>>)>>,
  <<C!Main(<<C!IntVar("i"), Is(i, N(0)),
             Loop(6, <<C!If(C!Bin("==", i, N(3)), C!Block(<<C!Ret(Plus(i, N(40)))>>))>>), C!Ret(N(0))>>)>>,
  \* calls: foreign, nested, up to six arguments, recursive, at odd depths of the stack
  <<C!Main(<<C!IntVar("x"), Is(x, N(10)), C!Expr(C!Call("foo", << >>)), C!Ret(x)>>)>>,
  <<C!Main(<<C!Ret(Plus(N(1), Plus(C!Call("foo", << >>), Plus(N(1), C!Call("foo", << >>)))))>>)>>,
  <<C!Fn("sum", <<<<"INT", "a">>, <<"INT", "b">>, <<"INT", "c">>, <<"INT", "d">>, <<"INT", "e">>, <<"INT", "f">>>>,
         <<C!Ret(Plus(C!Bin("*", C!Var("a"), N(2)),
                 Minus(C!Var("b"), Plus(C!Var("c"), Minus(C!Var("d"), Minus(C!Var("e"), C!Var("f")))))))>>),
    C!Main(<<C!Ret(C!Call("sum", <<N(1), N(20), N(3), N(4), N(5), C!Call("foo", << >>)>>))>>)>>,
  <<C!Fn("fib", <<<<"INT", "n">>>>,
         <<C!If(Below(C!Var("n"), N(2)), C!Ret(N(1))),
           C!Ret(Plus(C!Call("fib", <<Minus(C!Var("n"), N(1))>>), C!Call("fib", <<Minus(C!Var("n"), N(2))>>)))>>),
    C!Main(<<C!Ret(C!Call("fib", <<N(4)>>))>>)>>,
  <<C!Fn("f", <<<<"INT", "x">>>>, <<C!IntVar("y"), Is(y, Plus(x, N(1))), Is(x, N(0)), C!Ret(y)>>),
    C!Main(<<C!IntVar("x"), C!IntVar("y"), Is(x, N(3)), Is(y, N(6)),
             C!Ret(Plus(C!Bin("*", C!Call("f", <<C!Call("f", <<x>>)>>), N(10)), Minus(y, x)))>>)>>,
  <<C!Main(<<C!Proto("f"), C!Ret(C!Call("f", << >>))>>), C!Fn("f", << >>, <<C!Ret(N(53))>>)>>,
  \* pointers
  <<C!Main(<<C!IntVar("x"), C!Decl("INT", 1, "p", << >>), Is(C!Var("p"), C!Un("&", x)),
             Is(C!Un("*", C!Var("p")), N(3)), C!Ret(Plus(x, C!Un("*", C!Var("p"))))>>)>>,
  <<C!Main(<<C!IntVar("x"), C!Decl("INT", 1, "p", << >>), C!Decl("INT", 2, "q", << >>),
             Is(C!Var("p"), C!Un("&", x)), Is(C!Var("q"), C!Un("&", C!Var("p"))),
             Is(C!Un("*", C!Un("*", C!Var("q"))), N(9)), C!Ret(Minus(x, C!Un("sizeof", C!Un("*", C!Var("q")))))>>)>>,
  \* arrays: of int, used as a test of the repository does; of char; of pointers; of arrays
  <<C!Main(<<C!Decl("INT", 0, "a", <<6>>), C!IntVar("x"), Is(C!Idx(C!Var("a"), N(0)), N(4)), Is(C!Idx(C!Var("a"), N(3)), N(2)),
             Is(C!Idx(C!Var("a"), C!Idx(C!Var("a"), N(3))), N(1)),
             C!Ret(Plus(C!Idx(C!Var("a"), N(0)), C!Idx(C!Var("a"), N(2))))>>)>>,
  <<C!Main(<<C!Decl("CHAR", 0, "c", <<5>>), C!IntVar("y"), Is(C!Idx(C!Var("c"), N(0)), C!Un("-", N(1))),
             Is(C!Idx(C!Var("c"), N(1)), N(2)), Is(C!Idx(C!Var("c"), N(2)), N(3)), Is(y, N(4)),
             C!Ret(Plus(Plus(C!Idx(C!Var("c"), N(0)), C!Bin("*", N(10), C!Idx(C!Var("c"), N(1)))), y))>>)>>,
  <<C!Main(<<C!IntVar("x"), C!IntVar("y"), C!Decl("INT", 1, "a", <<2>>),
             Is(C!Idx(C!Var("a"), N(0)), C!Un("&", y)), Is(C!Idx(C!Var("a"), N(1)), C!Un("&", x)),
             Is(x, N(7)), Is(y, N(5)), C!Ret(Minus(C!Un("*", C!Idx(C!Var("a"), N(0))), C!Un("*", C!Un("*", Plus(C!Var("a"), N(1))))))>>)>>,
  <<C!Main(<<C!Decl("INT", 0, "a", <<2, 3>>), C!IntVar("x"), Is(C!Idx(C!Idx(C!Var("a"), N(0)), N(0)), N(10)),
             Is(C!Idx(C!Idx(C!Var("a"), N(1)), N(1)), N(11)), Is(x, C!Un("sizeof", C!Var("a"))),
             C!Ret(Plus(x, Plus(C!Idx(C!Idx(C!Var("a"), N(0)), N(0)), C!Idx(C!Idx(C!Var("a"), N(1)), N(1)))))>>)>>,
  \* globals and strings
  <<C!IntVar("b"), C!Fn("g", << >>, <<Is(C!Var("b"), N(21)), C!Ret(C!Var("b"))>>),
    C!Main(<<C!IntVar("x"), Is(x, C!Call("g", << >>)), C!Ret(Plus(C!Bin("*", C!Var("b"), N(2)), x))>>)>>,
  <<C!Decl("CHAR", 0, "h", <<3>>), C!Decl("INT", 0, "a", <<8>>), C!Decl("INT", 1, "p", << >>),
    C!Main(<<C!IntVar("x"), Is(C!Var("p"), C!Un("&", x)), Is(C!Un("*", C!Var("p")), N(6)), Is(C!Idx(C!Var("a"), x), N(10)),
             C!Ret(Minus(C!Idx(C!Var("a"), N(6)), x))>>)>>,
  <<C!Main(<<C!Decl("CHAR", 1, "s", << >>), Is(C!Var("s"), C!Str(<<1, 3>>)),
             C!Ret(Minus(C!Idx(C!Var("s"), N(1)), C!Idx(C!Var("s"), N(0))))>>)>>,
  \* a local variable hides a global one
  <<C!IntVar("x"), C!Fn("g", << >>, <<C!Ret(x)>>),
    C!Main(<<Is(x, N(1)), C!IntVar("x"), Is(x, N(5)), C!Ret(Plus(C!Bin("*", x, N(10)), C!Call("g", << >>)))>>)>>
>>

\* Every statement form around every other, around five kinds of statement.
Leaves == <<Is(x, Plus(x, N(1))), C!Expr(C!Call("foo", << >>)), C!Ret(Plus(x, N(70))),
            C!Block(<<Is(y, Minus(y, N(1))), Is(x, Plus(x, y))>>),
            Is(x, C!Call("g", <<y, x>>))>>
Shape(k, s) ==
  CASE k = 1 -> s
    [] k = 2 -> C!If(Below(x, y), s)
    [] k = 3 -> C!If(Below(y, x), s)
    [] k = 4 -> C!IfElse(Below(x, y), C!Block(<<s>>), Is(x, N(9)))
    [] k = 5 -> C!IfElse(Below(y, x), Is(x, N(8)), C!Block(<<s>>))
    [] k = 6 -> Loop(3, <<s>>)
    [] k = 7 -> C!Block(<<C!IntVar("z"), Is(C!Var("z"), N(3)), s, Is(x, Plus(x, C!Var("z")))>>)
Shapes == 1..7
Nested ==
  LET inner == FlattenSeq([k \in Shapes |-> [l \in DOMAIN Leaves |-> Shape(k, Leaves[l])]])
      outer == FlattenSeq([k \in Shapes |-> [l \in DOMAIN inner |-> Shape(k, inner[l])]])
  IN  [k \in DOMAIN outer |->
         <<C!Fn("g", <<<<"INT", "x">>, <<"INT", "i">>>>, <<Is(i, Plus(x, i)), C!Ret(i)>>),
           C!Main(<<C!IntVar("x"), C!IntVar("y"), C!IntVar("i"), Is(x, N(1)), Is(y, N(5)), Is(i, N(0)),
                    outer[k], C!Ret(Plus(x, C!Bin("*", y, N(10))))>>)>>]

\* Frames with nothing to spare: 208 bytes of locals, the lowest of them used; or
\* fewer, in a loop around an if without else that makes the stack climb to them.
\* int main() { int x; int a[m]; int i; i = 0; x = 3; while (i < n) ...; return x + i; }
Climbing(n, m) ==
  <<C!Main(<<C!IntVar("x"), C!Decl("INT", 0, "a", <<m>>), C!IntVar("i"), Is(i, N(0)), Is(x, N(3)),
             Loop(n, <<C!If(Below(x, i), Is(x, Plus(i, N(2))))>>), C!Ret(Plus(x, i))>>)>>
Full == <<
  <<C!Main(<<C!Decl("INT", 0, "a", <<52>>), Is(C!Idx(C!Var("a"), N(0)), N(5)), Is(C!Idx(C!Var("a"), N(50)), N(6)),
             C!Ret(Minus(C!Idx(C!Var("a"), N(50)), C!Call("foo", << >>)))>>)>>,
  <<C!Main(<<C!Decl("CHAR", 0, "c", <<205>>), Is(C!Idx(C!Var("c"), N(0)), N(2)), Is(C!Idx(C!Var("c"), N(204)), N(3)),
             C!Ret(Plus(C!Idx(C!Var("c"), N(0)), C!Idx(C!Var("c"), N(204))))>>)>>,
  Climbing(5, 36), Climbing(12, 26), Climbing(31, 0)
>>

Sources == PairsOfOperators \o Forms \o Nested \o Full

\* (Named on their own so that TLC evaluates them once.)
SourceImages == G!ImagesOf([k \in DOMAIN Sources |-> C!Write(Sources[k])])
SourceMeaning == G!Once([k \in DOMAIN Sources |-> C!Run(Sources[k])])
SourceClimb == G!Once([k \in DOMAIN Sources |-> C!Climbed(Sources[k])])

MCImages == SourceImages
MCMeaning == SourceMeaning
MCClimb == SourceClimb
=============================================================================
