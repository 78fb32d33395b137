----------------------------- MODULE MCGrammar ------------------------------
(* The texts of MCScanner, and every well-typed expression of two levels of  *)
(* operators over x, p, a and 1.                                             *)
EXTENDS Grammar, MCScanner

BinaryOps == {"+", "-", "*", "/", "==", "!=", "<", "<=", ">", ">="}
I0 == {C!Var("x"), C!Num(1)}
P0 == {C!Var("p"), C!Var("a")}
Lvalues(i, q) == {C!Un("*", v) : v \in q} \cup {C!Idx(v, n) : v \in q, n \in i} \cup {C!Var("x")}
Ints(i, q) ==
  i \cup Lvalues(i, q)
    \cup {C!Un(op, n) : op \in {"+", "-", "sizeof"}, n \in i}
    \cup {C!Un("sizeof", v) : v \in q}
    \cup {C!Bin(op, m, n) : op \in BinaryOps, m, n \in i}
    \cup {C!Set(l, n) : l \in Lvalues(I0, P0), n \in i}
    \cup {C!Call("f", << >>)} \cup {C!Call("f", <<n>>) : n \in i} \cup {C!Call("f", <<n, C!Num(2)>>) : n \in i}
Pointers(i, q) == q \cup {C!Bin("+", v, n) : v \in q, n \in i} \cup {C!Un("&", C!Var("x"))}

I1 == Ints(I0, P0)
P1 == Pointers(I0, P0)
MCExpressions == Ints(I1, P1) \cup Pointers(I1, P1)

BothStyles == {C!Ebnf, C!Accepted}
=============================================================================
