---------------------------- MODULE MCNccLimits -----------------------------
(* Programs of the C subset that the code generator gets wrong.              *)
EXTENDS X86
C == INSTANCE Csource
LOCAL G == INSTANCE Compile

x == C!Var("x")
a == C!Var("a")
Is(l, r) == C!Expr(C!Set(l, r))

\* int main() { int x; x = 0; if (x) x = 1; return x; }
Branch ==
  <<C!Main(<<C!IntVar("x"), Is(x, C!Num(0)), C!If(x, Is(x, C!Num(1))), C!Ret(x)>>)>>

\* int main() { int x; int a[2]; x = 1; a[1] = 5; return x; }
LastElement ==
  <<C!Main(<<C!IntVar("x"), C!Decl("INT", 0, "a", <<2>>), Is(x, C!Num(1)),
             Is(C!Idx(a, C!Num(1)), C!Num(5)), C!Ret(x)>>)>>

BranchImage == G!ImagesOf(<<C!Write(Branch)>>)
BranchMeaning == <<C!Run(Branch)>>
BranchClimb == <<C!Climbed(Branch)>>
ElementImage == G!ImagesOf(<<C!Write(LastElement)>>)
ElementMeaning == <<C!Run(LastElement)>>
ElementClimb == <<C!Climbed(LastElement)>>
=============================================================================
