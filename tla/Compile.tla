------------------------------ MODULE Compile -------------------------------
(***************************************************************************)
(* From the tokens of a program to what lies in memory when it starts:     *)
(* parse(), gen() for every definition, then what the assembler and the    *)
(* linker make of the text: places for the code and for the data.          *)
(***************************************************************************)
EXTENDS Parser, Codegen
LOCAL INSTANCE SequencesExt

DATA == 16         \* where the data start

\* Functions compiled elsewhere: foo() of foo.c, behind an aligned stack.
Library == <<[name |-> "foo", code |-> <<[op |-> "foreign", n |-> 42], [op |-> "ret"]>>, bytes |-> 0]>>

\* What runs before and after main().
Startup == <<[name |-> "start", code |-> <<[op |-> "call", name |-> "main"], [op |-> "hlt"]>>, bytes |-> 0]>>

\* main() of main.c has gen() print every definition; a declaration is data.
Units(code) ==
  LET defs == SelectSeq(code, LAMBDA d : d.kind = "FNDEF")
  IN  Startup \o Library \o
      [k \in DOMAIN defs |-> [name |-> defs[k].name, code |-> gen_fn_def(defs[k]),
                              bytes |-> OffsetOf(defs[k].locals)]]

Sizes(s) == FoldLeft(LAMBDA m, n : m + n, 0, s)
Start(units, k) == 1 + Sizes([l \in 1..(k - 1) |-> Len(units[l].code)])

Aligned(a, n) == ((a + n - 1) \div n) * n

\* .comm of gen() for the globals, then gen_str_lit(): addresses in order.
RECURSIVE Placed(_, _)
Placed(sizes, from) ==
  IF sizes = << >> THEN << >>
  ELSE LET a == Aligned(from, Head(sizes).align)
       IN  <<a>> \o Placed(Tail(sizes), a + Head(sizes).bytes)

Globals(gvars) ==
  [k \in DOMAIN gvars |-> [bytes |-> nbytes_type(gvars[k].ty), align |-> alignment_of(gvars[k].ty)]]
Strings(str_lit) == [k \in DOMAIN str_lit |-> [bytes |-> Len(str_lit[k]) + 1, align |-> 1]]

Contents(gvars, str_lit) ==
  [k \in DOMAIN gvars |-> [l \in 1..nbytes_type(gvars[k].ty) |-> 0]]
  \o [k \in DOMAIN str_lit |-> Append(str_lit[k], 0)]

At(places, contents) ==
  [a \in UNION {places[k]..(places[k] + Len(contents[k]) - 1) : k \in DOMAIN contents} |->
     LET k == CHOOSE l \in DOMAIN contents : a \in places[l]..(places[l] + Len(contents[l]) - 1)
     IN  contents[k][a - places[k] + 1]]

\* The sequence s.  (TLC evaluates the operands of \o and @@ where they stand.)
Once(s) == s \o << >>

\* An instruction with the place of the name in it.
Resolved(i, entry, symbols, strings) ==
  CASE i.op = "call" -> i @@ ("at" :> entry[i.name])
    [] i.op = "symbol" -> i @@ ("at" :> symbols[i.name])
    [] i.op = "string" -> i @@ ("at" :> strings[i.n])
    [] OTHER -> i

Linked(units, gvars, str_lit, places) ==
  LET code == FlattenSeq([k \in DOMAIN units |-> units[k].code])
      entry == [f \in {units[k].name : k \in DOMAIN units} |->
                  Start(units, CHOOSE k \in DOMAIN units : units[k].name = f)]
      symbols == [x \in {gvars[k].name : k \in DOMAIN gvars} |->
                    places[CHOOSE k \in DOMAIN gvars : gvars[k].name = x]]
      strings == [k \in DOMAIN str_lit |-> places[Len(gvars) + k]]
  IN  [code |-> Once([k \in DOMAIN code |-> Resolved(code[k], entry, symbols, strings)]),
       unit |-> FlattenSeq([k \in DOMAIN units |-> [l \in DOMAIN units[k].code |-> k]]),
       begin |-> Once([k \in DOMAIN units |-> Start(units, k)]),
       bytes |-> Once([k \in DOMAIN units |-> units[k].bytes]),
       data |-> At(places, Contents(gvars, str_lit)) @@ << >>]

Image(tokens) ==
  LET out == parse(tokens)
      gvars == Reverse(out.p.GLOBAL_VARS)
  IN  Linked(Units(out.n), gvars, out.p.STR_LIT,
             Placed(Globals(gvars) \o Strings(out.p.STR_LIT), DATA))

ImagesOf(programs) == Once([k \in DOMAIN programs |-> Image(programs[k])])
=============================================================================
