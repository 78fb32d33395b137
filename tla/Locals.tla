------------------------------- MODULE Locals -------------------------------
(***************************************************************************)
(* LOCAL_VARS of 2023/9cc: the list of the variables of a function, newest *)
(* first, that parse.c extends at every parameter and declaration and      *)
(* searches at every use of a name.  A variable of offset n starts n bytes *)
(* below rbp.                                                              *)
(***************************************************************************)
EXTENDS Integers, Sequences

CONSTANT nbytes(_)   \* nbytes_type() of codegen.c

OffsetOf(locals) == IF locals = << >> THEN 0 ELSE Head(locals).offset

\* Variant: no rounding.
NotRounded(n) == n

\* (n + 7) & (-8)
RoundedUp(n) == ((n + 7) \div 8) * 8

\* Variant: the frame is taken to grow upwards.
LvarAbove(locals, x, ty) ==
  <<[name |-> x, offset |-> -RoundedUp(nbytes(ty) - OffsetOf(locals)), ty |-> ty]>> \o locals

register_lvar(locals, x, ty) ==
  <<[name |-> x, offset |-> RoundedUp(OffsetOf(locals) + nbytes(ty)), ty |-> ty]>> \o locals

\* Variant: a parameter takes the size of its type.
PackedParam(locals, x, ty) ==
  <<[name |-> x, offset |-> OffsetOf(locals) + nbytes(ty), ty |-> ty]>> \o locals

new_param(locals, x, ty) ==
  <<[name |-> x, offset |-> OffsetOf(locals) + 8, ty |-> ty]>> \o locals

Declared(locals) == {locals[k].name : k \in DOMAIN locals}

\* Variant: the oldest variable of that name.
FindOldest(locals, x) ==
  locals[CHOOSE k \in DOMAIN locals :
           locals[k].name = x /\ \A l \in DOMAIN locals : l > k => locals[l].name # x]

\* The newest variable of that name; the end of a block removes none.
find_lvar(locals, x) ==
  locals[CHOOSE k \in DOMAIN locals :
           locals[k].name = x /\ \A l \in 1..(k - 1) : locals[l].name # x]
=============================================================================
