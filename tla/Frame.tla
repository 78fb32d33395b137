------------------------------- MODULE Frame --------------------------------
(***************************************************************************)
(* The frames 2023/9cc lays out: LOCAL_VARS as parse.c goes through the    *)
(* parameters and declarations of one function after the other.            *)
(***************************************************************************)
EXTENDS Locals

CONSTANTS
  Name,         \* the identifiers of the program
  Type,         \* the types it declares variables of
  ParamType,    \* those a parameter may have: program() knows int and char only
  alignment(_), \* alignment_of() of codegen.c: the size of the scalars of a type
  MaxLocals     \* bound on the variables of one function

\* codegen.c stores a whole register, 8 bytes, to everything but a char.
WORD == 8

ASSUME TypeAssumption ==
  \A t \in Type : /\ nbytes(t) \in Nat /\ alignment(t) \in {1, 4, WORD}
                  /\ nbytes(t) % alignment(t) = 0
ASSUME ParamAssumption == ParamType \subseteq {t \in Type : nbytes(t) = alignment(t)}

VARIABLES
  LOCAL_VARS, \* the variables of the function being parsed, newest first
  inBody      \* whether its parameter list has been parsed

vars == <<LOCAL_VARS, inBody>>

\* How many bytes stores to v change: its last scalar by a whole register unless
\* it is a char, a char that may be a parameter too (gen_fn_def()).
Width(ty) == IF alignment(ty) = 1 /\ nbytes(ty) # 1 THEN 1 ELSE WORD
Reach(v) ==
  IF nbytes(v.ty) = 0 THEN 0 ELSE nbytes(v.ty) - alignment(v.ty) + Width(v.ty)

\* In bytes below rbp: what v consists of, and what stores to it change.
Slot(v) == (v.offset - nbytes(v.ty) + 1)..v.offset
Changed(v) == (v.offset - Reach(v) + 1)..v.offset

\* An int array whose size is rounded by nothing: it has an even number of ints.
EvenInts(v) == alignment(v.ty) = 4 /\ nbytes(v.ty) # 0 /\ nbytes(v.ty) % WORD = 0
-----------------------------------------------------------------------------
Init == LOCAL_VARS = << >> /\ inBody = FALSE

Room == Len(LOCAL_VARS) < MaxLocals

Param(x, ty) ==
  /\ ~inBody /\ Room
  /\ LOCAL_VARS' = new_param(LOCAL_VARS, x, ty)
  /\ UNCHANGED inBody

Body ==
  /\ ~inBody
  /\ inBody' = TRUE /\ UNCHANGED LOCAL_VARS

Declare(x, ty) ==
  /\ inBody /\ Room
  /\ LOCAL_VARS' = register_lvar(LOCAL_VARS, x, ty)
  /\ UNCHANGED inBody

NextFunction ==
  /\ inBody
  /\ LOCAL_VARS' = << >> /\ inBody' = FALSE

Next ==
  \/ \E x \in Name : \/ \E ty \in ParamType : Param(x, ty)
                     \/ \E ty \in Type : Declare(x, ty)
  \/ Body
  \/ NextFunction

Spec == Init /\ [][Next]_vars
-----------------------------------------------------------------------------
(* Properties.                                                             *)

\* Every variable keeps its type: the list grows by records of a known name
\* and type, placed at a non-negative offset.
LVar == [name : Name, offset : Nat, ty : Type]
TypeOK == LOCAL_VARS \in Seq(LVar) /\ inBody \in BOOLEAN

\* A store to one variable, the last element of an array included, changes
\* bytes of another exactly when the one is an array of an even number of ints
\* and the other starts where it ends: rounding every offset up to 8 makes room
\* for the 8 bytes of any other store (register_lvar(), gen()).
Apart ==
  \A k, l \in DOMAIN LOCAL_VARS :
    LET v == LOCAL_VARS[k]
        w == LOCAL_VARS[l]
    IN  k # l => (Changed(v) \cap Slot(w) # {}
                    <=> EvenInts(v) /\ nbytes(w.ty) # 0 /\ w.offset = v.offset - nbytes(v.ty))

\* Every offset is a multiple of 8 (gen_addr()), and a store reaches rbp, where
\* the caller's frame pointer is, exactly when it is to the last element of
\* such an array that comes first in the frame.
InFrame ==
  \A k \in DOMAIN LOCAL_VARS :
    LET v == LOCAL_VARS[k]
    IN  /\ v.offset % WORD = 0
        /\ v.offset < Reach(v) <=> EvenInts(v) /\ v.offset = nbytes(v.ty)

\* A declaration gives its own name to the new variable, whatever the name
\* meant before, and leaves the meaning of every other name as it was
\* (find_lvar()).
Binding ==
  [][LOCAL_VARS' \notin {<< >>, LOCAL_VARS} =>
       LET new == Head(LOCAL_VARS') IN
         /\ find_lvar(LOCAL_VARS', new.name) = new
         /\ \A x \in Declared(LOCAL_VARS) \ {new.name} :
              find_lvar(LOCAL_VARS', x) = find_lvar(LOCAL_VARS, x)]_vars
=============================================================================
