------------------------------ MODULE Codegen -------------------------------
(***************************************************************************)
(* codegen.c of 2023/9cc: the instructions gen() prints for a syntax tree. *)
(* A label is the distance of its jump: [op |-> "jmp", to |-> 1] goes to   *)
(* the next instruction.  The gensym() numbers are left out.  cmp and the  *)
(* jump or the setcc that follows it are one instruction here.             *)
(***************************************************************************)
EXTENDS Ctypes
LOCAL INSTANCE SequencesExt

REG_NAMES == <<"rdi", "rsi", "rdx", "rcx", "r8", "r9">>
FRAME == 208

Push(r) == [op |-> "push", r |-> r]
PushInt(n) == [op |-> "pushi", n |-> n]
Pop(r) == [op |-> "pop", r |-> r]
Mov(d, s) == [op |-> "mov", r |-> d, s |-> s]
AddInt(r, n) == [op |-> "addi", r |-> r, n |-> n]
Load(d, n) == [op |-> "load", r |-> d, n |-> n]        \* n bytes at [d]; 1 is movsx to 32 bits
Store(s, n, of) == [op |-> "store", r |-> s, n |-> n, of |-> of]   \* of: size of the object at [rax]
Jump(n) == [op |-> "jmp", to |-> n]
JumpIfZero(n) == [op |-> "je", to |-> n]
Return == <<Mov("rsp", "rbp"), Pop("rbp"), [op |-> "ret"]>>

\* Variant: the operands are popped in the order they were pushed.
OperateSwapped(kind) == <<Pop("rax"), Pop("rdi"), [op |-> kind], Push("rax")>>

\* ND_ADD to ND_LEQ: rax := rax op rdi.
Operate(kind) == <<Pop("rdi"), Pop("rax"), [op |-> kind], Push("rax")>>

\* p + i moves by i elements; the type of lhs gives their size even when rhs
\* is the pointer.
Addition(l, r) ==
  CASE l.kind = "PTR" ->
         <<Pop("rdi"), [op |-> "scale", r |-> "rdi", n |-> nbytes_type(l.ptr_to)],
           Pop("rax"), [op |-> "ADD"], Push("rax")>>
    [] l.kind # "PTR" /\ r.kind = "PTR" ->
         <<Pop("rdi"), Pop("rax"), [op |-> "scale", r |-> "rax", n |-> nbytes_type(ptr_to(l))],
           [op |-> "ADD"], Push("rax")>>
    [] OTHER -> Operate("ADD")

\* Everything but a char is loaded and stored as 8 bytes.
Width(ty) == IF ty.kind = "CHAR" THEN 1 ELSE 8

gen_if_stmt(cond, then, els) ==
  IF els = << >>
  THEN cond \o <<Pop("rax"), JumpIfZero(Len(then) + 1)>> \o then
  ELSE cond \o <<Pop("rax"), JumpIfZero(Len(then) + 2)>> \o then \o <<Jump(Len(els) + 1)>> \o els

\* Variant: nothing jumps over the else branch.
FallIntoElse(cond, then, els) ==
  cond \o <<Pop("rax"), JumpIfZero(Len(then) + 1)>> \o then \o els

\* Variant: the end label is before the jump back.
EndBeforeJump(cond, body) ==
  cond \o <<Pop("rax"), JumpIfZero(Len(body) + 1)>> \o body
       \o <<Jump(-(Len(cond) + Len(body) + 2))>>

gen_while_stmt(cond, body) ==
  cond \o <<Pop("rax"), JumpIfZero(Len(body) + 2)>> \o body
       \o <<Jump(-(Len(cond) + Len(body) + 2))>>

\* Variant: the stack is not aligned.
CallUnaligned(args, n, name) ==
  args \o [k \in 1..(IF n < 6 THEN n ELSE 6) |-> Pop(REG_NAMES[k])]
       \o <<[op |-> "call", name |-> name], Push("rax")>>

\* Variant: rsp is pushed once only.
CallPushedOnce(args, n, name) ==
  args \o [k \in 1..(IF n < 6 THEN n ELSE 6) |-> Pop(REG_NAMES[k])]
       \o <<Push("rsp"), [op |-> "align"],
            [op |-> "call", name |-> name], [op |-> "restore"], Push("rax")>>

\* The arguments are pushed last to first and popped into the registers; then
\* rsp is pushed twice and aligned, so that [rsp + 8] is its old value whether
\* or not the alignment moved it.
gen_fn_call(args, n, name) ==
  args \o [k \in 1..(IF n < 6 THEN n ELSE 6) |-> Pop(REG_NAMES[k])]
       \o <<Push("rsp"), [op |-> "pushtop"], [op |-> "align"],
            [op |-> "call", name |-> name], [op |-> "restore"], Push("rax")>>

Address(offset) == <<Mov("rax", "rbp"), AddInt("rax", -offset)>>

\* Variant: room for one variable less.
SmallPrologue == <<Push("rbp"), Mov("rbp", "rsp"), AddInt("rsp", -(FRAME - 8))>>

Prologue == <<Push("rbp"), Mov("rbp", "rsp"), AddInt("rsp", -FRAME)>>

\* The parameters are copied to their slots.
Entry(params) ==
  FlattenSeq([k \in DOMAIN params |->
                Address(params[k].offset) \o <<Store(REG_NAMES[k], 8, 8)>>])

\* A statement of a block is taken to leave a value.
Discard(s) == s \o <<[op |-> "pop", r |-> "rax", value |-> TRUE]>>

RECURSIVE gen(_), gen_addr(_), eval_arg_back(_)
gen_addr(node) ==
  CASE node.kind = "LVAR" -> Address(node.var.offset) \o <<Push("rax")>>
    [] node.kind = "GVAR" -> <<[op |-> "symbol", name |-> node.var.name], Push("rax")>>
    [] node.kind = "DEREF" -> gen(node.lhs)

eval_arg_back(args) ==
  IF args = << >> THEN << >> ELSE eval_arg_back(Tail(args)) \o gen(Head(args))

gen_fn_def(def) == Prologue \o Entry(def.params) \o gen(def.body) \o Return

gen(node) ==
  CASE node.kind = "DECL" -> <<PushInt(0)>>
    [] node.kind = "INT" -> <<PushInt(node.val)>>
    [] node.kind = "STR" -> <<[op |-> "string", n |-> node.val], Push("rax")>>
    [] node.kind = "LVAR" ->
         gen_addr(node) \o <<Pop("rax"), Load("rax", Width(node.var.ty)), Push("rax")>>
    [] node.kind = "GVAR" ->
         gen_addr(node) \o <<Pop("rax"), Load("rax", 8), Push("rax")>>
    [] node.kind = "IF" ->
         gen_if_stmt(gen(node.cond), gen(node.then),
                     IF node.els = << >> THEN << >> ELSE gen(node.els[1]))
    [] node.kind = "WHILE" -> gen_while_stmt(gen(node.cond), gen(node.body))
    [] node.kind = "ASSIGN" ->
         LET ty == set_type(node.lhs)
         IN  (IF node.lhs.kind \in {"LVAR", "GVAR"} THEN gen_addr(node.lhs) ELSE gen(node.lhs.lhs))
             \o gen(node.rhs)
             \o <<Pop("rdi"), Pop("rax"), Store("rdi", Width(ty), nbytes_type(ty)), Push("rdi")>>
    [] node.kind = "FNCALL" -> gen_fn_call(eval_arg_back(node.args), Len(node.args), node.name)
    [] node.kind = "RETURN" -> gen(node.lhs) \o <<Pop("rax")>> \o Return
    [] node.kind = "BLOCK" ->
         FlattenSeq([k \in DOMAIN node.stmts |-> Discard(gen(node.stmts[k]))])
    [] node.kind = "ADD" ->
         gen(node.lhs) \o gen(node.rhs) \o Addition(set_type(node.lhs), set_type(node.rhs))
    [] node.kind \in {"SUB", "MUL", "DIV", "EQU", "NEQ", "LES", "LEQ"} ->
         gen(node.lhs) \o gen(node.rhs) \o Operate(node.kind)
    [] node.kind = "ADDR" -> gen_addr(node.lhs)
    [] node.kind = "DEREF" ->
         gen(node.lhs) \o <<Pop("rax"), Load("rax", Width(set_type(node))), Push("rax")>>
=============================================================================
