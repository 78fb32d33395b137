------------------------------- MODULE Ctypes -------------------------------
(* Types and typed syntax trees of 2023/9cc: type.c and nbytes_type().      *)
EXTENDS Integers, Sequences

T_CHAR == [kind |-> "CHAR"]
T_INT == [kind |-> "INT"]
T_NULL == [kind |-> "INVALID"]   \* a null Type pointer
new_ty_ptr(to) == [kind |-> "PTR", ptr_to |-> to]
new_ty_array(n, to) == [kind |-> "ARRAY", array_size |-> n, ptr_to |-> to]
new_ty_fn(ret) == [kind |-> "FN", ptr_to |-> ret]

RECURSIVE nbytes_type(_), alignment_of(_)
nbytes_type(ty) ==
  CASE ty.kind = "CHAR" -> 1
    [] ty.kind = "INT" -> 4
    [] ty.kind = "PTR" -> 8
    [] ty.kind = "ARRAY" -> nbytes_type(ty.ptr_to) * ty.array_size

alignment_of(ty) ==
  IF ty.kind = "ARRAY" THEN alignment_of(ty.ptr_to) ELSE nbytes_type(ty)

NODE(kind, lhs, rhs) == [kind |-> kind, lhs |-> lhs, rhs |-> rhs]
NODE1(kind, lhs) == [kind |-> kind, lhs |-> lhs]
INT(n) == [kind |-> "INT", val |-> n]

ptr_to(ty) == IF ty.kind \in {"PTR", "ARRAY", "FN"} THEN ty.ptr_to ELSE T_NULL

\* The type set_type() gives to an expression.
RECURSIVE set_type(_)
set_type(node) ==
  CASE node.kind = "STR" -> new_ty_array(Len(node.text) + 1, T_CHAR)
    [] node.kind \in {"LVAR", "GVAR"} -> node.var.ty
    [] node.kind = "ASSIGN" -> set_type(node.lhs)
    [] node.kind \in {"ADD", "SUB"} ->
         LET l == set_type(node.lhs)
             r == set_type(node.rhs)
         IN  IF l.kind = "PTR" THEN l ELSE IF r.kind = "PTR" THEN r ELSE T_INT
    [] node.kind = "ADDR" ->
         LET t == set_type(node.lhs)
         IN  new_ty_ptr(IF t.kind = "ARRAY" THEN t.ptr_to ELSE t)
    [] node.kind = "DEREF" -> ptr_to(set_type(node.lhs))
    [] OTHER -> T_INT
=============================================================================
