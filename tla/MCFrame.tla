------------------------------- MODULE MCFrame ------------------------------
(* Four variables of two names: char, int, int *, char[3], int[0], int[2],   *)
(* int[3].                                                                   *)
EXTENDS Frame
T == INSTANCE Ctypes
MCBytes(ty) == T!nbytes_type(ty)
MCAlignment(ty) == T!alignment_of(ty)
MCParamType == {T!T_CHAR, T!T_INT}
MCType == MCParamType \cup {T!new_ty_ptr(T!T_INT), T!new_ty_array(3, T!T_CHAR)}
            \cup {T!new_ty_array(n, T!T_INT) : n \in {0, 2, 3}}
=============================================================================
