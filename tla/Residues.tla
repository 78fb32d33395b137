------------------------------ MODULE Residues -------------------------------
(***************************************************************************)
(* What 2023/montgomery-mm promises its user: variables that hold residues *)
(* modulo n, and can be set, added and multiplied.                         *)
(***************************************************************************)
EXTENDS Integers

CONSTANTS
  Reg,       \* the variables
  Operand(_) \* per modulus, the integers one can be set to

VARIABLES
  n,         \* the modulus, fixed from the start
  value      \* per variable: its residue

Init == n \in Nat \ {0} /\ value = [a \in Reg |-> 0]

Holds(c, v) ==
  /\ value' = [value EXCEPT ![c] = v % n]
  /\ UNCHANGED n

Next ==
  \E c \in Reg :
    \/ \E x \in Operand(n) : Holds(c, x)
    \/ \E a, b \in Reg : Holds(c, value[a] * value[b]) \/ Holds(c, value[a] + value[b])

Spec == Init /\ [][Next]_<<n, value>>
=============================================================================
