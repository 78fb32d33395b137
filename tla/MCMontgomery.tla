---------------------------- MODULE MCMontgomery -----------------------------
(* All odd moduli that a word of 9 bits can hold the square of r for.       *)
EXTENDS Montgomery
MCpow2 == [k \in 0..W |-> 2^k]
MCModuli == {m \in 1..15 : m % 2 = 1}
=============================================================================
