----------------------------- MODULE Montgomery ------------------------------
(***************************************************************************)
(* 2023/montgomery-mm: multiplication modulo n without a division, in      *)
(* unsigned words of W bits.  np is computed by a loop when the program is *)
(* compiled; then Mongomery objects are built, multiplied and added.  What *)
(* is stored for a residue v is num, which stands for v * r modulo n.      *)
(***************************************************************************)
EXTENDS Integers

CONSTANTS
  W,         \* bits of T; TP has twice as many
  pow2,      \* pow2[k] is 1 << k
  Moduli,    \* the values of the template parameter n
  Reg        \* the Mongomery objects

\* The b with 1 << (b - 1) <= m < 1 << b.
Width(m, b) == pow2[b - 1] <= m /\ m < pow2[b]

ASSUME PowAssumption ==
  /\ W \in Nat \ {0} /\ pow2 \in [0..W -> Nat \ {0}] /\ pow2[0] = 1 /\ pow2[1] = 2
  /\ \A j, k \in 0..W : j <= k => pow2[k] = pow2[j] * pow2[k - j]

\* The square of r, a power of two, is below 1 << W: from 1 << W on, q is 0
\* and every object holds 0.
ASSUME ModulusAssumption ==
  \A m \in Moduli :
    /\ m \in Nat /\ m % 2 = 1
    /\ \E b \in 1..W : Width(m, b)
    /\ \A b \in 1..W : Width(m, b) => 2 * pow2[b] * pow2[b] <= pow2[W]

VARIABLES
  n,         \* the template parameter
  t, e, i,   \* nprime()'s variables
  result,
  np,        \* its value, -1 until it returns
  num        \* per object: num

loop == <<t, e, i, result>>
vars == <<n, t, e, i, result, np, num>>

\* Conversion to T, and what its operators do to a result that is too large.
T(x) == x % pow2[W]

bit_width(m) == CHOOSE b \in 1..W : Width(m, b)
r == pow2[bit_width(n)]
modr(x) == T(x) % r
divr(x) == T(x) \div r

\* Variant: the square is not brought down.
qWhole == T(r * r)

q == T(r * r) % n

Init ==
  /\ n \in Moduli
  /\ t = 0 /\ e = r /\ i = 1 /\ result = 0 /\ np = -1
  /\ num = [a \in Reg |-> 0]
-----------------------------------------------------------------------------
(* nprime().                                                               *)

\* Variant: n is added to t whatever its last bit.
AddAlways == TRUE

\* The last bit of t is made 1.
MustAdd == t % 2 = 0

\* Variant: the loop is for the bit 0, too.
Endless == e >= 0

MoreBits == e > 1

Turn ==
  /\ np = -1 /\ MoreBits
  /\ t' = (IF MustAdd THEN T(t + n) ELSE t) \div 2
  /\ result' = IF MustAdd THEN T(result + i) ELSE result
  /\ e' = e \div 2 /\ i' = T(i * 2)
  /\ UNCHANGED <<n, np, num>>

Return ==
  /\ np = -1 /\ ~MoreBits
  /\ np' = result
  /\ UNCHANGED <<n, loop, num>>
-----------------------------------------------------------------------------
(* The class.                                                              *)

\* Variant: the last subtraction is left out.
Unreduced(m) == m

\* At most one n too much.
Reduced(m) == IF m >= n THEN m - n ELSE m

\* s * n is a product of two T; x is a TP, and so is the sum.
reduce(x) == LET s == modr(x * np) IN Reduced(divr(x + T(s * n)))

decrypt(a) == reduce(num[a])

\* What a user may hand over: from r + 1 on, x * q may be too large for the
\* sum in reduce().
Operand(m) == 0..pow2[bit_width(m)]

Holds(c, m) ==
  /\ np # -1
  /\ num' = [num EXCEPT ![c] = m]
  /\ UNCHANGED <<n, loop, np>>

Construct(c, x) == Holds(c, reduce(T(x * q)))

\* a *= b for c = a, and c = a * b on a copy of a.
Multiply(c, a, b) == Holds(c, reduce(num[a] * num[b]))

\* A sum equal to n stays.
Over(m) == IF m > n THEN m - n ELSE m

Add(c, a, b) == Holds(c, Over(T(num[a] + num[b])))

Next ==
  \/ Turn \/ Return
  \/ \E c \in Reg :
       \/ \E x \in Operand(n) : Construct(c, x)
       \/ \E a, b \in Reg : Multiply(c, a, b) \/ Add(c, a, b)

Spec == Init /\ [][Next]_vars
-----------------------------------------------------------------------------
TypeOK ==
  /\ n \in Moduli
  /\ t \in 0..(pow2[W] - 1) /\ result \in 0..(pow2[W] - 1)
  /\ e \in 1..(pow2[W] - 1) /\ i \in 1..(pow2[W] - 1)
  /\ np \in -1..(pow2[W] - 1) /\ num \in [Reg -> 0..(pow2[W] - 1)]

\* nprime() returns the number below r whose product with n ends in ones only,
\* one bit per turn of its loop.
Inverse == np # -1 => np < r /\ (n * np + 1) % r = 0

\* An object may hold n itself, since operator+= compares with >, but never
\* more, whatever is multiplied and added in which order; that is what keeps
\* the 32-bit sum in reduce() from wrapping.
Bounded == \A a \in Reg : num[a] <= n

\* What an object decrypts to.
value == [a \in Reg |-> IF np = -1 THEN 0 ELSE decrypt(a)]

\* The value an object decrypts to is the residue its user computed, although
\* 0 is stored in two ways.
Arithmetic == INSTANCE Residues WITH value <- value
Modular == Arithmetic!Spec
=============================================================================
