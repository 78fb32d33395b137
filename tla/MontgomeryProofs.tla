-------------------------- MODULE MontgomeryProofs --------------------------
(***************************************************************************)
(* For every word size and every odd modulus whose square of r fits: the   *)
(* loop of nprime() computes the inverse, no object ever holds more than   *)
(* n, and what the objects decrypt to is arithmetic modulo n.  The proofs  *)
(* count multiples: a is b modulo n when a = b + k * n for an integer k.   *)
(***************************************************************************)
EXTENDS Montgomery, TLAPS

\* k of nprime()'s bits are left; the rest of the product ends in ones.
LoopInv ==
  /\ t < n /\ result < i
  /\ result * n + 1 = t * i + i
  /\ \E k \in 0..bit_width(n) : e = pow2[k] /\ i = pow2[bit_width(n) - k]

Factor(c) == c \in Nat /\ n * np + 1 = c * r

IInv ==
  /\ TypeOK
  /\ Bounded
  /\ np = -1 => LoopInv /\ num = [a \in Reg |-> 0]
  /\ np # -1 => np < r /\ \E c \in Nat : Factor(c)

LEMMA DivMod ==
  ASSUME NEW a \in Nat, NEW b \in Nat, b > 0
  PROVE  /\ a % b \in Nat /\ a % b < b
         /\ a \div b \in Nat
         /\ a = b * (a \div b) + (a % b)
OBVIOUS

LEMMA Quotient ==
  ASSUME NEW a \in Int, NEW b \in Nat, b > 0, NEW k \in Int, NEW c \in Nat, c < b, a = b * k + c
  PROVE  a % b = c /\ a \div b = k
OBVIOUS

LEMMA LessTimes ==
  ASSUME NEW a \in Nat, NEW b \in Nat, NEW c \in Nat, a < b, c > 0
  PROVE  a * c < b * c
OBVIOUS

LEMMA AtMostTimes ==
  ASSUME NEW a \in Nat, NEW b \in Nat, NEW c \in Nat, a <= b
  PROVE  a * c <= b * c
OBVIOUS

LEMMA ProductIsNat == ASSUME NEW a \in Nat, NEW b \in Nat PROVE a * b \in Nat
OBVIOUS

LEMMA Split ==
  ASSUME NEW j \in 0..W, NEW k \in 0..W, j <= k
  PROVE  /\ pow2[k] = pow2[j] * pow2[k - j]
         /\ pow2[j] \in Nat \ {0} /\ pow2[k] \in Nat \ {0} /\ pow2[k - j] \in Nat \ {0}
<1>1. k - j \in 0..W /\ W \in Nat
  BY PowAssumption
<1> QED BY <1>1, PowAssumption

LEMMA Doubling ==
  ASSUME NEW j \in 0..W, j + 1 \in 0..W
  PROVE  pow2[j + 1] = 2 * pow2[j]
<1>1. 1 \in 0..W /\ j + 1 - 1 = j /\ 1 <= j + 1
  BY PowAssumption
<1>2. pow2[j + 1] = pow2[1] * pow2[j + 1 - 1]
  BY <1>1, Split
<1> QED BY <1>1, <1>2, PowAssumption

\* r is a power of two above n, and divides what a word wraps at.
LEMMA Radix ==
  ASSUME n \in Moduli
  PROVE  /\ bit_width(n) \in 1..W
         /\ pow2[W] \in Nat /\ r \in Nat /\ n \in Nat /\ n % 2 = 1
         /\ 0 < n /\ n < r /\ 1 < r
         /\ 2 * r * r <= pow2[W] /\ 2 * r <= pow2[W]
         /\ \E h \in Nat : pow2[W] = r * h
<1> DEFINE b == bit_width(n)
<1>1. b \in 1..W /\ Width(n, b)
  BY ModulusAssumption DEF bit_width
<1> HIDE DEF b
<1>2. r = pow2[b]
  BY DEF b, r
<1>3. pow2[W] \in Nat /\ r \in Nat \ {0} /\ n \in Nat /\ n % 2 = 1
  BY <1>1, <1>2, PowAssumption, ModulusAssumption
<1>4. n < r /\ 2 * r * r <= pow2[W]
  BY <1>1, <1>2, ModulusAssumption DEF Width
<1>5. 0 < n
  BY <1>3
<1>6. 1 < r
  BY <1>3, <1>4, <1>5
<1>7. r * 1 <= r * r
  BY <1>3, <1>6
<1>8. 2 * r <= pow2[W]
  BY <1>3, <1>4, <1>7
<1>9. \E h \in Nat : pow2[W] = r * h
  <2>1. pow2[W] = pow2[b] * pow2[W - b] /\ pow2[W - b] \in Nat
    BY <1>1, PowAssumption
  <2> QED BY <2>1, <1>2
<1> QED BY <1>1, <1>3, <1>4, <1>5, <1>6, <1>8, <1>9 DEF b

\* A value below 1 << W is no other as a T.
LEMMA Fits ==
  ASSUME pow2[W] \in Nat, NEW x \in Nat, x < pow2[W]
  PROVE  T(x) = x
BY DEF T

\* A turn of the loop: one more bit, and the sums stay within a word.
LEMMA TurnKeeps ==
  ASSUME IInv, Turn
  PROVE  IInv'
<1>1. n \in Moduli /\ TypeOK /\ LoopInv /\ np = -1 /\ e > 1 /\ num = [a \in Reg |-> 0]
  BY DEF IInv, TypeOK, Turn, MoreBits
<1> DEFINE b == bit_width(n)
<1>2. PICK k \in 0..b : e = pow2[k] /\ i = pow2[b - k]
  BY <1>1 DEF LoopInv
<1>b. b \in 1..W /\ n' = n /\ b' = b
  BY <1>1, Radix DEF Turn, bit_width, Width
<1>r. r = pow2[b]
  BY DEF r
<1> HIDE DEF b
<1>w. W \in Nat /\ b \in Nat /\ b <= W
  BY <1>b, PowAssumption
<1>3. k \in 1..b
  BY <1>1, <1>2, <1>b, PowAssumption
<1>4. e \div 2 = pow2[k - 1] /\ pow2[k - 1] \in Nat \ {0}
  <2>1. k - 1 \in 0..W /\ (k - 1) + 1 = k /\ k \in 0..W
    BY <1>3, <1>w
  <2>2. pow2[k] = 2 * pow2[k - 1] /\ pow2[k - 1] \in Nat \ {0}
    BY <2>1, Doubling, PowAssumption
  <2> QED BY <2>2, <1>2
<1>5. i * 2 = pow2[b - (k - 1)] /\ i \in Nat \ {0}
  <2>1. b - k \in 0..W /\ (b - k) + 1 = b - (k - 1) /\ (b - k) + 1 \in 0..W
    BY <1>3, <1>w
  <2>2. pow2[(b - k) + 1] = 2 * pow2[b - k] /\ pow2[b - k] \in Nat \ {0}
    BY <2>1, Doubling, PowAssumption
  <2> QED BY <2>1, <2>2, <1>2
<1>6. i * 2 <= r
  <2>1. r = pow2[b - (k - 1)] * pow2[b - (b - (k - 1))]
    <3>1. b - (k - 1) \in 0..W /\ b \in 0..W /\ b - (k - 1) <= b
      BY <1>3, <1>w
    <3> QED BY <3>1, <1>r, Split
  <2>2. b - (b - (k - 1)) = k - 1
    BY <1>3, <1>b
  <2>3. r = (i * 2) * pow2[k - 1]
    BY <2>1, <2>2, <1>5
  <2>4. i * 2 \in Nat
    BY <1>5
  <2> QED BY <2>3, <2>4, <1>4
<1>7. /\ pow2[W] \in Nat /\ n \in Nat /\ n % 2 = 1 /\ n < r /\ r \in Nat
      /\ 2 * r <= pow2[W] /\ 1 < r
  BY <1>1, Radix
<1>8. t \in Nat /\ result \in Nat /\ t < n /\ result < i /\ result * n + 1 = t * i + i
  BY <1>1, <1>7 DEF TypeOK, LoopInv
<1>9. T(i * 2) = i * 2 /\ T(t + n) = t + n /\ T(result + i) = result + i
  <2>1. i * 2 < pow2[W] /\ t + n < pow2[W] /\ result + i < pow2[W]
    BY <1>5, <1>6, <1>7, <1>8
  <2> QED BY <2>1, <1>5, <1>7, <1>8, Fits
<1>10. /\ i' = i * 2 /\ e' = pow2[k - 1] /\ i' = pow2[b' - (k - 1)]
  BY <1>9, <1>4, <1>5, <1>b DEF Turn
<1>11. /\ t' \in Nat /\ result' \in Nat
       /\ t' < n /\ result' < i' /\ result' * n + 1 = t' * i' + i'
  <2>1. CASE MustAdd
    <3>1. t % 2 = 0 /\ t' = (t + n) \div 2 /\ result' = result + i
      BY <2>1, <1>9 DEF Turn, MustAdd
    <3>2. t' \in Nat /\ t + n = 2 * t' + 1
      BY <3>1, <1>7, <1>8
    <3>3. t' < n /\ result' \in Nat /\ result' < i'
      BY <3>1, <3>2, <1>5, <1>7, <1>8, <1>10
    <3>4. result' * n + 1 = (t + n) * i + i
      <4>1. (result + i) * n = result * n + n * i /\ (t + n) * i = t * i + n * i
        BY <1>5, <1>7, <1>8
      <4>2. result * n \in Nat /\ n * i \in Nat /\ t * i \in Nat
        BY <1>5, <1>7, <1>8
      <4> QED BY <4>1, <4>2, <3>1, <1>8, <1>5
    <3>5. (2 * t' + 1) * i + i = t' * (i * 2) + i * 2
      BY <3>2, <1>5
    <3> QED BY <3>2, <3>3, <3>4, <3>5, <1>10
  <2>2. CASE ~MustAdd
    <3>1. t % 2 # 0 /\ t' = t \div 2 /\ result' = result
      BY <2>2, <1>9 DEF Turn, MustAdd
    <3>2. t' \in Nat /\ t = 2 * t' + 1
      BY <3>1, <1>8
    <3>3. t' < n /\ result' \in Nat /\ result' < i'
      BY <3>1, <3>2, <1>5, <1>7, <1>8, <1>10
    <3>5. (2 * t' + 1) * i + i = t' * (i * 2) + i * 2
      BY <3>2, <1>5
    <3> QED BY <3>1, <3>2, <3>3, <3>5, <1>8, <1>10
  <2> QED BY <2>1, <2>2
<1>12. LoopInv'
  <2>1. k - 1 \in 0..b'
    BY <1>3, <1>b
  <2>2. b' = bit_width(n')
    BY <1>b DEF b
  <2> QED BY <2>1, <2>2, <1>10, <1>11, <1>b DEF LoopInv, b
<1>13. TypeOK' /\ Bounded' /\ num' = [a \in Reg |-> 0] /\ np' = -1
  <2>1. num' = [a \in Reg |-> 0] /\ np' = -1
    BY <1>1 DEF Turn
  <2>2. t' \in 0..(pow2[W] - 1) /\ result' \in 0..(pow2[W] - 1) /\ i' \in 1..(pow2[W] - 1)
    BY <1>5, <1>6, <1>7, <1>8, <1>10, <1>11
  <2>3. e' \in 1..(pow2[W] - 1)
    BY <1>1, <1>4, <1>7, <1>10 DEF TypeOK, Turn
  <2> QED BY <2>1, <2>2, <2>3, <1>1, <1>7, <1>b DEF TypeOK, Bounded
<1> QED BY <1>12, <1>13 DEF IInv

\* The loop's last state: the product of n and result ends in ones.
LEMMA ReturnKeeps ==
  ASSUME IInv, Return
  PROVE  IInv'
<1>1. n \in Moduli /\ TypeOK /\ LoopInv /\ np = -1 /\ e \in Nat \ {0} /\ e <= 1
  BY DEF IInv, TypeOK, Return, MoreBits
<1> DEFINE b == bit_width(n)
<1>2. PICK k \in 0..b : e = pow2[k] /\ i = pow2[b - k]
  BY <1>1 DEF LoopInv
<1>3. b \in 1..W /\ r = pow2[b] /\ W \in Nat
  BY <1>1, Radix, PowAssumption DEF r
<1> HIDE DEF b
<1>4. k = 0
  <2> SUFFICES ASSUME k >= 1 PROVE FALSE
    BY <1>2, <1>3
  <2>1. k - 1 \in 0..W /\ (k - 1) + 1 = k /\ k \in 0..W
    BY <1>2, <1>3
  <2>2. pow2[k] = 2 * pow2[k - 1] /\ pow2[k - 1] \in Nat \ {0}
    BY <2>1, Doubling, PowAssumption
  <2> QED BY <1>1, <1>2, <2>2
<1>5. i = r
  BY <1>2, <1>3, <1>4
<1>6. result \in Nat /\ result < r /\ t \in Nat /\ n \in Nat /\ r \in Nat
  BY <1>1, <1>5, Radix DEF LoopInv, TypeOK
<1>7. n * result + 1 = (t + 1) * r
  BY <1>1, <1>5, <1>6 DEF LoopInv
<1>8. np' = result /\ n' = n /\ r' = r /\ num' = num
  BY DEF Return, r, bit_width, Width
<1>9. Factor(t + 1)' /\ t + 1 \in Nat
  BY <1>6, <1>7, <1>8 DEF Factor, Return, loop
<1>10. TypeOK' /\ Bounded' /\ np' # -1
  BY <1>1, <1>6, <1>8 DEF IInv, TypeOK, Bounded, Return, loop
<1>11. (np # -1 => np < r /\ \E c \in Nat : Factor(c))'
  <2>1. Factor(t + 1)' => (\E c \in Nat : Factor(c))'
    BY <1>8, <1>9 DEF Factor
  <2> QED BY <1>6, <1>8, <1>9, <2>1
<1> QED BY <1>10, <1>11 DEF IInv
-----------------------------------------------------------------------------
(* reduce().                                                               *)

\* For a sum below n * r, reduce() divides by r modulo n, and what it returns
\* is below n.
LEMMA Reduction ==
  ASSUME n \in Moduli, np \in Nat, np < r, NEW c \in Nat, Factor(c),
         NEW x \in Nat, x < n * r
  PROVE  /\ reduce(x) \in Nat /\ reduce(x) < n
         /\ \E k \in Int : reduce(x) * r = x + k * n
<1>1. /\ pow2[W] \in Nat /\ r \in Nat /\ n \in Nat /\ 0 < n /\ n < r
      /\ 2 * r * r <= pow2[W]
  BY Radix
<1>2. PICK h \in Nat : pow2[W] = r * h
  BY Radix
<1> DEFINE a == x * np
           u == a \div pow2[W]
           v == a % pow2[W]
           w == v \div r
           s == v % r
<1>3. a \in Nat /\ pow2[W] > 0 /\ x * np = a
  BY <1>1, ProductIsNat
<1>4. v \in Nat /\ u \in Nat /\ a = pow2[W] * u + v
  BY <1>1, <1>3, DivMod
<1>5. s \in Nat /\ s < r /\ w \in Nat /\ v = r * w + s
  <2>1. v \in Nat /\ r \in Nat /\ r > 0
    BY <1>1, <1>4
  <2> HIDE DEF v
  <2> QED BY <2>1, DivMod
<1>6. modr(x * np) = s
  BY DEF modr, T
<1> HIDE DEF a, u, v, w, s
<1> DEFINE d == h * u + w
<1>7. d \in Nat /\ a = r * d + s
  <2>1. h * u \in Nat
    BY <1>2, <1>4
  <2>2. (r * h) * u = r * (h * u)
    BY <1>1, <1>2, <1>4
  <2>3. r * (h * u) + r * w = r * (h * u + w)
    BY <1>1, <2>1, <1>5
  <2>4. r * (h * u) \in Nat /\ r * w \in Nat
    BY <1>1, <1>5, <2>1
  <2> QED BY <1>2, <1>4, <1>5, <2>1, <2>2, <2>3, <2>4
<1> HIDE DEF d
<1>8. s * n \in Nat /\ s * n < r * n
  BY <1>1, <1>5, LessTimes
<1>9. n * r < r * r /\ n * r \in Nat /\ n * r = r * n /\ r * r \in Nat
  BY <1>1, LessTimes
<1>10. 2 * (r * r) <= pow2[W]
  <2>1. 2 * r * r = 2 * (r * r)
    BY <1>1
  <2> QED BY <1>1, <2>1
<1>11. T(s * n) = s * n
  <2>1. s * n < pow2[W]
    BY <1>1, <1>8, <1>9, <1>10
  <2> QED BY <1>1, <1>8, <2>1, Fits
<1>12. T(x + s * n) = x + s * n /\ x + s * n \in Nat /\ x + s * n < 2 * (n * r)
  <2>1. x + s * n < 2 * (n * r) /\ x + s * n \in Nat
    BY <1>8, <1>9
  <2>2. x + s * n < pow2[W]
    BY <2>1, <1>1, <1>9, <1>10
  <2> QED BY <1>1, <2>1, <2>2, Fits
\* The sum is a multiple of r.
<1> DEFINE y == x * c - d * n
<1>13. y \in Int /\ x + s * n = r * y + 0
  <2>1. x * c \in Int /\ d * n \in Int /\ y \in Int
    BY <1>1, <1>7
  <2>2. x + a * n = x * (c * r)
    <3>1. x * (n * np + 1) = x * (n * np) + x
      BY <1>1
    <3>2. x * (n * np) = (x * np) * n
      BY <1>1
    <3>3. n * np + 1 = c * r
      BY DEF Factor
    <3>4. (x * np) * n \in Nat
      BY <1>1
    <3> QED BY <3>1, <3>2, <3>3, <3>4, <1>3
  <2>3. a * n = (r * d) * n + s * n
    BY <1>1, <1>5, <1>7
  <2>4. x * (c * r) = r * (x * c) /\ (r * d) * n = r * (d * n)
    BY <1>1, <1>7
  <2>5. r * (x * c - d * n) = r * (x * c) - r * (d * n)
    BY <1>1, <2>1
  <2>6. a * n \in Int /\ r * (x * c) \in Int /\ r * (d * n) \in Int /\ s * n \in Int
    BY <1>1, <1>3, <1>7, <1>8
  <2> QED BY <2>1, <2>2, <2>3, <2>4, <2>5, <2>6
<1>14. (x + s * n) \div r = y
  BY <1>1, <1>12, <1>13, Quotient
<1> HIDE DEF y
<1>15. y \in Nat /\ y < 2 * n
  <2>1. y >= 0
    BY <1>1, <1>12, <1>13
  <2>2. y < 2 * n
    <3> SUFFICES ASSUME 2 * n <= y PROVE FALSE
      BY <1>1, <1>13
    <3>1. (2 * n) * r <= y * r
      BY <1>1, <1>13, <2>1, AtMostTimes
    <3>2. (2 * n) * r = 2 * (n * r) /\ y * r = r * y
      BY <1>1, <1>13
    <3> QED BY <3>1, <3>2, <1>12, <1>13, <1>9, <1>1
  <2> QED BY <2>1, <2>2, <1>13
<1>16. divr(x + T(s * n)) = y
  BY <1>11, <1>12, <1>14 DEF divr
<1>17. reduce(x) = Reduced(y)
  BY <1>6, <1>16 DEF reduce
<1>18. y * r = x + s * n /\ (y - n) * r = x + (s - r) * n
  <2>1. y * r = r * y /\ (y - n) * r = r * y - r * n /\ (s - r) * n = s * n - r * n
    BY <1>1, <1>5, <1>13
  <2> QED BY <2>1, <1>1, <1>8, <1>9, <1>12, <1>13
<1>19. CASE y >= n
  <2>1. reduce(x) = y - n
    BY <1>17, <1>19 DEF Reduced
  <2>2. s - r \in Int
    BY <1>1, <1>5
  <2>3. reduce(x) \in Nat /\ reduce(x) < n
    BY <2>1, <1>1, <1>15, <1>19
  <2>4. reduce(x) * r = x + (s - r) * n
    BY <2>1, <1>18
  <2> QED BY <2>2, <2>3, <2>4
<1>20. CASE y < n
  <2>1. reduce(x) = y
    BY <1>17, <1>20, <1>15, <1>1 DEF Reduced
  <2> QED BY <2>1, <1>5, <1>15, <1>18, <1>20
<1> QED BY <1>1, <1>15, <1>19, <1>20
-----------------------------------------------------------------------------
(* Every operation of the class calls reduce() below n * r.                *)

\* What the class computes with once the loop has ended.
Ready ==
  /\ IInv /\ np # -1
  /\ n \in Moduli /\ np \in Nat /\ np < r /\ num \in [Reg -> Nat]

LEMMA OnceReturned ==
  ASSUME IInv, np # -1
  PROVE  Ready
BY Radix DEF IInv, TypeOK, Ready

\* From r + 1 on, the product of x and q could be too large.
LEMMA ConstructArgument ==
  ASSUME Ready, NEW x \in Operand(n)
  PROVE  x \in Nat /\ T(x * q) = x * q /\ x * q \in Nat /\ x * q < n * r
<1>1. /\ pow2[W] \in Nat /\ r \in Nat /\ n \in Nat /\ 0 < n /\ n < r
      /\ 2 * r * r <= pow2[W]
  BY Radix DEF Ready
<1>2. x \in Nat /\ x <= r
  BY <1>1 DEF Operand, r
<1>3. q \in Nat /\ q < n
  <2>1. r * r \in Nat /\ pow2[W] > 0
    BY <1>1
  <2>2. T(r * r) \in Nat
    BY <2>1, <1>1, DivMod DEF T
  <2> QED BY <2>2, <1>1, DivMod DEF q
<1>4. x * q <= r * q
  BY <1>1, <1>2, <1>3, AtMostTimes
<1>5. r * q < r * n
  <2>1. q * r < n * r
    BY <1>1, <1>3, LessTimes
  <2> QED BY <2>1, <1>1, <1>3
<1>6. x * q \in Nat /\ r * q \in Nat /\ r * n = n * r /\ r * n \in Nat /\ r * n < r * r
  BY <1>1, <1>2, <1>3, LessTimes
<1>7. x * q < pow2[W]
  BY <1>1, <1>4, <1>5, <1>6
<1> QED BY <1>1, <1>2, <1>4, <1>5, <1>6, <1>7, Fits

LEMMA MultiplyArgument ==
  ASSUME Ready, NEW a \in Reg, NEW b \in Reg
  PROVE  num[a] * num[b] \in Nat /\ num[a] * num[b] < n * r
<1>1. r \in Nat /\ n \in Nat /\ 0 < n /\ n < r
  BY Radix DEF Ready
<1>2. num[a] \in Nat /\ num[b] \in Nat /\ num[a] <= n /\ num[b] <= n
  BY DEF Ready, IInv, Bounded
<1>3. num[a] * num[b] <= n * num[b]
  BY <1>1, <1>2, AtMostTimes
<1>4. num[b] * n <= n * n
  BY <1>1, <1>2, AtMostTimes
<1>5. n * n < r * n
  BY <1>1, LessTimes
<1>6. n * num[b] = num[b] * n /\ r * n = n * r /\ num[a] * num[b] \in Nat
  BY <1>1, <1>2
<1>7. n * n \in Nat /\ num[b] * n \in Nat /\ n * r \in Nat
  BY <1>1, <1>2
<1> QED BY <1>3, <1>4, <1>5, <1>6, <1>7

\* The largest sum is 2n, which comes down to n and not to 0.
LEMMA AddResult ==
  ASSUME Ready, NEW a \in Reg, NEW b \in Reg, NEW m, m = Over(T(num[a] + num[b]))
  PROVE  m \in Nat /\ m <= n /\ (m = num[a] + num[b] \/ m = (num[a] + num[b]) - n)
<1>1. r \in Nat /\ n \in Nat /\ 0 < n /\ n < r /\ 2 * r <= pow2[W] /\ pow2[W] \in Nat
  BY Radix DEF Ready
<1>2. num[a] \in Nat /\ num[b] \in Nat /\ num[a] <= n /\ num[b] <= n
  BY DEF Ready, IInv, Bounded
<1>3. T(num[a] + num[b]) = num[a] + num[b]
  BY <1>1, <1>2, Fits
<1> QED BY <1>1, <1>2, <1>3 DEF Over

\* What an operation stores keeps the invariant when it is at most n.
LEMMA HoldsKeeps ==
  ASSUME Ready, NEW c \in Reg, NEW m \in Nat, m <= n, Holds(c, m)
  PROVE  IInv'
<1>1. n' = n /\ np' = np /\ r' = r /\ loop' = loop
  BY DEF Holds, r, bit_width, Width
<1>2. num' \in [Reg -> Nat] /\ \A a \in Reg : num'[a] <= n
  BY DEF Ready, Holds, IInv, Bounded
<1>3. num' \in [Reg -> 0..(pow2[W] - 1)]
  <2>1. pow2[W] \in Nat /\ n \in Nat /\ n < pow2[W]
    BY Radix DEF Ready
  <2>2. \A a \in Reg : num'[a] \in 0..(pow2[W] - 1)
    BY <2>1, <1>2
  <2> QED BY <1>2, <2>2
<1>4. TypeOK' /\ Bounded'
  BY <1>1, <1>2, <1>3 DEF Ready, IInv, TypeOK, Bounded, loop
<1>5. (np # -1 => np < r /\ \E c_1 \in Nat : Factor(c_1))'
  BY <1>1 DEF Ready, IInv, Factor
<1> QED BY <1>1, <1>4, <1>5 DEF IInv, Ready

LEMMA Reduces ==
  ASSUME Ready, NEW x \in Nat, x < n * r
  PROVE  /\ reduce(x) \in Nat /\ reduce(x) < n
         /\ \E k \in Int : reduce(x) * r = x + k * n
<1>1. PICK c \in Nat : Factor(c)
  BY DEF Ready, IInv
<1> QED BY <1>1, Reduction DEF Ready

LEMMA InitIInv == Init => IInv
<1> SUFFICES ASSUME Init PROVE IInv
  OBVIOUS
<1>1. /\ n \in Moduli /\ t = 0 /\ e = r /\ i = 1 /\ result = 0 /\ np = -1
      /\ num = [a \in Reg |-> 0]
  BY DEF Init
<1>2. /\ bit_width(n) \in 1..W /\ pow2[W] \in Nat /\ r \in Nat /\ n \in Nat
      /\ 0 < n /\ n < r /\ 1 < r /\ 2 * r <= pow2[W]
  BY <1>1, Radix
<1>3. TypeOK /\ Bounded
  BY <1>1, <1>2 DEF TypeOK, Bounded
<1>4. LoopInv
  <2>1. bit_width(n) \in 0..bit_width(n) /\ bit_width(n) - bit_width(n) = 0
    BY <1>2
  <2>2. e = pow2[bit_width(n)] /\ i = pow2[bit_width(n) - bit_width(n)]
    BY <1>1, <2>1, PowAssumption DEF r
  <2>3. t < n /\ result < i /\ result * n + 1 = t * i + i
    BY <1>1, <1>2
  <2> QED BY <2>1, <2>2, <2>3 DEF LoopInv
<1> QED BY <1>1, <1>3, <1>4 DEF IInv

LEMMA NextIInv == IInv /\ [Next]_vars => IInv'
<1> SUFFICES ASSUME IInv, [Next]_vars PROVE IInv'
  OBVIOUS
<1>1. CASE Turn
  BY <1>1, TurnKeeps
<1>2. CASE Return
  BY <1>2, ReturnKeeps
<1>3. ASSUME NEW c \in Reg, NEW x \in Operand(n), Construct(c, x) PROVE IInv'
  <2>1. Ready
    BY <1>3, OnceReturned DEF Construct, Holds
  <2>2. reduce(T(x * q)) \in Nat /\ reduce(T(x * q)) < n /\ n \in Nat
    BY <2>1, ConstructArgument, Reduces, Radix DEF Ready
  <2> QED BY <2>1, <2>2, <1>3, HoldsKeeps DEF Construct
<1>4. ASSUME NEW c \in Reg, NEW a \in Reg, NEW b \in Reg, Multiply(c, a, b) PROVE IInv'
  <2>1. Ready
    BY <1>4, OnceReturned DEF Multiply, Holds
  <2>2. reduce(num[a] * num[b]) \in Nat /\ reduce(num[a] * num[b]) < n /\ n \in Nat
    BY <2>1, MultiplyArgument, Reduces, Radix DEF Ready
  <2> QED BY <2>1, <2>2, <1>4, HoldsKeeps DEF Multiply
<1>5. ASSUME NEW c \in Reg, NEW a \in Reg, NEW b \in Reg, Add(c, a, b) PROVE IInv'
  <2>1. Ready
    BY <1>5, OnceReturned DEF Add, Holds
  <2> DEFINE m == Over(T(num[a] + num[b]))
  <2>2. m \in Nat /\ m <= n
    BY <2>1, AddResult
  <2>3. Holds(c, m)
    BY <1>5 DEF Add
  <2> HIDE DEF m
  <2> QED BY <2>1, <2>2, <2>3, HoldsKeeps
<1>6. CASE UNCHANGED vars
  BY <1>6 DEF vars, loop, IInv, TypeOK, Bounded, LoopInv, Factor, r, bit_width, Width
<1> QED BY <1>1, <1>2, <1>3, <1>4, <1>5, <1>6 DEF Next

LEMMA Invariance == Spec => []IInv
BY InitIInv, NextIInv, PTL DEF Spec

\* Every word of the program keeps its width.
THEOREM TypeCorrect == Spec => []TypeOK
<1>1. IInv => TypeOK
  BY DEF IInv
<1> QED BY <1>1, Invariance, PTL

\* nprime() returns the inverse, for every odd modulus.
THEOREM InverseHolds == Spec => []Inverse
<1>1. ASSUME IInv, np # -1 PROVE np < r /\ (n * np + 1) % r = 0
  <2>1. PICK c \in Nat : n * np + 1 = c * r
    BY <1>1 DEF IInv, Factor
  <2>2. r \in Nat /\ 0 < r
    BY <1>1, Radix DEF IInv, TypeOK
  <2>3. (c * r) % r = 0
    <3>1. c * r = r * c + 0 /\ c * r \in Int
      BY <2>1, <2>2
    <3> QED BY <3>1, <2>2, Quotient
  <2> QED BY <1>1, <2>1, <2>3 DEF IInv
<1>2. IInv => Inverse
  BY <1>1 DEF Inverse
<1> QED BY <1>2, Invariance, PTL

\* No sequence of operations makes an object hold more than n.
THEOREM BoundedHolds == Spec => []Bounded
<1>1. IInv => Bounded
  BY DEF IInv
<1> QED BY <1>1, Invariance, PTL
-----------------------------------------------------------------------------
(* The refinement.                                                         *)

\* r has an inverse modulo n, so that it cancels.
LEMMA Cancel ==
  ASSUME Ready, NEW y \in Int, NEW z \in Int, NEW k \in Int, y * r = z * r + k * n
  PROVE  \E l \in Int : y = z + l * n
<1>1. r \in Nat /\ n \in Nat /\ np \in Nat
  BY Radix DEF Ready
<1>2. PICK c \in Nat : n * np + 1 = c * r
  BY DEF Ready, IInv, Factor
<1> DEFINE l == k * c + z * np - y * np
<1>3. l \in Int
  BY <1>1, <1>2
<1>4. (y * r) * c = (z * r) * c + (k * n) * c
  BY <1>1, <1>2
<1>5. (y * r) * c = y * (c * r) /\ (z * r) * c = z * (c * r) /\ (k * n) * c = (k * c) * n
  BY <1>1, <1>2
<1>6. y * (n * np + 1) = (y * np) * n + y /\ z * (n * np + 1) = (z * np) * n + z
  BY <1>1
<1>7. l * n = (k * c) * n + (z * np) * n - (y * np) * n
  BY <1>1, <1>2
<1>8. (k * c) * n \in Int /\ (z * np) * n \in Int /\ (y * np) * n \in Int
  BY <1>1, <1>2
<1>9. y = z + l * n
  BY <1>2, <1>4, <1>5, <1>6, <1>7, <1>8
<1> QED BY <1>3, <1>9

LEMMA Represents ==
  ASSUME Ready, NEW a \in Reg
  PROVE  /\ value[a] \in Nat /\ num[a] \in Nat
         /\ \E k \in Int : num[a] = value[a] * r + k * n
<1>1. r \in Nat /\ n \in Nat /\ 0 < n /\ n < r
  BY Radix DEF Ready
<1>2. num[a] \in Nat /\ num[a] <= n
  BY DEF Ready, IInv, Bounded
<1>3. num[a] < n * r
  <2>1. 1 < r /\ 1 * n < r * n
    BY <1>1, LessTimes
  <2> QED BY <1>1, <1>2, <2>1
<1>4. value[a] = reduce(num[a])
  BY DEF Ready, value, decrypt
<1>5. PICK k \in Int : reduce(num[a]) * r = num[a] + k * n
  BY <1>2, <1>3, Reduces
<1>6. reduce(num[a]) \in Nat
  BY <1>2, <1>3, Reduces
<1>7. num[a] = value[a] * r + (-k) * n /\ -k \in Int
  BY <1>1, <1>2, <1>4, <1>5, <1>6
<1> QED BY <1>2, <1>4, <1>6, <1>7

\* An object that stores v * r stands for v.
LEMMA Stores ==
  ASSUME Ready, NEW c \in Reg, NEW m \in Nat, m <= n, Holds(c, m),
         NEW v \in Nat, NEW k \in Int, m = v * r + k * n
  PROVE  Arithmetic!Holds(c, v)
<1>1. r \in Nat /\ n \in Nat /\ 0 < n /\ n < r
  BY Radix DEF Ready
<1>2. m < n * r
  <2>1. 1 < r /\ 1 * n < r * n
    BY <1>1, LessTimes
  <2> QED BY <1>1, <2>1
<1>3. reduce(m) \in Nat /\ reduce(m) < n
  BY <1>2, Reduces
<1>4. PICK j \in Int : reduce(m) * r = m + j * n
  BY <1>2, Reduces
<1>5. reduce(m) * r = v * r + (k + j) * n /\ k + j \in Int
  <2>1. (k + j) * n = k * n + j * n /\ k * n \in Int /\ j * n \in Int /\ v * r \in Nat
    BY <1>1
  <2> QED BY <1>4, <2>1
<1>6. PICK l \in Int : reduce(m) = v + l * n
  <2>1. reduce(m) \in Int /\ v \in Int
    BY <1>3
  <2> QED BY <2>1, <1>5, Cancel
<1>7. v % n = reduce(m)
  <2>1. v \in Int /\ reduce(m) \in Int /\ n \in Int
    BY <1>1, <1>3
  <2>2. n * (-l) = -(l * n) /\ l * n \in Int /\ -l \in Int
    BY <2>1
  <2>3. v = n * (-l) + reduce(m)
    BY <1>6, <2>1, <2>2
  <2>4. n \in Nat /\ n > 0 /\ reduce(m) \in Nat /\ reduce(m) < n
    BY <1>1, <1>3
  <2> DEFINE d == reduce(m)
             minus == -l
  <2>5. v = n * minus + d /\ minus \in Int /\ d \in Nat /\ d < n
    BY <2>2, <2>3, <2>4
  <2> HIDE DEF d, minus
  <2>6. v % n = d
    BY <2>1, <2>4, <2>5, Quotient
  <2> QED BY <2>6 DEF d
<1>8. n' = n /\ np' = np /\ num' = [num EXCEPT ![c] = m] /\ np # -1 /\ num \in [Reg -> Nat]
  BY DEF Holds, Ready
<1>9. value' = [a \in Reg |-> reduce(num'[a])] /\ value = [a \in Reg |-> reduce(num[a])]
  BY <1>8 DEF value, decrypt, reduce, Reduced, modr, divr, r, bit_width, Width, T
<1>10. value' = [value EXCEPT ![c] = reduce(m)]
  BY <1>8, <1>9
<1> QED BY <1>7, <1>8, <1>10 DEF Arithmetic!Holds

LEMMA ConstructStores ==
  ASSUME Ready, NEW c \in Reg, NEW x \in Operand(n), Construct(c, x)
  PROVE  Arithmetic!Holds(c, x)
<1>1. /\ pow2[W] \in Nat /\ r \in Nat /\ n \in Nat /\ 0 < n /\ n < r
      /\ 2 * r * r <= pow2[W]
  BY Radix DEF Ready
<1>2. x \in Nat /\ T(x * q) = x * q /\ x * q \in Nat /\ x * q < n * r
  BY ConstructArgument
<1> DEFINE m == reduce(x * q)
<1>3. m \in Nat /\ m < n /\ Holds(c, m)
  BY <1>2, Reduces DEF Construct
<1>4. PICK k \in Int : m * r = x * q + k * n
  BY <1>2, Reduces
<1> HIDE DEF m
<1>5. \E j \in Int : q \in Int /\ q = r * r + j * n
  <2>1. r * r \in Nat /\ 2 * r * r = 2 * (r * r)
    BY <1>1
  <2>2. 0 < r * r
    BY <1>1
  <2>3. T(r * r) = r * r
    BY <2>1, <2>2, <1>1, Fits
  <2>4. q = (r * r) % n
    BY <2>3 DEF q
  <2> DEFINE a == r * r
  <2>5. a \in Nat
    BY <2>1
  <2> HIDE DEF a
  <2>6. a = n * (a \div n) + (a % n) /\ a \div n \in Nat /\ a % n \in Nat
    BY <2>5, <1>1, DivMod
  <2>7. a % n = a + (-(a \div n)) * n /\ -(a \div n) \in Int
    BY <2>5, <2>6, <1>1
  <2> QED BY <2>4, <2>6, <2>7 DEF a
<1>6. PICK j \in Int : q \in Int /\ q = r * r + j * n
  BY <1>5
<1>7. m * r = (x * r) * r + (x * j + k) * n
  <2>1. x * q = x * (r * r) + x * (j * n)
    BY <1>1, <1>2, <1>6
  <2>2. x * (r * r) = (x * r) * r /\ x * (j * n) = (x * j) * n
    BY <1>1, <1>2, <1>6
  <2>3. (x * j + k) * n = (x * j) * n + k * n
    BY <1>1, <1>2
  <2>4. (x * r) * r \in Int /\ (x * j) * n \in Int /\ k * n \in Int
    BY <1>1, <1>2
  <2> QED BY <1>4, <2>1, <2>2, <2>3, <2>4
<1>8. PICK l \in Int : m = x * r + l * n
  <2>1. m \in Int /\ x * r \in Int /\ x * j + k \in Int
    BY <1>1, <1>2, <1>3
  <2> QED BY <2>1, <1>7, Cancel
<1> QED BY <1>1, <1>2, <1>3, <1>8, Stores

LEMMA MultiplyStores ==
  ASSUME Ready, NEW c \in Reg, NEW a \in Reg, NEW b \in Reg, Multiply(c, a, b)
  PROVE  Arithmetic!Holds(c, value[a] * value[b])
<1>1. r \in Nat /\ n \in Nat /\ 0 < n
  BY Radix DEF Ready
<1> DEFINE m == reduce(num[a] * num[b])
<1>2. num[a] * num[b] \in Nat /\ num[a] * num[b] < n * r
  BY MultiplyArgument
<1>3. m \in Nat /\ m < n /\ Holds(c, m)
  BY <1>2, Reduces DEF Multiply
<1>4. PICK k \in Int : m * r = num[a] * num[b] + k * n
  BY <1>2, Reduces
<1> HIDE DEF m
<1>5. /\ value[a] \in Nat /\ num[a] \in Nat
      /\ \E j \in Int : num[a] = value[a] * r + j * n
  BY Represents
<1>6. /\ value[b] \in Nat /\ num[b] \in Nat
      /\ \E j \in Int : num[b] = value[b] * r + j * n
  BY Represents
<1>7. PICK ja \in Int : num[a] = value[a] * r + ja * n
  BY <1>5
<1>8. PICK jb \in Int : num[b] = value[b] * r + jb * n
  BY <1>6
<1> DEFINE u == value[a]
           v == value[b]
           d == (u * r) * jb + (v * r) * ja + (ja * jb) * n
<1>9. u \in Nat /\ v \in Nat /\ u * r \in Nat /\ v * r \in Nat
  BY <1>1, <1>5, <1>6
<1>10. num[a] = u * r + ja * n /\ num[b] = v * r + jb * n
  BY <1>7, <1>8
<1> HIDE DEF u, v
<1>11. num[a] * num[b] = ((u * v) * r) * r + d * n
  <2>1. (u * r + ja * n) * (v * r + jb * n)
          = (u * r) * (v * r) + (u * r) * (jb * n) + (ja * n) * (v * r) + (ja * n) * (jb * n)
    BY <1>1, <1>9
  <2>2. /\ (u * r) * (v * r) = ((u * v) * r) * r
        /\ (u * r) * (jb * n) = ((u * r) * jb) * n
        /\ (ja * n) * (v * r) = ((v * r) * ja) * n
        /\ (ja * n) * (jb * n) = ((ja * jb) * n) * n
    BY <1>1, <1>9
  <2>3. d * n = ((u * r) * jb) * n + ((v * r) * ja) * n + ((ja * jb) * n) * n
    BY <1>1, <1>9
  <2>4. /\ ((u * v) * r) * r \in Int /\ ((u * r) * jb) * n \in Int
        /\ ((v * r) * ja) * n \in Int /\ ((ja * jb) * n) * n \in Int
    BY <1>1, <1>9
  <2> HIDE DEF d
  <2> QED BY <1>10, <2>1, <2>2, <2>3, <2>4
<1>12. d \in Int
  BY <1>1, <1>9
<1> HIDE DEF d
<1>13. m * r = ((u * v) * r) * r + (d + k) * n
  <2>1. (d + k) * n = d * n + k * n /\ d * n \in Int /\ k * n \in Int /\ ((u * v) * r) * r \in Int
    BY <1>1, <1>9, <1>12
  <2> QED BY <1>4, <1>11, <2>1
<1>14. PICK l \in Int : m = (u * v) * r + l * n
  <2>1. m \in Int /\ (u * v) * r \in Int /\ d + k \in Int
    BY <1>1, <1>3, <1>9, <1>12
  <2> QED BY <2>1, <1>13, Cancel
<1>15. u * v \in Nat
  BY <1>9
<1>16. Arithmetic!Holds(c, u * v)
  BY <1>1, <1>3, <1>14, <1>15, Stores
<1> QED BY <1>16 DEF u, v

LEMMA AddStores ==
  ASSUME Ready, NEW c \in Reg, NEW a \in Reg, NEW b \in Reg, Add(c, a, b)
  PROVE  Arithmetic!Holds(c, value[a] + value[b])
<1>1. r \in Nat /\ n \in Nat /\ 0 < n
  BY Radix DEF Ready
<1> DEFINE m == Over(T(num[a] + num[b]))
<1>2. m \in Nat /\ m <= n /\ (m = num[a] + num[b] \/ m = (num[a] + num[b]) - n)
  BY AddResult
<1>3. Holds(c, m)
  BY DEF Add
<1> HIDE DEF m
<1>5. /\ value[a] \in Nat /\ num[a] \in Nat
      /\ \E j \in Int : num[a] = value[a] * r + j * n
  BY Represents
<1>6. /\ value[b] \in Nat /\ num[b] \in Nat
      /\ \E j \in Int : num[b] = value[b] * r + j * n
  BY Represents
<1>7. PICK ja \in Int : num[a] = value[a] * r + ja * n
  BY <1>5
<1>8. PICK jb \in Int : num[b] = value[b] * r + jb * n
  BY <1>6
<1>9. value[a] + value[b] \in Nat
  BY <1>5, <1>6
<1>10. num[a] + num[b] = (value[a] + value[b]) * r + (ja + jb) * n
  <2>1. (value[a] + value[b]) * r = value[a] * r + value[b] * r /\ (ja + jb) * n = ja * n + jb * n
    BY <1>1, <1>5, <1>6
  <2>2. value[a] * r \in Int /\ value[b] * r \in Int /\ ja * n \in Int /\ jb * n \in Int
    BY <1>1, <1>5, <1>6
  <2> QED BY <1>7, <1>8, <2>1, <2>2
<1>11. \E k \in Int : m = (value[a] + value[b]) * r + k * n
  <2>1. CASE m = num[a] + num[b]
    BY <2>1, <1>10
  <2>2. CASE m = (num[a] + num[b]) - n
    <3> DEFINE x == (value[a] + value[b]) * r
               y == ja + jb
               s == num[a] + num[b]
    <3>1. x \in Int /\ y \in Int /\ s \in Int /\ n \in Int
      BY <1>1, <1>5, <1>6, <1>9
    <3>2. s = x + y * n /\ m = s - n
      BY <2>2, <1>10
    <3> HIDE DEF x, y, s
    <3>3. m = x + (y - 1) * n
      BY <3>1, <3>2
    <3> DEFINE k == y - 1
    <3>4. k \in Int /\ m = x + k * n
      BY <3>1, <3>3
    <3> HIDE DEF k
    <3> QED BY <3>4 DEF x
  <2> QED BY <2>1, <2>2, <1>2
<1> QED BY <1>2, <1>3, <1>9, <1>11, Stores

\* 0 is stored as 0 when the class begins.
LEMMA ReturnStutters ==
  ASSUME IInv, Return
  PROVE  value' = value
<1>1. n \in Moduli /\ np = -1 /\ num = [a \in Reg |-> 0] /\ result \in Nat
  BY DEF IInv, TypeOK, Return
<1>2. np' = result /\ num' = num /\ n' = n
  BY DEF Return
<1>3. r \in Nat /\ n \in Nat /\ 0 < n /\ 0 < r /\ pow2[W] \in Nat /\ 0 < pow2[W]
  BY <1>1, Radix
<1>4. 0 % pow2[W] = 0 /\ 0 % r = 0 /\ 0 \div r = 0
  <2>1. 0 = pow2[W] * 0 + 0 /\ 0 = r * 0 + 0
    BY <1>3
  <2> QED BY <2>1, <1>3, Quotient
<1>5. modr(0) = 0 /\ divr(0) = 0 /\ T(0) = 0
  BY <1>4 DEF modr, divr, T
<1>6. r' = r /\ modr(0)' = 0 /\ divr(0)' = 0
  BY <1>2, <1>4 DEF r, bit_width, Width, modr, divr, T
<1>7. reduce(0)' = 0
  <2>1. 0 * np' = 0 /\ 0 * n' = 0 /\ 0 + 0 = 0
    BY <1>1, <1>2, <1>3
  <2>2. reduce(0)' = Reduced(divr(0))'
    BY <2>1, <1>5, <1>6 DEF reduce
  <2>3. 0 < n'
    BY <1>2, <1>3
  <2> QED BY <2>2, <2>3, <1>2, <1>3, <1>6 DEF Reduced
<1>8. np' # -1
  BY <1>1, <1>2
<1> QED BY <1>1, <1>2, <1>7, <1>8 DEF value, decrypt

\* What the objects decrypt to is arithmetic on residues modulo n, in every
\* order of operations and although 0 is stored as 0 and as n.
THEOREM ModularHolds == Spec => Modular
<1>1. Init => Arithmetic!Init
  BY Radix DEF Init, Arithmetic!Init, value
<1>2. IInv /\ [Next]_vars => [Arithmetic!Next]_<<n, value>>
  <2> SUFFICES ASSUME IInv, [Next]_vars PROVE Arithmetic!Next \/ UNCHANGED <<n, value>>
    OBVIOUS
  <2>1. CASE Turn
    BY <2>1 DEF Turn, value
  <2>2. CASE Return
    BY <2>2, ReturnStutters DEF Return
  <2>3. ASSUME NEW c \in Reg, NEW x \in Operand(n), Construct(c, x)
        PROVE  Arithmetic!Next
    <3>1. Ready
      BY <2>3, OnceReturned DEF Construct, Holds
    <3> QED BY <3>1, <2>3, ConstructStores DEF Arithmetic!Next
  <2>4. ASSUME NEW c \in Reg, NEW a \in Reg, NEW b \in Reg, Multiply(c, a, b)
        PROVE  Arithmetic!Next
    <3>1. Ready
      BY <2>4, OnceReturned DEF Multiply, Holds
    <3> QED BY <3>1, <2>4, MultiplyStores DEF Arithmetic!Next
  <2>5. ASSUME NEW c \in Reg, NEW a \in Reg, NEW b \in Reg, Add(c, a, b)
        PROVE  Arithmetic!Next
    <3>1. Ready
      BY <2>5, OnceReturned DEF Add, Holds
    <3> QED BY <3>1, <2>5, AddStores DEF Arithmetic!Next
  <2>6. CASE UNCHANGED vars
    BY <2>6 DEF vars, value, decrypt, reduce, Reduced, modr, divr, r, bit_width, Width, T
  <2> QED BY <2>1, <2>2, <2>3, <2>4, <2>5, <2>6 DEF Next
<1> QED BY <1>1, <1>2, Invariance, PTL DEF Spec, Modular, Arithmetic!Spec
=============================================================================
