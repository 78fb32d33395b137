---------------------------- MODULE FrameProofs ----------------------------
(***************************************************************************)
(* For any types and any number of declarations: which stores leave their  *)
(* variable, and where they end up.  Apart and InFrame are not inductive,  *)
(* for they do not say that the next offset is beyond every slot in use;   *)
(* Ordered and Aligned do.  How far a store reaches past its variable is   *)
(* then a matter of what is left to the next multiple of 8 (Overrun).      *)
(* And a new variable takes its name and no other from the older ones.     *)
(***************************************************************************)
EXTENDS Frame, TLAPS, FiniteSetTheorems, WellFoundedInduction

Ordered ==
  \A k, l \in DOMAIN LOCAL_VARS :
    k < l => LOCAL_VARS[l].offset + nbytes(LOCAL_VARS[k].ty) <= LOCAL_VARS[k].offset

Aligned ==
  \A k \in DOMAIN LOCAL_VARS :
    LOCAL_VARS[k].offset % 8 = 0 /\ nbytes(LOCAL_VARS[k].ty) <= LOCAL_VARS[k].offset

IInv == TypeOK /\ Aligned /\ Ordered

LEMMA SumIsNat == ASSUME NEW m \in Nat, NEW n \in Nat PROVE m + n \in Nat
OBVIOUS

LEMMA BehindSmaller ==
  ASSUME NEW m \in Nat, NEW n \in Nat, NEW e \in Nat, NEW d \in Nat, m <= n, n + e <= d
  PROVE  m + e <= d
OBVIOUS

\* Rounding up gives the least multiple of 8 that is not smaller.
LEMMA Rounding ==
  ASSUME NEW n \in Nat
  PROVE  /\ RoundedUp(n) \in Nat
         /\ RoundedUp(n) % 8 = 0
         /\ n <= RoundedUp(n) /\ RoundedUp(n) < n + 8
  BY DEF RoundedUp

\* A store reaches further than the d bytes from the start of its variable to
\* the next aligned place exactly when it is to an array of an even number of
\* ints that ends there.
LEMMA Overrun ==
  ASSUME NEW v \in LVar, NEW d \in Nat, d % 8 = 0, nbytes(v.ty) <= d
  PROVE  /\ Reach(v) \in Nat
         /\ d < Reach(v) <=> EvenInts(v) /\ d = nbytes(v.ty)
<1> DEFINE n == nbytes(v.ty)
           a == alignment(v.ty)
<1>1. n \in Nat /\ a \in {1, 4, 8} /\ n % a = 0
  BY TypeAssumption DEF LVar, WORD
<1>2. CASE n = 0
  BY <1>1, <1>2 DEF Reach, EvenInts
<1>3. CASE n # 0 /\ a = 1
  <2>1. Reach(v) = IF n = 1 THEN 8 ELSE n
    BY <1>1, <1>3 DEF Reach, Width, WORD
  <2>2. n = 1 => 8 <= d
    BY <1>3
  <2>3. ~EvenInts(v)
    BY <1>3 DEF EvenInts
  <2> HIDE DEF n, a
  <2> QED BY <1>1, <2>1, <2>2, <2>3 DEF n
<1>4. CASE n # 0 /\ a = 8
  <2>1. Reach(v) = n
    BY <1>1, <1>4 DEF Reach, Width, WORD
  <2>2. ~EvenInts(v)
    BY <1>4 DEF EvenInts
  <2> QED BY <1>1, <2>1, <2>2
<1>5. CASE n # 0 /\ a = 4
  <2>1. Reach(v) = n + 4
    BY <1>1, <1>5 DEF Reach, Width, WORD
  <2>2. EvenInts(v) <=> n % 8 = 0
    BY <1>5 DEF EvenInts, WORD
  <2>3. n % 4 = 0 /\ n <= d
    BY <1>1, <1>5
  <2> HIDE DEF n, a
  <2>4. d < n + 4 <=> n % 8 = 0 /\ d = n
    BY <1>1, <2>3
  <2>5. n + 4 \in Nat
    BY <1>1
  <2> QED BY <2>1, <2>2, <2>4, <2>5 DEF n
<1> QED BY <1>1, <1>2, <1>3, <1>4, <1>5

LEMMA Member ==
  ASSUME IInv, NEW k \in DOMAIN LOCAL_VARS
  PROVE  /\ k \in Nat /\ LOCAL_VARS[k] \in LVar
         /\ LOCAL_VARS[k].offset \in Nat /\ nbytes(LOCAL_VARS[k].ty) \in Nat
<1>1. LOCAL_VARS \in Seq(LVar)
  BY DEF IInv, TypeOK
<1>2. k \in Nat /\ LOCAL_VARS[k] \in LVar
  BY <1>1
<1> QED BY <1>2, TypeAssumption DEF LVar

\* The offset of the newest variable, 0 before the first, is aligned.
LEMMA NewestOffset ==
  ASSUME IInv
  PROVE  OffsetOf(LOCAL_VARS) \in Nat /\ OffsetOf(LOCAL_VARS) % 8 = 0
<1>1. CASE LOCAL_VARS = << >>
  BY <1>1 DEF OffsetOf
<1>2. CASE LOCAL_VARS # << >>
  <2>1. 1 \in DOMAIN LOCAL_VARS /\ LOCAL_VARS[1] \in LVar /\ Head(LOCAL_VARS) = LOCAL_VARS[1]
    BY <1>2 DEF IInv, TypeOK
  <2>2. LOCAL_VARS[1].offset \in Nat /\ LOCAL_VARS[1].offset % 8 = 0
    BY <2>1 DEF LVar, IInv, Aligned
  <2> QED BY <1>2, <2>1, <2>2 DEF OffsetOf
<1> QED BY <1>1, <1>2

\* Putting in front a variable that lies beyond the newest one keeps the
\* invariant: it lies beyond all of them.
LEMMA Extended ==
  ASSUME IInv, NEW v \in LVar,
         v.offset % 8 = 0, OffsetOf(LOCAL_VARS) + nbytes(v.ty) <= v.offset,
         LOCAL_VARS' = <<v>> \o LOCAL_VARS, inBody' \in BOOLEAN
  PROVE  IInv'
<1>0. OffsetOf(LOCAL_VARS) \in Nat
  BY NewestOffset
<1> USE DEF IInv, TypeOK
<1> DEFINE new == LOCAL_VARS'
<1>1. new \in Seq(LVar) /\ Len(new) = Len(LOCAL_VARS) + 1
  OBVIOUS
<1>2. DOMAIN new = 1..(Len(LOCAL_VARS) + 1) /\ DOMAIN LOCAL_VARS = 1..Len(LOCAL_VARS)
  BY <1>1
<1>3. new[1] = v
  OBVIOUS
<1>4. ASSUME NEW k \in DOMAIN new, k # 1
      PROVE  k - 1 \in DOMAIN LOCAL_VARS /\ new[k] = LOCAL_VARS[k - 1]
  BY <1>2, <1>4
<1>5. v.offset \in Nat /\ nbytes(v.ty) \in Nat
  BY TypeAssumption DEF LVar
<1>6. ASSUME NEW l \in DOMAIN LOCAL_VARS
      PROVE  /\ LOCAL_VARS[l] \in LVar
             /\ LOCAL_VARS[l].offset \in Nat
             /\ LOCAL_VARS[l].offset <= OffsetOf(LOCAL_VARS)
  <2>1. LOCAL_VARS[l] \in LVar /\ LOCAL_VARS[1] \in LVar /\ 1 \in DOMAIN LOCAL_VARS
    BY <1>2, <1>6
  <2>2. nbytes(LOCAL_VARS[1].ty) \in Nat /\ LOCAL_VARS[l].offset \in Nat /\ LOCAL_VARS[1].offset \in Nat
    BY <2>1, TypeAssumption DEF LVar
  <2>3. OffsetOf(LOCAL_VARS) = LOCAL_VARS[1].offset
    BY <1>2, <1>6 DEF OffsetOf
  <2>4. CASE l = 1
    BY <2>1, <2>2, <2>3, <2>4
  <2>5. CASE l # 1
    <3>1. 1 < l
      BY <1>2, <2>5
    <3>2. LOCAL_VARS[l].offset + nbytes(LOCAL_VARS[1].ty) <= LOCAL_VARS[1].offset
      BY <2>1, <3>1 DEF Ordered
    <3> QED BY <2>1, <2>2, <2>3, <3>2
  <2> QED BY <2>4, <2>5
<1>7. TypeOK'
  BY <1>1
<1>8. Aligned'
  <2> SUFFICES ASSUME NEW k \in DOMAIN new
               PROVE  new[k].offset % 8 = 0 /\ nbytes(new[k].ty) <= new[k].offset
    BY DEF Aligned
  <2>1. CASE k = 1
    BY <1>3, <1>5, <1>0, <2>1
  <2>2. CASE k # 1
    BY <1>4, <2>2 DEF Aligned
  <2> QED BY <2>1, <2>2
<1>9. Ordered'
  <2> SUFFICES ASSUME NEW k \in DOMAIN new, NEW l \in DOMAIN new, k < l
               PROVE  new[l].offset + nbytes(new[k].ty) <= new[k].offset
    BY DEF Ordered
  <2>1. l # 1
    BY <1>2
  <2>2. l - 1 \in DOMAIN LOCAL_VARS /\ new[l] = LOCAL_VARS[l - 1]
    BY <1>4, <2>1
  <2>3. CASE k = 1
    <3>1. new[l].offset \in Nat /\ new[l].offset <= OffsetOf(LOCAL_VARS)
      BY <1>6, <2>2
    <3>2. new[l].offset + nbytes(v.ty) <= v.offset
      BY <1>0, <1>5, <3>1, BehindSmaller
    <3> QED BY <1>3, <2>3, <3>2
  <2>4. CASE k # 1
    <3>1. k - 1 \in DOMAIN LOCAL_VARS /\ new[k] = LOCAL_VARS[k - 1]
      BY <1>4, <2>4
    <3>2. k - 1 < l - 1
      BY <1>2
    <3> QED BY <2>2, <3>1, <3>2 DEF Ordered
  <2> QED BY <2>3, <2>4
<1> QED BY <1>7, <1>8, <1>9

LEMMA Invariance == Spec => []IInv
<1>0. << >> \in Seq(LVar) /\ DOMAIN << >> = {}
  OBVIOUS
<1>1. Init => IInv
  <2> SUFFICES ASSUME Init PROVE IInv
    OBVIOUS
  <2>1. LOCAL_VARS = << >> /\ inBody \in BOOLEAN
    BY DEF Init
  <2> HIDE DEF Init
  <2> QED BY <1>0, <2>1 DEF IInv, TypeOK, Aligned, Ordered
<1>2. IInv /\ [Next]_vars => IInv'
  <2> SUFFICES ASSUME IInv, [Next]_vars PROVE IInv'
    OBVIOUS
  <2>1. OffsetOf(LOCAL_VARS) \in Nat /\ OffsetOf(LOCAL_VARS) % 8 = 0
    BY NewestOffset
  <2>2. ASSUME NEW x \in Name, NEW ty \in ParamType, Param(x, ty) PROVE IInv'
    <3> DEFINE v == [name |-> x, offset |-> OffsetOf(LOCAL_VARS) + 8, ty |-> ty]
    <3>1. /\ ty \in Type /\ nbytes(ty) \in Nat /\ nbytes(ty) <= 8
          /\ LOCAL_VARS' = <<v>> \o LOCAL_VARS /\ inBody' \in BOOLEAN
      BY <2>2, TypeAssumption, ParamAssumption DEF WORD, Param, new_param, IInv, TypeOK
    <3>2. v \in LVar /\ v.offset % 8 = 0
      BY <2>1, <3>1 DEF LVar
    <3>3. OffsetOf(LOCAL_VARS) + nbytes(v.ty) <= v.offset
      BY <2>1, <3>1
    <3> HIDE DEF v
    <3> QED BY <3>1, <3>2, <3>3, Extended
  <2>3. ASSUME NEW x \in Name, NEW ty \in Type, Declare(x, ty) PROVE IInv'
    <3> DEFINE v == [name |-> x, offset |-> RoundedUp(OffsetOf(LOCAL_VARS) + nbytes(ty)), ty |-> ty]
    <3>1. nbytes(ty) \in Nat /\ LOCAL_VARS' = <<v>> \o LOCAL_VARS /\ inBody' \in BOOLEAN
      BY <2>3, TypeAssumption DEF Declare, register_lvar, IInv, TypeOK
    <3>2. /\ v.offset \in Nat /\ v.offset % 8 = 0
          /\ OffsetOf(LOCAL_VARS) + nbytes(v.ty) <= v.offset
      <4>1. OffsetOf(LOCAL_VARS) + nbytes(ty) \in Nat
        BY <2>1, <3>1, SumIsNat
      <4> QED BY <4>1, Rounding
    <3>3. v \in LVar
      BY <3>2 DEF LVar
    <3> HIDE DEF v
    <3> QED BY <3>1, <3>2, <3>3, Extended
  <2>4. CASE Body
    BY <2>4 DEF Body, IInv, TypeOK, Aligned, Ordered
  <2>5. CASE NextFunction
    <3>1. LOCAL_VARS' = << >> /\ inBody' \in BOOLEAN
      BY <2>5 DEF NextFunction
    <3> QED BY <1>0, <3>1 DEF IInv, TypeOK, Aligned, Ordered
  <2>6. CASE UNCHANGED vars
    BY <2>6 DEF vars, IInv, TypeOK, Aligned, Ordered
  <2> QED BY <2>2, <2>3, <2>4, <2>5, <2>6 DEF Next
<1> QED BY <1>1, <1>2, PTL DEF Spec
-----------------------------------------------------------------------------
\* The list of variables keeps its type in every function of a program.
THEOREM TypeCorrect == Spec => []TypeOK
<1>1. IInv => TypeOK
  BY DEF IInv
<1> QED BY <1>1, Invariance, PTL

\* Every slot is aligned, and a store gets past rbp in one case only: from the
\* last element of an even number of ints that comes first (gen_addr(), gen()).
THEOREM StoresInFrame == Spec => []InFrame
<1>1. IInv => InFrame
  <2> SUFFICES ASSUME IInv, NEW k \in DOMAIN LOCAL_VARS
               PROVE  LET v == LOCAL_VARS[k]
                      IN  /\ v.offset % WORD = 0
                          /\ v.offset < Reach(v) <=> EvenInts(v) /\ v.offset = nbytes(v.ty)
    BY DEF InFrame
  <2> DEFINE v == LOCAL_VARS[k]
  <2>1. v \in LVar /\ v.offset \in Nat
    BY Member
  <2>2. v.offset % 8 = 0 /\ nbytes(v.ty) <= v.offset
    BY DEF IInv, Aligned
  <2> QED BY <2>1, <2>2, Overrun DEF WORD
<1> QED BY <1>1, Invariance, PTL

\* However many variables and of whatever types, a store to one changes another
\* in one case only: from the last element of an even number of ints to the
\* variable above it (register_lvar(), the parameters of program(), gen()).
THEOREM StoresApart == Spec => []Apart
<1>1. IInv => Apart
  <2> SUFFICES ASSUME IInv, NEW k \in DOMAIN LOCAL_VARS, NEW l \in DOMAIN LOCAL_VARS, k # l
               PROVE  LET v == LOCAL_VARS[k]
                          w == LOCAL_VARS[l]
                      IN  Changed(v) \cap Slot(w) # {}
                            <=> EvenInts(v) /\ nbytes(w.ty) # 0 /\ w.offset = v.offset - nbytes(v.ty)
    BY DEF Apart
  <2> DEFINE v == LOCAL_VARS[k]
             w == LOCAL_VARS[l]
             m == nbytes(v.ty)
             n == nbytes(w.ty)
  <2>1. /\ k \in Nat /\ l \in Nat /\ v \in LVar /\ w \in LVar
        /\ v.offset \in Nat /\ w.offset \in Nat /\ m \in Nat /\ n \in Nat
    BY Member
  <2>2. v.offset % 8 = 0 /\ w.offset % 8 = 0 /\ m <= v.offset /\ n <= w.offset
    BY DEF IInv, Aligned
  <2>3. Reach(v) \in Nat
    BY <2>1, <2>2, Overrun
  <2>4. CASE k < l   \* w is the older one and lies above
    <3> DEFINE d == v.offset - w.offset
    <3>1. w.offset + m <= v.offset
      BY <2>4 DEF IInv, Ordered
    <3>2. d \in Nat /\ d % 8 = 0 /\ m <= d
      BY <2>1, <2>2, <3>1
    <3> HIDE DEF d
    <3>3. d < Reach(v) <=> EvenInts(v) /\ d = m
      BY <2>1, <3>2, Overrun
    <3> USE DEF d
    <3>4. d < Reach(v) /\ n # 0 => w.offset \in Changed(v) \cap Slot(w)
      BY <2>1, <2>3, <3>2 DEF Changed, Slot
    <3>5. Changed(v) \cap Slot(w) # {} => d < Reach(v) /\ n # 0
      <4> SUFFICES ASSUME NEW b \in Changed(v) \cap Slot(w) PROVE d < Reach(v) /\ n # 0
        OBVIOUS
      <4>1. b \in Int /\ v.offset - Reach(v) + 1 <= b /\ b <= w.offset /\ w.offset - n + 1 <= b
        BY <2>1, <2>3 DEF Changed, Slot
      <4> QED BY <2>1, <2>3, <4>1
    <3>6. d = m <=> w.offset = v.offset - m
      BY <2>1
    <3> QED BY <3>3, <3>4, <3>5, <3>6
  <2>5. CASE l < k   \* w is the newer one and lies below
    <3>1. v.offset + n <= w.offset
      BY <2>5 DEF IInv, Ordered
    <3>2. Changed(v) \cap Slot(w) = {}
      <4> SUFFICES ASSUME NEW b \in Changed(v) \cap Slot(w) PROVE FALSE
        OBVIOUS
      <4>1. b \in Int /\ b <= v.offset /\ w.offset - n + 1 <= b
        BY <2>1, <2>3 DEF Changed, Slot
      <4> QED BY <2>1, <3>1, <4>1
    <3>3. n # 0 => w.offset # v.offset - m
      BY <2>1, <3>1
    <3> QED BY <3>2, <3>3
  <2> QED BY <2>1, <2>4, <2>5
<1> QED BY <1>1, Invariance, PTL
-----------------------------------------------------------------------------
\* A set of natural numbers has a least element.  The intervals 1..n of its
\* elements are finite, and the strict inclusion of finite sets is well founded.
LEMMA LeastNatural ==
  ASSUME NEW S, S \subseteq Nat, S # {}
  PROVE  \E n \in S : \A m \in S : n <= m
<1> DEFINE R == StrictSubsetOrdering(Nat)
           T == {1..n : n \in S}
<1>1. IsWellFoundedOn(R, FiniteSubsetsOf(Nat))
  BY FS_StrictSubsetOrderingWellFounded
<1>2. ASSUME NEW n \in S PROVE 1..n \in FiniteSubsetsOf(Nat)
  <2>1. IsFiniteSet(1..n)
    BY FS_Interval
  <2>2. 1..n \in SUBSET Nat
    OBVIOUS
  <2> QED BY <2>1, <2>2 DEF FiniteSubsetsOf
<1>3. T \subseteq FiniteSubsetsOf(Nat) /\ T # {}
  BY <1>2
<1>4. ASSUME NEW m \in S, NEW n \in S, m < n PROVE <<1..m, 1..n>> \in R
  <2>1. 1..m \in SUBSET Nat /\ 1..n \in SUBSET Nat /\ 1..m \subseteq 1..n
    BY <1>4
  <2>2. n \in 1..n /\ n \notin 1..m
    BY <1>4
  <2>3. 1..m # 1..n
    BY <2>2
  <2> QED BY <2>1, <2>3 DEF StrictSubsetOrdering
<1> HIDE DEF R
<1>5. PICK I \in T : \A J \in T : <<J, I>> \notin R
  <2> HIDE DEF T
  <2> QED BY <1>1, <1>3, WFMin
<1>6. PICK n \in S : I = 1..n
  OBVIOUS
<1>7. ASSUME NEW m \in S PROVE n <= m
  <2>1. ~(m < n)
    BY <1>4, <1>5, <1>6
  <2> QED BY <2>1
<1> QED BY <1>7

\* A name leads to the newest variable that has it.
LEMMA Found ==
  ASSUME NEW locals \in Seq(LVar), NEW k \in DOMAIN locals,
         \A l \in 1..(k - 1) : locals[l].name # locals[k].name
  PROVE  find_lvar(locals, locals[k].name) = locals[k]
<1> DEFINE x == locals[k].name
           P(n) == locals[n].name = x /\ \A l \in 1..(n - 1) : locals[l].name # x
<1>1. k \in Nat /\ P(k) /\ DOMAIN locals = 1..Len(locals) /\ Len(locals) \in Nat
  OBVIOUS
<1>2. \A n \in DOMAIN locals : P(n) => n = k
  <2> TAKE n \in DOMAIN locals
  <2>1. n < k => n \in 1..(k - 1)
    BY <1>1
  <2>2. k < n => k \in 1..(n - 1)
    BY <1>1
  <2> QED BY <1>1, <2>1, <2>2
<1> HIDE DEF P
<1>3. (CHOOSE n \in DOMAIN locals : P(n)) = k
  BY <1>1, <1>2
<1> QED BY <1>3 DEF find_lvar, P

\* A new variable takes its own name, and leaves every other to what it meant.
LEMMA Rebound ==
  ASSUME NEW locals \in Seq(LVar), NEW v \in LVar
  PROVE  LET new == <<v>> \o locals IN
         /\ Head(new) = v /\ find_lvar(new, v.name) = v
         /\ \A x \in Declared(locals) \ {v.name} : find_lvar(new, x) = find_lvar(locals, x)
<1> DEFINE new == <<v>> \o locals
<1>1. /\ new \in Seq(LVar) /\ Len(new) = Len(locals) + 1 /\ Len(locals) \in Nat
      /\ new[1] = v /\ 1 \in DOMAIN new /\ Head(new) = v
      /\ \A k \in 1..Len(locals) : k + 1 \in DOMAIN new /\ new[k + 1] = locals[k]
  OBVIOUS
<1> HIDE DEF new
<1>2. find_lvar(new, v.name) = v
  <2>1. \A l \in 1..(1 - 1) : new[l].name # new[1].name
    OBVIOUS
  <2> QED BY <1>1, <2>1, Found
<1>3. ASSUME NEW x \in Declared(locals) \ {v.name}
      PROVE  find_lvar(new, x) = find_lvar(locals, x)
  <2> DEFINE S == {k \in DOMAIN locals : locals[k].name = x}
  <2>1. S \subseteq Nat /\ S # {}
    BY <1>3 DEF Declared
  <2>2. PICK k \in S : \A m \in S : k <= m
    BY <2>1, LeastNatural
  <2>3. k \in 1..Len(locals) /\ k \in Nat /\ locals[k].name = x
    BY <2>2
  <2>4. \A l \in 1..(k - 1) : locals[l].name # locals[k].name
    BY <2>2, <2>3
  <2>5. find_lvar(locals, x) = locals[k]
    BY <2>3, <2>4, Found
  <2>6. \A l \in 1..((k + 1) - 1) : new[l].name # new[k + 1].name
    <3> TAKE l \in 1..((k + 1) - 1)
    <3>1. CASE l = 1
      BY <1>1, <1>3, <2>3, <3>1
    <3>2. CASE l # 1
      <4>1. l - 1 \in 1..(k - 1) /\ l - 1 \in 1..Len(locals) /\ (l - 1) + 1 = l
        BY <2>3, <3>2
      <4>2. new[l] = locals[l - 1]
        BY <1>1, <4>1
      <4> QED BY <1>1, <2>3, <2>4, <4>1, <4>2
    <3> QED BY <3>1, <3>2
  <2>7. find_lvar(new, new[k + 1].name) = new[k + 1]
    BY <1>1, <2>3, <2>6, Found
  <2> QED BY <1>1, <2>3, <2>5, <2>7
<1> QED BY <1>1, <1>2, <1>3 DEF new

\* A declaration binds its own name and no other (find_lvar()).
THEOREM BindingHolds == Spec => Binding
<1> DEFINE Step == LET new == Head(LOCAL_VARS') IN
                   /\ find_lvar(LOCAL_VARS', new.name) = new
                   /\ \A x \in Declared(LOCAL_VARS) \ {new.name} :
                        find_lvar(LOCAL_VARS', x) = find_lvar(LOCAL_VARS, x)
<1>1. IInv /\ [Next]_vars => (LOCAL_VARS' \notin {<< >>, LOCAL_VARS} => Step)
  <2> SUFFICES ASSUME IInv, [Next]_vars, LOCAL_VARS' \notin {<< >>, LOCAL_VARS}
               PROVE  Step
    OBVIOUS
  <2>1. LOCAL_VARS \in Seq(LVar) /\ OffsetOf(LOCAL_VARS) \in Nat
    BY NewestOffset DEF IInv, TypeOK
  <2>2. PICK v \in LVar : LOCAL_VARS' = <<v>> \o LOCAL_VARS
    <3>1. ASSUME NEW x \in Name, NEW ty \in ParamType, Param(x, ty)
          PROVE  \E v \in LVar : LOCAL_VARS' = <<v>> \o LOCAL_VARS
      <4> DEFINE v == [name |-> x, offset |-> OffsetOf(LOCAL_VARS) + 8, ty |-> ty]
      <4>1. LOCAL_VARS' = <<v>> \o LOCAL_VARS
        BY <3>1 DEF Param, new_param
      <4>2. v \in LVar
        BY <2>1, ParamAssumption DEF LVar
      <4> QED BY <4>1, <4>2
    <3>2. ASSUME NEW x \in Name, NEW ty \in Type, Declare(x, ty)
          PROVE  \E v \in LVar : LOCAL_VARS' = <<v>> \o LOCAL_VARS
      <4> DEFINE v == [name |-> x, offset |-> RoundedUp(OffsetOf(LOCAL_VARS) + nbytes(ty)), ty |-> ty]
      <4>1. LOCAL_VARS' = <<v>> \o LOCAL_VARS
        BY <3>2 DEF Declare, register_lvar
      <4>2. OffsetOf(LOCAL_VARS) + nbytes(ty) \in Nat
        BY <2>1, TypeAssumption, SumIsNat
      <4>3. v \in LVar
        BY <4>2, Rounding DEF LVar
      <4> QED BY <4>1, <4>3
    <3>3. ~Body /\ ~NextFunction /\ ~UNCHANGED vars
      BY DEF Body, NextFunction, vars
    <3> QED BY <3>1, <3>2, <3>3 DEF Next
  <2> QED BY <2>1, <2>2, Rebound
<1> QED BY <1>1, Invariance, PTL DEF Spec, Binding
=============================================================================
