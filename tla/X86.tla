-------------------------------- MODULE X86 ---------------------------------
(***************************************************************************)
(* Programs compiled by 2023/9cc, running: the registers, memory and stack *)
(* of an x86-64 process executing what gen() prints.  A byte holds one of  *)
(* ByteBase values instead of 256; addresses and sizes are the real ones.  *)
(***************************************************************************)
EXTENDS Codegen, TLC
LOCAL INSTANCE SequencesExt

CONSTANTS
  Images,     \* a sequence of compiled programs: see Image() in Compile
  Meaning,    \* per program: the int main() returns, by the meaning of C
  Climb,      \* per program: how many values its blocks pop that no statement left
  ByteBase,   \* the number of values of a byte
  Junk        \* the bytes memory may hold before it is written

ASSUME ByteAssumption == ByteBase \in Nat \ {0, 1} /\ Junk \subseteq 0..(ByteBase - 1)

Total(s) == FoldLeft(LAMBDA m, n : m + n, 0, s)

STACK == 4096      \* where the stack starts, 16-aligned

VARIABLES
  id,      \* the program that runs
  junk,    \* what its memory held before
  pc,      \* the instruction to execute next
  reg,     \* the registers
  mem,     \* the bytes written so far
  calls    \* history: per call not returned from, the state ret must restore

vars == <<id, junk, pc, reg, mem, calls>>

Word == ByteBase^8
Wrap(n) == n % Word
Signed(w) == IF w >= Word \div 2 THEN w - Word ELSE w

Byte(a) == IF a \in DOMAIN mem THEN mem[a] ELSE junk
Read(a, n) == Total([k \in 1..n |-> Byte(a + k - 1) * ByteBase^(k - 1)])
Written(a, n, w) == [x \in a..(a + n - 1) |-> (w \div ByteBase^(x - a)) % ByteBase] @@ mem

Init ==
  /\ id \in DOMAIN Images /\ junk \in Junk
  /\ pc = 1
  /\ reg = [r \in {"rax", "rbp"} \cup {REG_NAMES[k] : k \in DOMAIN REG_NAMES} |-> 0] @@ ("rsp" :> STACK)
  /\ mem = Images[id].data
  /\ calls = << >>
-----------------------------------------------------------------------------
Go == pc' = pc + 1 /\ UNCHANGED <<id, junk, calls>>
Set(r, w) == reg' = [reg EXCEPT ![r] = Wrap(w)]

PushWord(w) ==
  /\ mem' = Written(reg.rsp - 8, 8, w)
  /\ Set("rsp", reg.rsp - 8) /\ Go

\* One action per kind of instruction i.
push(i) == i.op = "push" /\ PushWord(reg[i.r])
pushi(i) == i.op = "pushi" /\ PushWord(Wrap(i.n))
pushtop(i) == i.op = "pushtop" /\ PushWord(Read(reg.rsp, 8))

pop(i) ==
  /\ i.op = "pop"
  /\ reg' = [reg EXCEPT !.rsp = Wrap(@ + 8), ![i.r] = Read(reg.rsp, 8)]
  /\ Go /\ UNCHANGED mem

mov(i) == i.op = "mov" /\ Set(i.r, reg[i.s]) /\ Go /\ UNCHANGED mem
addi(i) == i.op = "addi" /\ Set(i.r, reg[i.r] + i.n) /\ Go /\ UNCHANGED mem
scale(i) == i.op = "scale" /\ Set(i.r, Signed(reg[i.r]) * i.n) /\ Go /\ UNCHANGED mem
align(i) == i.op = "align" /\ Set("rsp", (reg.rsp \div 16) * 16) /\ Go /\ UNCHANGED mem
restore(i) == i.op = "restore" /\ Set("rsp", Read(reg.rsp + 8, 8)) /\ Go /\ UNCHANGED mem
symbol(i) == i.op = "symbol" /\ Set("rax", i.at) /\ Go /\ UNCHANGED mem
string(i) == i.op = "string" /\ Set("rax", i.at) /\ Go /\ UNCHANGED mem

\* movsx eax clears the upper half of rax.
load(i) ==
  /\ i.op = "load"
  /\ LET w == Read(reg[i.r], i.n)
     IN  Set(i.r, IF i.n = 1 /\ w >= ByteBase \div 2 THEN ByteBase^4 - ByteBase + w ELSE w)
  /\ Go /\ UNCHANGED mem

store(i) == i.op = "store" /\ mem' = Written(reg.rax, i.n, reg[i.r]) /\ Go /\ UNCHANGED reg

\* Division rounds towards zero.
Quotient(a, b) ==
  IF (a < 0) = (b < 0) THEN (IF a < 0 THEN -a ELSE a) \div (IF b < 0 THEN -b ELSE b)
  ELSE -((IF a < 0 THEN -a ELSE a) \div (IF b < 0 THEN -b ELSE b))

Bit(P) == IF P THEN 1 ELSE 0
Computed(op, a, b) ==
  CASE op = "ADD" -> a + b [] op = "SUB" -> a - b [] op = "MUL" -> a * b
    [] op = "DIV" -> Quotient(a, b)
    [] op = "EQU" -> Bit(a = b) [] op = "NEQ" -> Bit(a # b)
    [] op = "LES" -> Bit(a < b) [] op = "LEQ" -> Bit(a <= b)

compute(i) ==
  /\ i.op \in {"ADD", "SUB", "MUL", "DIV", "EQU", "NEQ", "LES", "LEQ"}
  /\ Set("rax", Computed(i.op, Signed(reg.rax), Signed(reg.rdi)))
  /\ Go /\ UNCHANGED mem

jmp(i) == i.op = "jmp" /\ pc' = pc + i.to /\ UNCHANGED <<id, junk, reg, mem, calls>>
je(i) ==
  /\ i.op = "je"
  /\ pc' = pc + IF reg.rax = 0 THEN i.to ELSE 1
  /\ UNCHANGED <<id, junk, reg, mem, calls>>

call(i) ==
  /\ i.op = "call"
  /\ pc' = i.at
  /\ mem' = Written(reg.rsp - 8, 8, pc + 1)
  /\ Set("rsp", reg.rsp - 8)
  /\ calls' = <<[pc |-> pc + 1, rsp |-> reg.rsp, rbp |-> reg.rbp]>> \o calls
  /\ UNCHANGED <<id, junk>>

ret(i) ==
  /\ i.op = "ret"
  /\ pc' = Read(reg.rsp, 8)
  /\ Set("rsp", reg.rsp + 8)
  /\ calls' = Tail(calls)
  /\ UNCHANGED <<id, junk, mem>>

\* A function of another compiler may change every register it need not keep.
foreign(i) ==
  /\ i.op = "foreign"
  /\ reg' = [r \in DOMAIN reg |-> IF r = "rax" THEN i.n
                                  ELSE IF r \in {"rsp", "rbp"} THEN reg[r] ELSE junk]
  /\ Go /\ UNCHANGED mem

Step(i) ==
  \/ push(i) \/ pushi(i) \/ pushtop(i) \/ pop(i)
  \/ mov(i) \/ addi(i) \/ scale(i) \/ align(i) \/ restore(i) \/ symbol(i) \/ string(i)
  \/ load(i) \/ store(i) \/ compute(i)
  \/ jmp(i) \/ je(i) \/ call(i) \/ ret(i) \/ foreign(i)

Next == \E code \in {Images[id].code} : pc \in DOMAIN code /\ Step(code[pc])

Spec == Init /\ [][Next]_vars /\ WF_vars(Next)
-----------------------------------------------------------------------------
(* Properties.                                                             *)

Fetch == Images[id].code[pc]
Op(op) == Fetch.op = op
Halted == pc = 2

\* The compiled program returns what the C program means (gen(), parse()).
Correct == Halted => reg.rax % ByteBase^4 = Meaning[id] % ByteBase^4

\* The stack is 16-aligned at every call, as the ABI asks (gen_fn_call()).
CallAligned == Op("call") => reg.rsp % 16 = 0

\* A return goes back behind the call it ends, with the stack and the frame
\* of the caller, whatever the stack held in between (gen_fn_def(),
\* ND_RETURN, gen_fn_call()).
Restored ==
  [][Len(calls') < Len(calls) =>
       pc' = Head(calls).pc /\ reg'.rsp = Head(calls).rsp /\ reg'.rbp = Head(calls).rbp]_vars

\* What expressions push stays below the local variables of the function, as
\* long as these leave room in the 208 bytes of the frame for one word per
\* value that the blocks of the program have popped and no statement left
\* (sub rsp, 208 in gen_fn_def() and the pops of ND_BLOCK).
BelowLocals ==
  LET k == Images[id].unit[pc]
      bytes == Images[id].bytes[k]
  IN  /\ Fetch.op \in {"push", "pushi", "pushtop", "call"}
      /\ pc >= Images[id].begin[k] + Len(Prologue)
      /\ bytes + 8 * Climb[id] <= FRAME
      => reg.rsp <= reg.rbp - bytes

\* When a block pops the value of a statement, the statement has pushed one:
\* the stack is back where the prologue left it (codegen.c:220, "pop
\* statement value to rax").
StatementValue ==
  Op("pop") /\ "value" \in DOMAIN Fetch => reg.rsp + 8 <= reg.rbp - FRAME

\* An assignment changes the object it assigns to and no byte behind it
\* (ND_ASSIGN and nbytes_type()).
StoreInObject ==
  [][Op("store") =>
       \A a \in DOMAIN mem \ (reg.rax..(reg.rax + Fetch.of - 1)) : mem'[a] = mem[a]]_vars

\* Every program ends.
Terminates == <>Halted
=============================================================================
