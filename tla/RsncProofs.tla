----------------------------- MODULE RsncProofs -----------------------------
(***************************************************************************)
(* The Rust netcat while the kernel takes every write() whole: it is then  *)
(* the relay of 2019/nc, and what RelayProofs says of the relay holds of   *)
(* it.  RsncShort.cfg shows what happens otherwise.                        *)
(***************************************************************************)
EXTENDS Rsnc, RelayProofs

\* write() takes all of buf[0..end].
WholeWrite(s) == RustWrite(s) /\ cur'[s] = cur[s] + Len(data[s])

WholeServe(s) == RustRead(s) \/ ReadEnd(s) \/ WholeWrite(s) \/ WriteEnd(s)
WholeNext ==
  World \/ \E p \in Proc : Select(p) \/ \E s \in Array(p) : WholeServe(s)
WholeSafe == Init /\ [][WholeNext]_vars

\* A sockbuf is untouched or drained, never in between, and one that waits to
\* be written is untouched: then buf[0..end] and buf[cur..end] are the same.
AllOrNothing ==
  /\ \A s \in Sockbuf : cur[s] = 0 \/ cur[s] = Len(data[s])
  /\ \A s \in wset : cur[s] = 0

LEMMA InitAll == Init => AllOrNothing
  BY DEF Init, AllOrNothing

\* A whole write is a write of the relay, and drains the sockbuf.
LEMMA WholeIsWrite ==
  ASSUME IInv, AllOrNothing, NEW s \in Sockbuf, WholeWrite(s)
  PROVE  Write(s) /\ AllOrNothing'
<1>1. PICK n \in 1..Len(data[s]) :
        /\ gone[outfd[s]] \/ n <= Room - Queued(outfd[s])
        /\ wr' = [wr EXCEPT ![outfd[s]] = @ \o FirstBytes(s, n)]
        /\ cur' = [cur EXCEPT ![s] = Advanced(s, n)]
  BY DEF WholeWrite, RustWrite
<1>2. /\ s \in wset /\ Turn(s) /\ wset' = wset \ {s}
      /\ UNCHANGED <<rd, shut, gone, reset, data, rset, run>>
  BY DEF WholeWrite, RustWrite
<1>3. /\ cur \in [Sockbuf -> Nat] /\ data \in [Sockbuf -> Seq(Byte)] /\ wset \subseteq Sockbuf
      /\ Len(data[s]) \in Nat
  BY DEF IInv, TypeOK
<1>4. cur[s] = 0
  BY <1>2 DEF AllOrNothing
<1>5. n = Len(data[s]) /\ cur'[s] = Len(data[s])
  BY <1>1, <1>3, <1>4 DEF WholeWrite, Advanced
<1>6. n \in 1..Pending(s) /\ FirstBytes(s, n) = NextBytes(s, n)
  BY <1>3, <1>4, <1>5 DEF Pending, FirstBytes, NextBytes
<1>7. Write(s)
  BY <1>1, <1>2, <1>6 DEF Write
<1>8. AllOrNothing'
  BY <1>1, <1>2, <1>3, <1>5 DEF AllOrNothing
<1> QED
  BY <1>7, <1>8

LEMMA WholeStep ==
  ASSUME IInv, AllOrNothing, [WholeNext]_vars
  PROVE  [Next]_vars /\ AllOrNothing'
<1> USE DEF AllOrNothing
<1>1. CASE UNCHANGED vars
  BY <1>1 DEF vars
<1>2. CASE World
  BY <1>2 DEF Next, World, Type, EndInput, Drain, CloseOutput
<1>3. ASSUME NEW p \in Proc, Select(p) PROVE [Next]_vars /\ AllOrNothing'
  <2>1. \A s \in ToWrite(p) : s \in Sockbuf /\ cur[s] # Len(data[s])
    BY ArrayAssumption DEF ToWrite, Array, sockbuf_empty, Pending, IInv, TypeOK
  <2>2. AllOrNothing'
    BY <1>3, <2>1 DEF Select
  <2> QED
    BY <1>3, <2>2 DEF Next, Step
<1>4. ASSUME NEW p \in Proc, NEW s \in Array(p), WholeServe(s)
      PROVE  [Next]_vars /\ AllOrNothing'
  <2>1. s \in Sockbuf
    BY ArrayAssumption DEF Array
  <2>2. CASE RustRead(s)
    <3>1. AllOrNothing'
      BY <2>1, <2>2 DEF RustRead, Read, IInv, TypeOK
    <3> QED
      BY <2>2, <3>1 DEF RustRead, Next, Step, Serve
  <2>3. CASE ReadEnd(s) \/ WriteEnd(s)
    <3>1. AllOrNothing'
      BY <2>3 DEF ReadEnd, WriteEnd, Leave
    <3> QED
      BY <2>3, <3>1 DEF Next, Step, Serve
  <2>4. CASE WholeWrite(s)
    BY <2>1, <2>4, WholeIsWrite DEF Next, Step, Serve
  <2> QED
    BY <1>4, <2>2, <2>3, <2>4 DEF WholeServe
<1> QED
  BY <1>1, <1>2, <1>3, <1>4 DEF WholeNext
-----------------------------------------------------------------------------
\* While every write() is taken whole, SockBuf (sockbuf.rs) and its loop do
\* nothing that sockbuf.c does not: each step is a step of Relay.
THEOREM WholeWritesRefine == WholeSafe => Safe
<1> DEFINE J == IInv /\ AllOrNothing
<1>1. Init => J
  BY InitInv, InitAll
<1>2. J /\ [WholeNext]_vars => [Next]_vars /\ J'
  BY WholeStep, StepInv
<1> HIDE DEF J
<1> QED
  BY <1>1, <1>2, PTL DEF WholeSafe, Safe

\* So the Rust netcat then loses, repeats and reorders nothing either.
THEOREM WholeWritesRelayed == WholeSafe => [](Relayed /\ WithinBuffer)
  BY WholeWritesRefine, FaithfulRelay, BufferBounds, PTL
=============================================================================
