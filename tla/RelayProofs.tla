---------------------------- MODULE RelayProofs -----------------------------
(***************************************************************************)
(* Proofs about Relay for every set of processes, every wiring of their    *)
(* sockbufs and every buffer size.                                         *)
(***************************************************************************)
EXTENDS Relay, SequenceTheorems, TLAPS

\* A queue is never read past its end, a sockbuf whose bit is set for reading
\* is drained, and the rest is what TypeOK, WithinBuffer and Relayed say.
IInv ==
  /\ TypeOK
  /\ \A c \in Chan : rd[c] <= Len(wr[c])
  /\ \A s \in rset : sockbuf_empty(s)
  /\ WithinBuffer
  /\ Relayed

\* Each sockbuf belongs to exactly one process.
LEMMA OwnerLemma ==
  ASSUME NEW s \in Sockbuf
  PROVE  Owner(s) \in Proc /\ s \in Array(Owner(s))
<1>1. \E p \in Proc : s \in Array(p)
  BY ArrayAssumption DEF Array
<1> QED
  BY <1>1 DEF Owner

\* A prefix that fits in the first of two sequences does not see the second.
LEMMA PrefixOfConcat ==
  ASSUME NEW S, NEW u \in Seq(S), NEW v \in Seq(S), NEW n \in Nat, n <= Len(u)
  PROVE  SubSeq(u \o v, 1, n) = SubSeq(u, 1, n)
<1>1. u \o v \in Seq(S) /\ Len(u \o v) = Len(u) + Len(v)
  BY ConcatProperties
<1>2. SubSeq(u \o v, 1, n) \in Seq(S) /\ Len(SubSeq(u \o v, 1, n)) = n
  BY <1>1, SubSeqProperties, SMT
<1>3. SubSeq(u, 1, n) \in Seq(S) /\ Len(SubSeq(u, 1, n)) = n
  BY SubSeqProperties, SMT
<1>4. \A i \in 1..n : SubSeq(u \o v, 1, n)[i] = SubSeq(u, 1, n)[i]
  BY <1>1, SubSeqProperties, ConcatProperties, SMT
<1> QED
  BY <1>2, <1>3, <1>4, SeqEqual

\* A sequence of at least n + k elements begins with its first n elements
\* followed by the next k.
LEMMA NextPiece ==
  ASSUME NEW S, NEW u \in Seq(S), NEW n \in Nat, NEW k \in Nat, n + k <= Len(u)
  PROVE  /\ SubSeq(u, n + 1, n + k) \in Seq(S)
         /\ Len(SubSeq(u, n + 1, n + k)) = k
         /\ SubSeq(u, 1, n) \o SubSeq(u, n + 1, n + k) = SubSeq(u, 1, n + k)
<1>1. Len(u) \in Nat /\ u \in [1..Len(u) -> S]
  BY LenProperties
<1>2. \A i \in (n + 1)..(n + k) : u[i] \in S
  BY <1>1, SMT
<1>3. SubSeq(u, n + 1, n + k) \in Seq(S) /\ Len(SubSeq(u, n + 1, n + k)) = k
  BY <1>2, SubSeqProperties, SMT
<1>4. n + k \in n..Len(u) /\ n \in 0..Len(u) /\ 1 \in 1..Len(u) + 1
  BY <1>1, SMT
<1> QED
  BY <1>3, <1>4, ConcatAdjacentSubSeq, SMT

\* The same for a piece taken out of the middle.
LEMMA SplitPiece ==
  ASSUME NEW S, NEW u \in Seq(S), NEW m \in Nat, NEW k \in Nat, m + k <= Len(u)
  PROVE  /\ SubSeq(u, m + 1, Len(u)) \in Seq(S)
         /\ SubSeq(u, m + k + 1, Len(u)) \in Seq(S)
         /\ SubSeq(u, m + 1, m + k) \o SubSeq(u, m + k + 1, Len(u))
              = SubSeq(u, m + 1, Len(u))
<1>1. Len(u) \in Nat /\ u \in [1..Len(u) -> S]
  BY LenProperties
<1>2. /\ \A i \in (m + 1)..Len(u) : u[i] \in S
      /\ \A i \in (m + k + 1)..Len(u) : u[i] \in S
  BY <1>1, SMT
<1>3. m + 1 \in 1..Len(u) + 1 /\ m + k \in (m + 1) - 1..Len(u) /\ Len(u) \in m + k..Len(u)
  BY <1>1, SMT
<1>4. SubSeq(u, m + 1, m + k) \o SubSeq(u, (m + k) + 1, Len(u)) = SubSeq(u, m + 1, Len(u))
  BY <1>3, ConcatAdjacentSubSeq
<1>5. SubSeq(u, m + 1, Len(u)) \in Seq(S) /\ SubSeq(u, m + k + 1, Len(u)) \in Seq(S)
  BY <1>1, <1>2, SubSeqProperties, SMT
<1> QED
  BY <1>4, <1>5

\* What a byte stream keeps when bytes are put behind those it has.
LEMMA Grow ==
  ASSUME TypeOK, \A d \in Chan : rd[d] <= Len(wr[d]),
         NEW c \in Chan, NEW x \in Seq(Byte), wr' = [wr EXCEPT ![c] = @ \o x]
  PROVE  /\ wr' \in [Chan -> Seq(Byte)]
         /\ wr'[c] = wr[c] \o x /\ \A d \in Chan : d # c => wr'[d] = wr[d]
         /\ \A d \in Chan : rd[d] <= Len(wr'[d])
         /\ \A d \in Chan : SubSeq(wr'[d], 1, rd[d]) = SubSeq(wr[d], 1, rd[d])
<1>1. wr \in [Chan -> Seq(Byte)] /\ rd \in [Chan -> Nat]
  BY DEF TypeOK
<1>2. wr[c] \in Seq(Byte) /\ rd[c] \in Nat /\ rd[c] <= Len(wr[c])
  BY <1>1
<1>3. wr[c] \o x \in Seq(Byte) /\ Len(wr[c] \o x) = Len(wr[c]) + Len(x)
  BY <1>2, ConcatProperties
<1>4. Len(x) \in Nat /\ Len(wr[c]) \in Nat
  BY <1>2, LenProperties
<1>5. wr' \in [Chan -> Seq(Byte)]
  BY <1>1, <1>3
<1>6. wr'[c] = wr[c] \o x /\ \A d \in Chan : d # c => wr'[d] = wr[d]
  BY <1>1
<1>7. rd[c] <= Len(wr'[c])
  BY <1>2, <1>3, <1>4, <1>6, SMT
<1>8. SubSeq(wr'[c], 1, rd[c]) = SubSeq(wr[c], 1, rd[c])
  BY <1>2, <1>6, PrefixOfConcat
<1> QED
  BY <1>5, <1>6, <1>7, <1>8

LEMMA Associative ==
  ASSUME NEW u \in Seq(Byte), NEW v \in Seq(Byte), NEW w \in Seq(Byte)
  PROVE  (u \o v) \o w = u \o (v \o w)
BY SMTT(30)

LEMMA InitInv == Init => IInv
<1> SUFFICES ASSUME Init PROVE IInv
  OBVIOUS
<1> USE WiringAssumption, SizeAssumption DEF Init
<1>1. << >> \in Seq(Byte) /\ Len(<< >>) = 0
  BY EmptySeq
<1>2. TypeOK
  BY <1>1 DEF TypeOK
<1>3. WithinBuffer
  BY <1>1 DEF WithinBuffer
<1>4. Relayed
  <2>1. ASSUME NEW s \in Sockbuf
        PROVE  wr[outfd[s]] \o SubSeq(data[s], cur[s] + 1, Len(data[s]))
                 = SubSeq(wr[infd[s]], 1, rd[infd[s]])
    <3>1. wr[outfd[s]] = << >> /\ data[s] = << >> /\ cur[s] = 0
          /\ wr[infd[s]] = << >> /\ rd[infd[s]] = 0
      OBVIOUS
    <3>2. SubSeq(<< >>, 0 + 1, 0) = << >> /\ SubSeq(<< >>, 1, 0) = << >>
      BY SubSeqEmpty, SMT
    <3> QED
      BY <1>1, <3>1, <3>2, ConcatEmptySeq
  <2> QED
    BY <2>1 DEF Relayed
<1> QED
  BY <1>1, <1>2, <1>3, <1>4 DEF IInv

\* read() into a drained sockbuf: what it takes out of the stream is what the
\* sockbuf then holds.
LEMMA ReadInv == ASSUME IInv, NEW s \in Sockbuf, Read(s) PROVE IInv'
<1>1. PICK n \in 1..Minimum(cap, Queued(infd[s])) :
        /\ data' = [data EXCEPT ![s] = SubSeq(wr[infd[s]], rd[infd[s]] + 1, rd[infd[s]] + n)]
        /\ rd' = [rd EXCEPT ![infd[s]] = @ + n]
  BY DEF Read
<1>2. /\ s \in rset /\ cur' = [cur EXCEPT ![s] = 0] /\ rset' = rset \ {s}
      /\ UNCHANGED <<wr, shut, gone, reset, wset, run>>
  BY DEF Read
<1>3. PICK c \in Chan : c = infd[s]
  BY WiringAssumption
<1>4. /\ TypeOK /\ \A d \in Chan : rd[d] <= Len(wr[d])
      /\ \A t \in rset : sockbuf_empty(t)
  BY DEF IInv
<1>5. wr[c] \in Seq(Byte) /\ rd[c] \in Nat /\ rd[c] <= Len(wr[c]) /\ Len(wr[c]) \in Nat
  BY <1>3, <1>4, LenProperties DEF TypeOK
<1>6. n \in Nat /\ n <= cap /\ rd[c] + n <= Len(wr[c])
  BY <1>1, <1>3, <1>5, SizeAssumption, SMT DEF Minimum, Queued
<1>7. PICK piece \in Seq(Byte) :
        /\ piece = SubSeq(wr[c], rd[c] + 1, rd[c] + n) /\ Len(piece) = n
        /\ SubSeq(wr[c], 1, rd[c]) \o piece = SubSeq(wr[c], 1, rd[c] + n)
  <2>1. /\ SubSeq(wr[c], rd[c] + 1, rd[c] + n) \in Seq(Byte)
        /\ Len(SubSeq(wr[c], rd[c] + 1, rd[c] + n)) = n
        /\ SubSeq(wr[c], 1, rd[c]) \o SubSeq(wr[c], rd[c] + 1, rd[c] + n)
             = SubSeq(wr[c], 1, rd[c] + n)
    BY <1>5, <1>6, NextPiece
  <2> QED
    BY <2>1, Zenon
<1>8. data' = [data EXCEPT ![s] = piece] /\ rd' = [rd EXCEPT ![c] = @ + n]
  BY <1>1, <1>3, <1>7
<1>9. data'[s] = piece /\ cur'[s] = 0 /\ rd'[c] = rd[c] + n
  BY <1>2, <1>3, <1>4, <1>8 DEF TypeOK
<1>10. TypeOK'
  <2>1. data' \in [Sockbuf -> Seq(Byte)]
    BY <1>4, <1>7, <1>8 DEF TypeOK
  <2>2. rd' \in [Chan -> Nat] /\ cur' \in [Sockbuf -> Nat]
    BY <1>2, <1>4, <1>5, <1>6, <1>8 DEF TypeOK
  <2> QED
    BY <1>2, <1>4, <2>1, <2>2 DEF TypeOK
<1>11. \A d \in Chan : rd'[d] <= Len(wr'[d])
  BY <1>2, <1>4, <1>6, <1>8, <1>9 DEF TypeOK
<1>12. \A t \in rset' : sockbuf_empty(t)'
  BY <1>2, <1>4, <1>8 DEF TypeOK, sockbuf_empty, Pending
<1>13. WithinBuffer'
  <2>1. \A t \in Sockbuf : t # s => data'[t] = data[t] /\ cur'[t] = cur[t]
    BY <1>2, <1>4, <1>8 DEF TypeOK
  <2>2. cur'[s] <= Len(data'[s]) /\ Len(data'[s]) <= cap
    BY <1>6, <1>7, <1>9, SMT
  <2> QED
    BY <2>1, <2>2 DEF IInv, WithinBuffer
<1>14. Relayed'
  <2>1. ASSUME NEW t \in Sockbuf
        PROVE  wr[outfd[t]] \o SubSeq(data'[t], cur'[t] + 1, Len(data'[t]))
                 = SubSeq(wr[infd[t]], 1, rd'[infd[t]])
    <3>0. wr[outfd[t]] \o SubSeq(data[t], cur[t] + 1, Len(data[t]))
            = SubSeq(wr[infd[t]], 1, rd[infd[t]])
      BY DEF IInv, Relayed
    <3>1. CASE t # s
      <4>1. infd[t] \in Chan /\ infd[t] # c
        BY <1>3, <3>1, WiringAssumption
      <4>2. rd'[infd[t]] = rd[infd[t]]
        BY <1>4, <1>8, <4>1 DEF TypeOK
      <4>3. data'[t] = data[t] /\ cur'[t] = cur[t]
        BY <1>2, <1>4, <1>8, <3>1 DEF TypeOK
      <4> QED
        BY <3>0, <4>2, <4>3
    <3>2. CASE t = s
      <4>1. cur[s] = Len(data[s]) /\ cur[s] \in Nat
        BY <1>2, <1>4, LenProperties DEF TypeOK, sockbuf_empty, Pending
      <4>2. SubSeq(data[s], cur[s] + 1, Len(data[s])) = << >>
        BY <4>1, SubSeqEmpty, SMT
      <4>3. wr[outfd[s]] \in Seq(Byte)
        BY <1>4, WiringAssumption DEF TypeOK
      <4>4. wr[outfd[s]] = SubSeq(wr[c], 1, rd[c])
        BY <1>3, <3>0, <3>2, <4>2, <4>3, ConcatEmptySeq
      <4>5. SubSeq(piece, 1, Len(piece)) = piece
        BY <1>7, SubSeqFull
      <4>6. SubSeq(data'[s], cur'[s] + 1, Len(data'[s])) = piece
        BY <1>9, <4>5, SMT
      <4> QED
        BY <1>3, <1>7, <1>9, <3>2, <4>4, <4>6
    <3> QED
      BY <3>1, <3>2
  <2> QED
    BY <1>2, <2>1 DEF Relayed
<1> QED
  BY <1>10, <1>11, <1>12, <1>13, <1>14 DEF IInv

\* write() of any part of what is pending: the stream grows by exactly what
\* cur moves over.
LEMMA WriteInv == ASSUME IInv, NEW s \in Sockbuf, Write(s) PROVE IInv'
<1>1. PICK n \in 1..Pending(s) :
        /\ wr' = [wr EXCEPT ![outfd[s]] = @ \o SubSeq(data[s], cur[s] + 1, cur[s] + n)]
        /\ cur' = [cur EXCEPT ![s] = @ + n]
  BY DEF Write, Advanced, NextBytes
<1>2. /\ wset' = wset \ {s}
      /\ UNCHANGED <<rd, shut, gone, reset, data, rset, run>>
  BY DEF Write
<1>3. /\ TypeOK /\ \A d \in Chan : rd[d] <= Len(wr[d])
      /\ \A t \in rset : sockbuf_empty(t)
  BY DEF IInv
<1>4. outfd[s] \in Chan /\ infd[s] \in Chan
  BY WiringAssumption
<1>5. data[s] \in Seq(Byte) /\ cur[s] \in Nat /\ Len(data[s]) \in Nat
  BY <1>3, LenProperties DEF TypeOK
<1>6. n \in Nat /\ n > 0 /\ cur[s] + n <= Len(data[s])
  BY <1>5, SMT DEF Pending
<1>7. PICK piece \in Seq(Byte) : piece = SubSeq(data[s], cur[s] + 1, cur[s] + n)
  BY <1>5, <1>6, NextPiece
<1>8. wr' = [wr EXCEPT ![outfd[s]] = @ \o piece]
  BY <1>1, <1>7
<1>9. /\ wr' \in [Chan -> Seq(Byte)]
      /\ wr'[outfd[s]] = wr[outfd[s]] \o piece
      /\ \A d \in Chan : d # outfd[s] => wr'[d] = wr[d]
      /\ \A d \in Chan : rd[d] <= Len(wr'[d])
      /\ \A d \in Chan : SubSeq(wr'[d], 1, rd[d]) = SubSeq(wr[d], 1, rd[d])
  BY <1>3, <1>4, <1>8, Grow
<1>10. cur' \in [Sockbuf -> Nat] /\ cur'[s] = cur[s] + n
  BY <1>1, <1>3, <1>5, <1>6 DEF TypeOK
<1>11. TypeOK'
  BY <1>2, <1>3, <1>9, <1>10 DEF TypeOK
<1>12. \A t \in rset' : sockbuf_empty(t)'
  BY <1>1, <1>2, <1>3, <1>5, <1>6 DEF TypeOK, sockbuf_empty, Pending
<1>13. WithinBuffer'
  BY <1>1, <1>2, <1>3, <1>6, <1>10 DEF IInv, TypeOK, WithinBuffer
<1>14. Relayed'
  <2>1. ASSUME NEW t \in Sockbuf
        PROVE  wr'[outfd[t]] \o SubSeq(data[t], cur'[t] + 1, Len(data[t]))
                 = SubSeq(wr[infd[t]], 1, rd[infd[t]])
    <3>0. wr[outfd[t]] \o SubSeq(data[t], cur[t] + 1, Len(data[t]))
            = SubSeq(wr[infd[t]], 1, rd[infd[t]])
      BY DEF IInv, Relayed
    <3>1. CASE t # s
      <4>1. outfd[t] \in Chan /\ outfd[t] # outfd[s]
        BY <3>1, WiringAssumption
      <4>2. wr'[outfd[t]] = wr[outfd[t]]
        BY <1>9, <4>1
      <4>3. cur'[t] = cur[t]
        BY <1>1, <1>3, <3>1, SMTT(20) DEF TypeOK
      <4> QED
        BY <3>0, <4>2, <4>3
    <3>2. CASE t = s
      <4>1. PICK rest \in Seq(Byte) : rest = SubSeq(data[s], cur[s] + n + 1, Len(data[s]))
        BY <1>5, <1>6, SplitPiece
      <4>2. piece \o rest = SubSeq(data[s], cur[s] + 1, Len(data[s]))
        BY <1>5, <1>6, <1>7, <4>1, SplitPiece
      <4>3. wr[outfd[s]] \in Seq(Byte)
        BY <1>3, <1>4 DEF TypeOK
      <4>4. (wr[outfd[s]] \o piece) \o rest = wr[outfd[s]] \o (piece \o rest)
        <5>1. piece \in Seq(Byte) /\ rest \in Seq(Byte)
          BY <1>5, <1>6, <1>7, <4>1, NextPiece, SplitPiece
        <5> QED
          BY <4>3, <5>1, Associative, Zenon
      <4> QED
        BY <1>9, <1>10, <3>0, <3>2, <4>1, <4>2, <4>4
    <3> QED
      BY <3>1, <3>2
  <2> QED
    BY <1>2, <1>9, <2>1, WiringAssumption DEF Relayed
<1> QED
  BY <1>2, <1>9, <1>11, <1>12, <1>13, <1>14 DEF IInv

\* Ending the process closes streams but moves no byte.
LEMMA LeaveInv == ASSUME IInv, NEW p \in Proc, Leave(p) PROVE IInv'
<1> USE WiringAssumption, ArrayAssumption DEF Leave
<1>1. sbs[p][1] \in Sockbuf /\ outfd[sbs[p][1]] \in Chan
  OBVIOUS
<1>2. TypeOK'
  BY <1>1, SMTT(20) DEF IInv, TypeOK
<1> QED
  BY <1>2 DEF IInv, WithinBuffer, Relayed, sockbuf_empty, Pending

LEMMA SelectInv == ASSUME IInv, NEW p \in Proc, Select(p) PROVE IInv'
<1> USE ArrayAssumption
<1>1. Array(p) \subseteq Sockbuf
  BY DEF Array
<1>2. /\ rset' \subseteq rset \cup {s \in Array(p) : sockbuf_empty(s)}
      /\ wset' \subseteq wset \cup Array(p)
      /\ UNCHANGED <<chanVars, data, cur, run>>
  BY DEF Select, ToRead, ToWrite
<1>3. TypeOK'
  BY <1>1, <1>2 DEF IInv, TypeOK, chanVars
<1> QED
  BY <1>2, <1>3 DEF IInv, WithinBuffer, Relayed, sockbuf_empty, Pending, chanVars

\* The outside world writes only to streams no sockbuf writes to and reads
\* only from streams no sockbuf reads from.
LEMMA WorldInv == ASSUME IInv, World PROVE IInv'
<1> USE WiringAssumption, SizeAssumption
<1>1. ASSUME NEW c \in Sources, Type(c) PROVE IInv'
  <2>1. c \in Chan /\ \A s \in Sockbuf : outfd[s] # c
    BY DEF Sources
  <2>2. TypeOK /\ (\A d \in Chan : rd[d] <= Len(wr[d])) /\ wr[c] \in Seq(Byte)
    BY <2>1 DEF IInv, TypeOK
  <2>3. Len(wr[c]) \in Nat
    BY <2>2, LenProperties
  <2>4. PICK b \in Byte : b = <<c, Len(wr[c]) + 1>>
    <3>1. Len(wr[c]) + 1 \in Nat
      BY <2>3, SMT
    <3> QED
      BY <2>1, <3>1, Zenon DEF Byte
  <2>5. /\ wr' = [wr EXCEPT ![c] = Append(@, b)]
        /\ UNCHANGED <<rd, shut, gone, reset, data, cur, rset, wset, run>>
    BY <1>1, <2>4 DEF Type
  <2>6. <<b>> \in Seq(Byte) /\ Append(wr[c], b) = wr[c] \o <<b>>
    <3>1. Append(wr[c], b) = wr[c] \o <<b>>
      BY <2>2, <2>4, AppendIsConcat, Zenon
    <3>2. <<b>> \in Seq(Byte)
      BY <2>4
    <3> QED
      BY <3>1, <3>2
  <2>7. wr' = [wr EXCEPT ![c] = @ \o <<b>>]
    BY <2>5, <2>6
  <2>8. /\ wr' \in [Chan -> Seq(Byte)]
        /\ \A d \in Chan : d # c => wr'[d] = wr[d]
        /\ \A d \in Chan : rd[d] <= Len(wr'[d])
        /\ \A d \in Chan : SubSeq(wr'[d], 1, rd[d]) = SubSeq(wr[d], 1, rd[d])
    BY <2>1, <2>2, <2>6, <2>7, Grow
  <2>9. TypeOK'
    BY <2>2, <2>5, <2>8 DEF TypeOK
  <2>10. \A s \in Sockbuf : wr'[outfd[s]] = wr[outfd[s]]
    BY <2>1, <2>8, WiringAssumption
  <2>11. Relayed'
    BY <2>5, <2>8, <2>10, WiringAssumption DEF IInv, Relayed
  <2> QED
    BY <2>5, <2>8, <2>9, <2>11 DEF IInv, WithinBuffer, sockbuf_empty, Pending
<1>2. ASSUME NEW c \in Sinks, Drain(c) PROVE IInv'
  <2>1. /\ c \in Chan /\ \A s \in Sockbuf : infd[s] # c
        /\ rd[c] \in Nat /\ Len(wr[c]) \in Nat
    BY <1>2, LenProperties DEF Sinks, IInv, TypeOK
  <2>2. /\ Queued(c) > 0 /\ rd' = [rd EXCEPT ![c] = @ + 1]
        /\ UNCHANGED <<wr, shut, gone, reset, data, cur, rset, wset, run>>
    BY <1>2 DEF Drain
  <2>3. rd[c] + 1 <= Len(wr[c])
    BY <2>1, <2>2, SMT DEF Queued
  <2>4. TypeOK'
    BY <2>1, <2>2 DEF IInv, TypeOK
  <2>5. \A d \in Chan : rd'[d] <= Len(wr'[d])
    BY <2>1, <2>2, <2>3 DEF IInv, TypeOK
  <2>6. \A s \in Sockbuf : rd'[infd[s]] = rd[infd[s]]
    BY <2>1, <2>2 DEF IInv, TypeOK
  <2> QED
    BY <2>2, <2>4, <2>5, <2>6 DEF IInv, WithinBuffer, Relayed, sockbuf_empty, Pending
<1>3. ASSUME NEW c \in Chan, EndInput(c) \/ CloseOutput(c) PROVE IInv'
  <2>1. UNCHANGED <<wr, rd, reset, data, cur, rset, wset, run>>
    BY <1>3 DEF EndInput, CloseOutput
  <2>2. TypeOK'
    BY <1>3, <2>1 DEF IInv, TypeOK, EndInput, CloseOutput
  <2> QED
    BY <2>1, <2>2 DEF IInv, WithinBuffer, Relayed, sockbuf_empty, Pending
<1> QED
  BY <1>1, <1>2, <1>3 DEF World, Sources, Sinks

LEMMA StepInv == IInv /\ [Next]_vars => IInv'
<1> SUFFICES ASSUME IInv, [Next]_vars PROVE IInv'
  OBVIOUS
<1>1. ASSUME NEW p \in Proc, NEW s \in Array(p), Serve(s) PROVE IInv'
  <2>1. s \in Sockbuf
    BY ArrayAssumption DEF Array
  <2> QED
    BY <1>1, <2>1, OwnerLemma, ReadInv, WriteInv, LeaveInv DEF Serve, ReadEnd, WriteEnd
<1>2. CASE UNCHANGED vars
  BY <1>2 DEF vars, IInv, TypeOK, WithinBuffer, Relayed, sockbuf_empty, Pending
<1> QED
  BY <1>1, <1>2, SelectInv, WorldInv DEF Next, Step
-----------------------------------------------------------------------------
THEOREM Invariance == Safe => []IInv
<1> QED
  BY InitInv, StepInv, PTL DEF Safe

\* Every variable of the relay keeps its type.
THEOREM TypeCorrect == Safe => []TypeOK
<1>1. IInv => TypeOK
  BY DEF IInv
<1> QED
  BY <1>1, Invariance, PTL

\* The comments on struct sockbuf hold for every buffer size: cur never
\* passes end and end never passes the buffer.
THEOREM BufferBounds == Safe => []WithinBuffer
<1>1. IInv => WithinBuffer
  BY DEF IInv
<1> QED
  BY <1>1, Invariance, PTL

\* handle_connection() relays faithfully, whatever the kernel reads short,
\* writes short or closes, and however many processes are wired together.
THEOREM FaithfulRelay == Safe => []Relayed
<1>1. IInv => Relayed
  BY DEF IInv
<1> QED
  BY <1>1, Invariance, PTL
-----------------------------------------------------------------------------
(* A chain of two relays implements Stream.                                *)

\* Sockbufs s and t, the first of which feeds the second, as the stream of
\* bytes between the people at the two far ends.
Link(s, t) == INSTANCE Stream WITH sent <- wr[infd[s]], got <- wr[outfd[t]]

Prefix(u, v) == Len(u) <= Len(v) /\ SubSeq(v, 1, Len(u)) = u

LEMMA PrefixRefl == ASSUME NEW S, NEW u \in Seq(S) PROVE Prefix(u, u)
BY SubSeqFull, LenProperties, SMT DEF Prefix

LEMMA PrefixExtend == ASSUME NEW S, NEW u \in Seq(S), NEW x \in Seq(S) PROVE Prefix(u, u \o x)
<1>1. Len(u) \in Nat /\ Len(x) \in Nat /\ Len(u \o x) = Len(u) + Len(x)
  BY LenProperties, ConcatProperties
<1>2. SubSeq(u \o x, 1, Len(u)) = SubSeq(u, 1, Len(u))
  BY <1>1, PrefixOfConcat
<1> QED
  BY <1>1, <1>2, SubSeqFull, SMT DEF Prefix

LEMMA PrefixTrans ==
  ASSUME NEW S, NEW u \in Seq(S), NEW v \in Seq(S), NEW w \in Seq(S),
         Prefix(u, v), Prefix(v, w)
  PROVE  Prefix(u, w)
<1>1. Len(u) \in Nat /\ Len(v) \in Nat /\ Len(w) \in Nat /\ u \in [1..Len(u) -> S]
      /\ v \in [1..Len(v) -> S] /\ w \in [1..Len(w) -> S]
  BY LenProperties
<1>2. Len(u) <= Len(v) /\ Len(v) <= Len(w)
  BY DEF Prefix
<1>3. \A i \in 1..Len(u) : v[i] = u[i]
  BY <1>1, <1>2, SubSeqProperties, SMT DEF Prefix
<1>4. \A i \in 1..Len(v) : w[i] = v[i]
  BY <1>1, <1>2, SubSeqProperties, SMT DEF Prefix
<1>5. \A i \in 1..Len(u) : w[i] = u[i] /\ w[i] \in S
  BY <1>1, <1>2, <1>3, <1>4, SMT
<1>6. /\ SubSeq(w, 1, Len(u)) \in Seq(S) /\ Len(SubSeq(w, 1, Len(u))) = Len(u)
      /\ \A i \in 1..Len(u) : SubSeq(w, 1, Len(u))[i] = w[i]
  BY <1>1, <1>5, SubSeqProperties, SMT
<1>7. SubSeq(w, 1, Len(u)) = u
  BY <1>5, <1>6, SeqEqual
<1> QED
  BY <1>1, <1>2, <1>7, SMT DEF Prefix

\* What one sockbuf has written is a prefix of what was put into its input.
LEMMA HopPrefix ==
  ASSUME IInv, NEW r \in Sockbuf
  PROVE  Prefix(wr[outfd[r]], wr[infd[r]])
<1>1. /\ wr[infd[r]] \in Seq(Byte) /\ wr[outfd[r]] \in Seq(Byte) /\ data[r] \in Seq(Byte)
      /\ rd[infd[r]] \in Nat /\ rd[infd[r]] <= Len(wr[infd[r]])
      /\ cur[r] \in Nat /\ cur[r] <= Len(data[r])
  BY WiringAssumption DEF IInv, TypeOK, WithinBuffer
<1>2. PICK rest \in Seq(Byte) : rest = SubSeq(data[r], cur[r] + 1, Len(data[r]))
  <2>1. cur[r] + 0 <= Len(data[r])
    BY <1>1, SMT
  <2>2. SubSeq(data[r], cur[r] + 1, Len(data[r])) \in Seq(Byte)
    BY <1>1, <2>1, SplitPiece
  <2> QED
    BY <2>2
<1>3. wr[outfd[r]] \o rest = SubSeq(wr[infd[r]], 1, rd[infd[r]])
  BY <1>2 DEF IInv, Relayed
<1>4. PICK taken \in Seq(Byte) : taken = SubSeq(wr[infd[r]], 1, rd[infd[r]])
                                 /\ Len(taken) = rd[infd[r]]
  <2>1. /\ SubSeq(wr[infd[r]], 0 + 1, 0 + rd[infd[r]]) \in Seq(Byte)
        /\ Len(SubSeq(wr[infd[r]], 0 + 1, 0 + rd[infd[r]])) = rd[infd[r]]
    BY <1>1, NextPiece, SMT
  <2>2. 0 + 1 = 1 /\ 0 + rd[infd[r]] = rd[infd[r]]
    BY <1>1, SMT
  <2> QED
    BY <2>1, <2>2
<1>5. Prefix(taken, wr[infd[r]])
  BY <1>1, <1>4 DEF Prefix
<1>6. Prefix(wr[outfd[r]], taken)
  BY <1>1, <1>2, <1>3, <1>4, PrefixExtend
<1> QED
  BY <1>1, <1>4, <1>5, <1>6, PrefixTrans

HopPrefixes == \A r \in Sockbuf : Prefix(wr[outfd[r]], wr[infd[r]])

LEMMA HopsPrefix == IInv => HopPrefixes
BY HopPrefix DEF HopPrefixes

\* A step puts bytes behind those of one stream at most.
LEMMA OneWriter ==
  ASSUME IInv, [Next]_vars
  PROVE  \/ wr' = wr
         \/ \E c \in Chan : /\ Prefix(wr[c], wr'[c])
                            /\ \A d \in Chan : d # c => wr'[d] = wr[d]
<1> DEFINE Grown == \E c \in Chan : /\ Prefix(wr[c], wr'[c])
                                    /\ \A d \in Chan : d # c => wr'[d] = wr[d]
<1>1. /\ TypeOK /\ \A d \in Chan : rd[d] <= Len(wr[d])
      /\ wr \in [Chan -> Seq(Byte)]
  BY DEF IInv, TypeOK
<1>2. ASSUME NEW c \in Chan, NEW x \in Seq(Byte), wr' = [wr EXCEPT ![c] = @ \o x] PROVE Grown
  <2>1. wr'[c] = wr[c] \o x /\ \A d \in Chan : d # c => wr'[d] = wr[d]
    BY <1>1, <1>2, Grow
  <2>2. Prefix(wr[c], wr[c] \o x)
    BY <1>1, PrefixExtend
  <2> QED
    BY <2>1, <2>2
<1>3. ASSUME NEW s \in Sockbuf, Write(s) PROVE Grown
  <2>1. PICK n \in 1..Pending(s) :
          wr' = [wr EXCEPT ![outfd[s]] = @ \o SubSeq(data[s], cur[s] + 1, cur[s] + n)]
    BY <1>3 DEF Write, NextBytes
  <2>2. data[s] \in Seq(Byte) /\ cur[s] \in Nat /\ Len(data[s]) \in Nat /\ outfd[s] \in Chan
    BY <1>1, LenProperties, WiringAssumption DEF TypeOK
  <2>3. n \in Nat /\ cur[s] + n <= Len(data[s])
    BY <2>2, SMT DEF Pending
  <2>4. SubSeq(data[s], cur[s] + 1, cur[s] + n) \in Seq(Byte)
    BY <2>2, <2>3, NextPiece
  <2> HIDE DEF Grown
  <2> QED
    BY <1>2, <2>1, <2>2, <2>4
<1>4. ASSUME NEW c \in Chan, Type(c) PROVE Grown
  <2>1. Len(wr[c]) + 1 \in Nat /\ wr[c] \in Seq(Byte)
    BY <1>1, LenProperties
  <2>2. PICK b \in Byte : b = <<c, Len(wr[c]) + 1>>
    BY <2>1, Zenon DEF Byte
  <2>3. Append(wr[c], b) = wr[c] \o <<b>>
    BY <2>1, <2>2, AppendIsConcat, Zenon
  <2>4. wr' = [wr EXCEPT ![c] = @ \o <<b>>]
    BY <1>4, <2>2, <2>3 DEF Type
  <2>5. <<b>> \in Seq(Byte)
    BY <2>2
  <2> HIDE DEF Grown
  <2> QED
    BY <1>2, <2>4, <2>5
<1> HIDE DEF Grown
<1>5. ASSUME NEW p \in Proc, Step(p) PROVE wr' = wr \/ Grown
  <2>1. CASE Select(p)
    BY <2>1 DEF Select, chanVars
  <2>2. ASSUME NEW s \in Array(p), Serve(s) PROVE wr' = wr \/ Grown
    <3>1. s \in Sockbuf
      BY ArrayAssumption DEF Array
    <3>2. CASE Write(s)
      BY <1>3, <3>1, <3>2
    <3>3. CASE Read(s)
      BY <3>3 DEF Read
    <3>4. CASE Leave(Owner(s))
      BY <3>4 DEF Leave
    <3> QED
      BY <2>2, <3>2, <3>3, <3>4 DEF Serve, ReadEnd, WriteEnd
  <2> QED
    BY <1>5, <2>1, <2>2 DEF Step
<1>6. ASSUME World PROVE wr' = wr \/ Grown
  BY <1>4, <1>6 DEF World, Sources, Sinks, EndInput, Drain, CloseOutput
<1>7. ASSUME UNCHANGED vars PROVE wr' = wr
  BY <1>7 DEF vars
<1>8. wr' = wr \/ Grown
  BY <1>5, <1>6, <1>7 DEF Next
<1> QED
  BY <1>8 DEF Grown

LEMMA LinkStep ==
  ASSUME IInv, IInv', [Next]_vars, NEW s \in Sockbuf, NEW t \in Sockbuf,
         outfd[s] = infd[t], infd[s] # outfd[t]
  PROVE  [Link(s, t)!Next]_<<wr[infd[s]], wr[outfd[t]]>>
<1>1. infd[s] \in Chan /\ outfd[t] \in Chan /\ outfd[s] \in Chan
  BY WiringAssumption
<1>2. wr \in [Chan -> Seq(Byte)] /\ wr' \in [Chan -> Seq(Byte)]
  BY DEF IInv, TypeOK
<1>3. Prefix(wr'[outfd[t]], wr'[infd[s]])
  <2>0. HopPrefixes'
    BY HopsPrefix, PTL
  <2>1. Prefix(wr'[outfd[s]], wr'[infd[s]]) /\ Prefix(wr'[outfd[t]], wr'[infd[t]])
    BY <2>0 DEF HopPrefixes, Prefix
  <2> QED
    BY <1>1, <1>2, <2>1, PrefixTrans
<1>4. CASE wr' = wr
  BY <1>4
<1>5. ASSUME NEW c \in Chan, Prefix(wr[c], wr'[c]), \A d \in Chan : d # c => wr'[d] = wr[d]
      PROVE  [Link(s, t)!Next]_<<wr[infd[s]], wr[outfd[t]]>>
  <2>1. CASE c = infd[s]
    BY <1>1, <1>5, <2>1 DEF Link!Next, Link!Put, Link!Prefix, Prefix
  <2>2. CASE c = outfd[t]
    BY <1>1, <1>3, <1>5, <2>2 DEF Link!Next, Link!Get, Link!Prefix, Prefix
  <2>3. CASE c # infd[s] /\ c # outfd[t]
    BY <1>1, <1>5, <2>3
  <2> QED
    BY <2>1, <2>2, <2>3
<1> QED
  BY <1>4, <1>5, OneWriter

\* Two relays in a row implement one stream: whatever either of them, the
\* kernel or the two users do, what comes out at the far end is what was
\* typed, in order, without gaps and without repeats.
THEOREM EndToEndStream ==
  ASSUME NEW s \in Sockbuf, NEW t \in Sockbuf, outfd[s] = infd[t], infd[s] # outfd[t]
  PROVE  Safe => Link(s, t)!Spec
<1>1. Init => Link(s, t)!Init
  BY WiringAssumption DEF Init, Link!Init
<1>2. IInv /\ IInv' /\ [Next]_vars => [Link(s, t)!Next]_<<wr[infd[s]], wr[outfd[t]]>>
  BY LinkStep
<1> QED
  BY <1>1, <1>2, Invariance, PTL DEF Safe, Link!Spec, Link!vars
-----------------------------------------------------------------------------
(* A bit that select() set stays good until the for loop comes to it.      *)

\* A stream never loses what was written to it.
LEMMA Grows == ASSUME IInv, [Next]_vars, NEW c \in Chan PROVE Len(wr[c]) <= Len(wr'[c])
<1>1. wr \in [Chan -> Seq(Byte)]
  BY DEF IInv, TypeOK
<1>2. Len(wr[c]) \in Nat
  BY <1>1, LenProperties
<1> QED
  BY <1>2, OneWriter DEF Prefix

LEMMA BlockStep ==
  ASSUME IInv, IInv', NeverBlocks, [Next]_vars
  PROVE  NeverBlocks'
<1>1. /\ rset \subseteq Sockbuf /\ wset \subseteq Sockbuf
      /\ rd \in [Chan -> Nat] /\ wr \in [Chan -> Seq(Byte)] /\ wr' \in [Chan -> Seq(Byte)]
  BY DEF IInv, TypeOK
<1>2. \A c \in Chan : Len(wr[c]) \in Nat /\ Len(wr'[c]) \in Nat /\ rd[c] \in Nat
                      /\ Len(wr[c]) <= Len(wr'[c])
  BY <1>1, Grows, LenProperties
<1>3. /\ \A s \in Sockbuf : infd[s] \in Chan /\ outfd[s] \in Chan
      /\ \A s, t \in Sockbuf : s # t => infd[s] # infd[t] /\ outfd[s] # outfd[t]
  BY WiringAssumption
<1> USE SizeAssumption DEF NeverBlocks, Readable, Writable, Queued
<1>4. ASSUME NEW p \in Proc, Select(p) PROVE NeverBlocks'
  BY <1>4 DEF Select, ToRead, ToWrite, chanVars
<1>5. ASSUME NEW s \in Sockbuf, Read(s) PROVE NeverBlocks'
  <2>1. /\ wr' = wr /\ shut' = shut /\ gone' = gone /\ rset' = rset \ {s} /\ wset' = wset
    BY <1>5 DEF Read
  <2>2. PICK n \in 1..Minimum(cap, Queued(infd[s])) : rd' = [rd EXCEPT ![infd[s]] = @ + n]
    BY <1>5 DEF Read
  <2>3. n \in Nat
    BY <1>2, <1>3, SMT DEF Minimum
  <2>4. /\ \A c \in Chan : rd[c] <= rd'[c] /\ rd'[c] \in Nat
        /\ \A c \in Chan : c # infd[s] => rd'[c] = rd[c]
    BY <1>1, <1>2, <2>2, <2>3
  <2>5. ASSUME NEW t \in rset' PROVE Readable(infd[t])'
    <3>1. t \in rset /\ t # s /\ t \in Sockbuf
      BY <1>1, <2>1
    <3>2. infd[t] \in Chan /\ infd[t] # infd[s]
      BY <1>3, <3>1
    <3>3. wr'[infd[t]] = wr[infd[t]] /\ rd'[infd[t]] = rd[infd[t]] /\ shut'[infd[t]] = shut[infd[t]]
      BY <2>1, <2>4, <3>2
    <3> QED
      BY <3>1, <3>3
  <2>6. ASSUME NEW t \in wset' PROVE Writable(outfd[t])'
    <3>1. t \in wset /\ outfd[t] \in Chan
      BY <1>1, <1>3, <2>1
    <3>2. /\ wr'[outfd[t]] = wr[outfd[t]] /\ gone'[outfd[t]] = gone[outfd[t]]
          /\ Len(wr[outfd[t]]) \in Nat /\ rd[outfd[t]] \in Nat /\ rd'[outfd[t]] \in Nat
          /\ rd[outfd[t]] <= rd'[outfd[t]]
      BY <1>2, <2>1, <2>4, <3>1
    <3>3. Len(wr[outfd[t]]) - rd[outfd[t]] < Room \/ gone[outfd[t]]
      BY <3>1
    <3> QED
      BY <3>2, <3>3, SMT
  <2> QED
    BY <2>5, <2>6
<1>6. ASSUME NEW s \in Sockbuf, Write(s) PROVE NeverBlocks'
  <2>1. /\ rd' = rd /\ shut' = shut /\ gone' = gone /\ wset' = wset \ {s} /\ rset' = rset
        /\ \E x : wr' = [wr EXCEPT ![outfd[s]] = x]
    BY <1>6 DEF Write
  <2>2. \A c \in Chan : c # outfd[s] => wr'[c] = wr[c]
    BY <1>1, <2>1
  <2> QED
    BY <1>1, <1>2, <1>3, <2>1, <2>2
<1>7. ASSUME NEW p \in Proc, Leave(p) PROVE NeverBlocks'
  <2>1. /\ wr' = wr /\ rd' = rd /\ rset' \subseteq rset /\ wset' \subseteq wset
        /\ \A c \in Chan : (shut[c] => shut'[c]) /\ (gone[c] => gone'[c])
    BY <1>7, Zenon DEF Leave
  <2> QED
    BY <1>1, <1>3, <2>1
<1>8. ASSUME World PROVE NeverBlocks'
  <2>1. ASSUME NEW c \in Sources, Type(c) PROVE NeverBlocks'
    <3>1. /\ rd' = rd /\ shut' = shut /\ gone' = gone /\ wset' = wset /\ rset' = rset
          /\ \A d \in Chan : d # c => wr'[d] = wr[d]
      BY <1>1, <2>1 DEF Type
    <3>2. \A s \in Sockbuf : outfd[s] # c
      BY DEF Sources
    <3> QED
      BY <1>1, <1>2, <1>3, <3>1, <3>2
  <2>2. ASSUME NEW c \in Sinks, Drain(c) PROVE NeverBlocks'
    <3>1. /\ wr' = wr /\ shut' = shut /\ gone' = gone /\ wset' = wset /\ rset' = rset
          /\ \A d \in Chan : (d # c => rd'[d] = rd[d]) /\ rd'[d] \in Nat /\ rd[d] <= rd'[d]
      BY <1>1, <1>2, <2>2 DEF Drain
    <3>2. \A s \in Sockbuf : infd[s] # c
      BY DEF Sinks
    <3> QED
      BY <1>1, <1>2, <1>3, <3>1, <3>2
  <2>3. ASSUME NEW c \in Chan, EndInput(c) \/ CloseOutput(c) PROVE NeverBlocks'
    <3>1. /\ wr' = wr /\ rd' = rd /\ rset' = rset /\ wset' = wset
          /\ \A d \in Chan : (shut[d] => shut'[d]) /\ (gone[d] => gone'[d])
      <4>1. shut \in [Chan -> BOOLEAN] /\ gone \in [Chan -> BOOLEAN]
        BY DEF IInv, TypeOK
      <4> QED
        BY <2>3, <4>1, Zenon DEF EndInput, CloseOutput
    <3> QED
      BY <1>1, <1>3, <3>1
  <2> QED
    BY <1>8, <2>1, <2>2, <2>3 DEF World, Sources, Sinks
<1>9. ASSUME UNCHANGED vars PROVE NeverBlocks'
  BY <1>9 DEF vars
<1>10. ASSUME NEW p \in Proc, NEW s \in Array(p), Serve(s) PROVE NeverBlocks'
  <2>1. s \in Sockbuf
    BY ArrayAssumption DEF Array
  <2> QED
    BY <1>5, <1>6, <1>7, <1>10, <2>1, OwnerLemma DEF Serve, ReadEnd, WriteEnd
<1> QED
  BY <1>4, <1>8, <1>9, <1>10 DEF Next, Step

\* The loop never waits in a read() or a write(), so one direction is never
\* held up by the other, whatever happened since select() returned.
THEOREM NonBlocking == Safe => []NeverBlocks
<1>1. Init => NeverBlocks
  BY DEF Init, NeverBlocks
<1>2. IInv /\ IInv' /\ NeverBlocks /\ [Next]_vars => NeverBlocks'
  BY BlockStep
<1> QED
  BY <1>1, <1>2, Invariance, PTL DEF Safe
=============================================================================
