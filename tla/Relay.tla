------------------------------- MODULE Relay --------------------------------
(***************************************************************************)
(* The netcat pair of 2019/nc.  After connect() or accept(), client.c and  *)
(* server.c both run handle_connection() of sockbuf.c: one thread that     *)
(* select()s on two sockbufs, sbs[0] from stdin to the socket and sbs[1]   *)
(* from the socket to stdout, and closes everything when a read or a write *)
(* returns no bytes.                                                       *)
(*                                                                         *)
(* A channel is a kernel byte stream: a terminal, a pipe or one direction  *)
(* of a TCP connection.  wr is every byte ever written to it and rd the    *)
(* number of them that have been read, so the bytes queued in the kernel   *)
(* are wr[rd+1 ..].                                                        *)
(***************************************************************************)
EXTENDS Integers, Sequences

CONSTANTS
  Proc,       \* the processes running handle_connection()
  Sockbuf,    \* their sockbufs
  sbs,        \* sbs[p]: the array of two sockbufs of process p
  Chan,       \* the kernel byte streams
  infd,       \* infd[s], outfd[s]: the streams behind s->infd and s->outfd
  outfd,
  cap,        \* bytes one read() may put in a sockbuf (bufsz)
  Room,       \* queued bytes at which select() stops reporting a stream writable
  MaxBytes    \* MaxBytes[c]: bound on the bytes the outside world writes to c

Byte == Chan \X Nat

ASSUME ArrayAssumption ==
  /\ sbs \in [Proc -> [1..2 -> Sockbuf]]
  /\ \A p, q \in Proc, i, j \in 1..2 : sbs[p][i] = sbs[q][j] => p = q /\ i = j
  /\ \A s \in Sockbuf : \E p \in Proc : s \in {sbs[p][1], sbs[p][2]}

ASSUME WiringAssumption ==
  /\ infd \in [Sockbuf -> Chan] /\ outfd \in [Sockbuf -> Chan]
  /\ \A s, t \in Sockbuf : infd[s] = infd[t] \/ outfd[s] = outfd[t] => s = t

ASSUME SizeAssumption == cap \in Nat \ {0} /\ Room \in Nat /\ MaxBytes \in [Chan -> Nat]

VARIABLES
  wr, rd,     \* per channel: bytes written, and how many have been read
  shut,       \* per channel: the writing end is closed
  gone,       \* per channel: the reading end is closed
  reset,      \* per channel: the writer closed with a RST
  data, cur,  \* per sockbuf: the bytes in [begin, end), and cur - begin
  rset, wset, \* the sockbufs whose bit is set and not yet looked at
  run         \* the processes still in handle_connection()

chanVars == <<wr, rd, shut, gone, reset>>
vars == <<wr, rd, shut, gone, reset, data, cur, rset, wset, run>>

Array(p) == {sbs[p][1], sbs[p][2]}
Owner(s) == CHOOSE p \in Proc : s \in Array(p)
Queued(c) == Len(wr[c]) - rd[c]
\* len = p->end - p->cur
Pending(s) == Len(data[s]) - cur[s]
Minimum(m, n) == IF m < n THEN m ELSE n

\* Variant: one write() is taken to empty the buffer.
Started(s) == cur[s] > 0 \/ Len(data[s]) = 0

sockbuf_empty(s) == Pending(s) = 0

\* What select() reports of a stream.  A closed end is always ready.
Readable(c) == Queued(c) > 0 \/ shut[c]
Writable(c) == Queued(c) < Room \/ gone[c]

Init ==
  /\ wr = [c \in Chan |-> << >>] /\ rd = [c \in Chan |-> 0]
  /\ shut = [c \in Chan |-> FALSE]
  /\ gone = [c \in Chan |-> FALSE]
  /\ reset = [c \in Chan |-> FALSE]
  /\ data = [s \in Sockbuf |-> << >>] /\ cur = [s \in Sockbuf |-> 0]
  /\ rset = {} /\ wset = {}
  /\ run = Proc
-----------------------------------------------------------------------------
(* The processes.                                                          *)

\* Variant: the bits handed to select() are used, not those it leaves.
AskedToRead(p) == {s \in Array(p) : sockbuf_empty(s)}

\* Variant: setup_rwset() stops one sockbuf short.
FirstToWrite(p) == {s \in {sbs[p][1]} : ~sockbuf_empty(s) /\ Writable(outfd[s])}

\* The bits setup_rwset() sets and select() leaves set: an empty sockbuf waits
\* to read, a non-empty one to write, never both.
ToRead(p) == {s \in Array(p) : sockbuf_empty(s) /\ Readable(infd[s])}
ToWrite(p) == {s \in Array(p) : ~sockbuf_empty(s) /\ Writable(outfd[s])}

\* select() blocks until some stream is ready.
Select(p) ==
  /\ p \in run
  /\ Array(p) \cap (rset \cup wset) = {}
  /\ ToRead(p) \cup ToWrite(p) # {}
  /\ rset' = rset \cup ToRead(p)
  /\ wset' = wset \cup ToWrite(p)
  /\ UNCHANGED <<chanVars, data, cur, run>>

\* The for loop looks at sbs[0] before sbs[1].
Turn(s) == s = sbs[Owner(s)][2] => sbs[Owner(s)][1] \notin rset \cup wset

\* handle_connection() returns and the process ends, by main() or by SIGPIPE:
\* the kernel closes its streams, and answers what it had not read from the
\* socket with a RST.
Leave(p) ==
  /\ run' = run \ {p}
  /\ rset' = rset \ Array(p) /\ wset' = wset \ Array(p)
  /\ shut' = [c \in Chan |-> shut[c] \/ \E s \in Array(p) : c = outfd[s]]
  /\ gone' = [c \in Chan |-> gone[c] \/ \E s \in Array(p) : c = infd[s]]
  /\ reset' = [reset EXCEPT ![outfd[sbs[p][1]]] = Queued(infd[sbs[p][2]]) > 0]
  /\ UNCHANGED <<wr, rd, data, cur>>

\* Variant: read() fills the buffer from its start but cur stays behind.
ReadKeepsCur(s) ==
  /\ s \in rset /\ Turn(s)
  /\ \E n \in 1..Minimum(cap, Queued(infd[s])) :
       /\ data' = [data EXCEPT ![s] = SubSeq(wr[infd[s]], rd[infd[s]] + 1, rd[infd[s]] + n)]
       /\ rd' = [rd EXCEPT ![infd[s]] = @ + n]
  /\ rset' = rset \ {s}
  /\ UNCHANGED <<wr, shut, gone, reset, cur, wset, run>>

Read(s) ==
  /\ s \in rset /\ Turn(s)
  /\ \E n \in 1..Minimum(cap, Queued(infd[s])) :
       /\ data' = [data EXCEPT ![s] = SubSeq(wr[infd[s]], rd[infd[s]] + 1, rd[infd[s]] + n)]
       /\ rd' = [rd EXCEPT ![infd[s]] = @ + n]
  /\ cur' = [cur EXCEPT ![s] = 0]
  /\ rset' = rset \ {s}
  /\ UNCHANGED <<wr, shut, gone, reset, wset, run>>

\* Variant: only an error ends the session, not a count of zero.
ReadError(s) == s \in rset /\ Turn(s) /\ reset[infd[s]] /\ Leave(Owner(s))

\* read() <= 0: end of file, or ECONNRESET once a RST has come.
ReadEnd(s) ==
  /\ s \in rset /\ Turn(s)
  /\ shut[infd[s]]
  /\ Queued(infd[s]) = 0 \/ reset[infd[s]]
  /\ Leave(Owner(s))

\* Variant: the count is taken off cur.
SteppedBack(s, n) == cur[s] - n

\* cur += res
Advanced(s, n) == cur[s] + n

\* Variant: every write() starts at begin.
FirstBytes(s, n) == SubSeq(data[s], 1, n)

\* write(p->outfd, p->cur, len)
NextBytes(s, n) == SubSeq(data[s], cur[s] + 1, cur[s] + n)

\* write() may take fewer bytes than it is given.  The first bytes sent to a
\* peer that has gone are taken too: the error only shows on a later write.
Write(s) ==
  /\ s \in wset /\ Turn(s)
  /\ \E n \in 1..Pending(s) :
       /\ gone[outfd[s]] \/ n <= Room - Queued(outfd[s])
       /\ wr' = [wr EXCEPT ![outfd[s]] = @ \o NextBytes(s, n)]
       /\ cur' = [cur EXCEPT ![s] = Advanced(s, n)]
  /\ wset' = wset \ {s}
  /\ UNCHANGED <<rd, shut, gone, reset, data, rset, run>>

\* SIGPIPE, or write() <= 0 where the signal is ignored.
WriteEnd(s) ==
  /\ s \in wset /\ Turn(s)
  /\ gone[outfd[s]]
  /\ Leave(Owner(s))

Serve(s) == Read(s) \/ ReadEnd(s) \/ Write(s) \/ WriteEnd(s)
Step(p) == Select(p) \/ \E s \in Array(p) : Serve(s)
-----------------------------------------------------------------------------
(* The outside world: who types, who reads the screen, a remote peer.      *)

Sources == Chan \ {outfd[s] : s \in Sockbuf}
Sinks == Chan \ {infd[s] : s \in Sockbuf}

Type(c) ==
  /\ ~shut[c] /\ Len(wr[c]) < MaxBytes[c]
  /\ wr' = [wr EXCEPT ![c] = Append(@, <<c, Len(@) + 1>>)]
  /\ UNCHANGED <<rd, shut, gone, reset, data, cur, rset, wset, run>>

EndInput(c) ==
  /\ ~shut[c]
  /\ shut' = [shut EXCEPT ![c] = TRUE]
  /\ UNCHANGED <<wr, rd, gone, reset, data, cur, rset, wset, run>>

Drain(c) ==
  /\ ~gone[c] /\ Queued(c) > 0
  /\ rd' = [rd EXCEPT ![c] = @ + 1]
  /\ UNCHANGED <<wr, shut, gone, reset, data, cur, rset, wset, run>>

CloseOutput(c) ==
  /\ ~gone[c]
  /\ gone' = [gone EXCEPT ![c] = TRUE]
  /\ UNCHANGED <<wr, rd, shut, reset, data, cur, rset, wset, run>>

World == \/ \E c \in Sources : Type(c) \/ EndInput(c)
         \/ \E c \in Sinks : Drain(c) \/ CloseOutput(c)

Next == World \/ \E p \in Proc : Step(p)

\* The scheduler runs every process that can run, and whoever holds the far
\* end of an output goes on reading it.  Nobody has to type.
Fairness == /\ \A p \in Proc : WF_vars(Step(p))
            /\ \A c \in Sinks : WF_vars(Drain(c))

Safe == Init /\ [][Next]_vars
Spec == Safe /\ Fairness
-----------------------------------------------------------------------------
TypeOK ==
  /\ wr \in [Chan -> Seq(Byte)] /\ rd \in [Chan -> Nat]
  /\ shut \in [Chan -> BOOLEAN]
  /\ gone \in [Chan -> BOOLEAN]
  /\ reset \in [Chan -> BOOLEAN]
  /\ data \in [Sockbuf -> Seq(Byte)] /\ cur \in [Sockbuf -> Nat]
  /\ rset \subseteq Sockbuf /\ wset \subseteq Sockbuf
  /\ run \subseteq Proc

\* The comments on struct sockbuf (sockbuf.h): cur <= end and
\* end <= begin + cap, through every short read and short write.
WithinBuffer == \A s \in Sockbuf : cur[s] <= Len(data[s]) /\ Len(data[s]) <= cap

\* handle_connection() loses, repeats and reorders nothing: at every moment
\* what a sockbuf has read is what it has written followed by what it still
\* holds between cur and end.  A read() into a buffer that is not drained, or
\* a short write() that is not accounted for, breaks it.
Relayed ==
  \A s \in Sockbuf :
    wr[outfd[s]] \o SubSeq(data[s], cur[s] + 1, Len(data[s]))
      = SubSeq(wr[infd[s]], 1, rd[infd[s]])

\* The streams are blocking, so a bit of rset or wset that is stale when the
\* for loop comes to it would hang both directions in one read() or write().
NeverBlocks ==
  /\ \A s \in rset : Readable(infd[s])
  /\ \A s \in wset : Writable(outfd[s])

\* Neither direction starves the other: once nothing arrives any more, every
\* byte that did has been passed on or its session is over, although one
\* thread serves both streams.
Flow == <>[](\A s \in Sockbuf : Len(wr[outfd[s]]) = Len(wr[infd[s]]) \/ Owner(s) \notin run)

\* When one side of a session ends, so does every other, even one that is
\* waiting to write when the end of file arrives.
EndTogether == <>[](run = {} \/ run = Proc)
=============================================================================
