-------------------------------- MODULE Rsnc --------------------------------
(***************************************************************************)
(* 2019/rsnc, the netcat server in Rust.  Its loop is the one of 2019/nc,  *)
(* but SockBuf::write() always hands the kernel the buffer from its start, *)
(* buf[0..end], and then adds what the kernel took to cur.                 *)
(***************************************************************************)
EXTENDS Relay

RustRead(s) == Read(s)

RustWrite(s) ==
  /\ s \in wset /\ Turn(s)
  /\ \E n \in 1..Len(data[s]) :
       /\ gone[outfd[s]] \/ n <= Room - Queued(outfd[s])
       /\ wr' = [wr EXCEPT ![outfd[s]] = @ \o FirstBytes(s, n)]
       /\ cur' = [cur EXCEPT ![s] = Advanced(s, n)]
  /\ wset' = wset \ {s}
  /\ UNCHANGED <<rd, shut, gone, reset, data, rset, run>>

\* An error of read() or write() leaves the loop through `?' and ends the
\* process in main()'s unwrap(), as a count of zero does through Ok(()).
RustServe(s) == RustRead(s) \/ ReadEnd(s) \/ RustWrite(s) \/ WriteEnd(s)
RustStep(p) == Select(p) \/ \E s \in Array(p) : RustServe(s)

RustNext == World \/ \E p \in Proc : RustStep(p)

RustSafe == Init /\ [][RustNext]_vars
=============================================================================
