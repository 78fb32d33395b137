-------------------------------- MODULE Logs --------------------------------
(***************************************************************************)
(* What 2019/multicat promises of its files.  The log of a port takes what *)
(* the port's clients send, byte by byte in order, and nothing is taken    *)
(* away again.  A connection is closed when all of it is in the log.  The  *)
(* connections of a port follow one another, with one exception: when a    *)
(* client has reset its connection, what had come in before is still       *)
(* logged, and a later connection of the port may be in between.           *)
(***************************************************************************)
EXTENDS Integers, Sequences

CONSTANTS
  Conn,    \* the connections clients make, numbered in order
  addr     \* addr[c]: the address and port connection c comes from

VARIABLES
  up,      \* the server runs
  peer,    \* per connection, its client: "talking", "done" or "reset"
  sent,    \* per connection: how many bytes have come in
  read,    \* per connection: how many of them the server has taken
  closed,  \* the connections the server is through with
  log      \* per port: connections and numbers of bytes

vars == <<up, peer, sent, read, closed, log>>

Init ==
  /\ up = TRUE
  /\ peer = [c \in Conn |-> "talking"]
  /\ sent = [c \in Conn |-> 0] /\ read = [c \in Conn |-> 0]
  /\ closed = {}
  /\ log = [a \in {addr[c] : c \in Conn} |-> << >>]

Send(c) ==
  /\ up /\ peer[c] = "talking"
  /\ sent' = [sent EXCEPT ![c] = @ + 1]
  /\ UNCHANGED <<up, peer, read, closed, log>>

Leave(c) ==
  /\ up
  /\ \/ peer[c] = "talking" /\ peer' = [peer EXCEPT ![c] = "done"]
     \/ peer[c] # "reset" /\ peer' = [peer EXCEPT ![c] = "reset"]
  /\ UNCHANGED <<up, sent, read, closed, log>>

\* The bytes of c in the log of its port.
Logged(c) == {log[addr[c]][n][2] : n \in {m \in DOMAIN log[addr[c]] : log[addr[c]][m][1] = c}}

\* Nothing of a later connection is there before c, or c was reset.
InTurn(c) == peer[c] = "reset" \/ \A n \in DOMAIN log[addr[c]] : log[addr[c]][n][1] <= c

\* The bytes of c behind the first k, up to number n, come behind all that is there.
Extend(c, k, n) ==
  /\ Logged(c) = 1..k
  /\ k < n => InTurn(c)
  /\ log' = [log EXCEPT ![addr[c]] = @ \o [m \in 1..(n - k) |-> <<c, k + m>>]]

\* Bytes of c are taken, and some of those that were taken are logged.
Log(c) ==
  /\ up /\ c \notin closed
  /\ \E r \in read[c]..sent[c] :
       /\ read' = [read EXCEPT ![c] = r]
       /\ \E k \in 0..r : \E n \in k..r : Extend(c, k, n)
  /\ UNCHANGED <<up, peer, sent, closed>>

Close(c) ==
  /\ up /\ c \notin closed
  /\ peer[c] # "talking" /\ read[c] = sent[c]
  /\ \E k \in 0..sent[c] : Extend(c, k, sent[c])
  /\ closed' = closed \cup {c}
  /\ UNCHANGED <<up, peer, sent, read>>

\* What was taken and not logged is lost, and no more.
Crash == up /\ up' = FALSE /\ UNCHANGED <<peer, sent, read, closed, log>>

Next ==
  \/ Crash
  \/ \E c \in Conn : Send(c) \/ Leave(c) \/ Log(c) \/ Close(c)

Spec == Init /\ [][Next]_vars
=============================================================================
