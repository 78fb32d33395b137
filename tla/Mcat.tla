-------------------------------- MODULE Mcat --------------------------------
(***************************************************************************)
(* The server of 2019/multicat: one thread poll()s the listening socket    *)
(* and at most MAX_NUM_CLIENTS connections and appends what each client    *)
(* sends to a file named after the client's address.  It runs until it is  *)
(* killed.                                                                 *)
(***************************************************************************)
EXTENDS Integers, Sequences, FiniteSets

CONSTANTS
  Conn,             \* the connections clients make, numbered in order
  addr,             \* addr[c]: the address and port connection c comes from
  MAX_NUM_CLIENTS,
  readbufsz,        \* bytes one read() may return
  MaxBytes          \* MaxBytes[c]: bound on the bytes the client of c sends

ASSUME ConnAssumption == Conn \subseteq Nat \ {0} /\ IsFiniteSet(Conn) /\ Conn = DOMAIN addr
ASSUME SizeAssumption == MAX_NUM_CLIENTS \in Nat \ {0} /\ readbufsz \in Nat \ {0}
ASSUME BoundAssumption == MaxBytes \in [Conn -> Nat]

VARIABLES
  pc,         \* where run_server() is: "poll", "accept", "serve" or "killed"
  i,          \* the slot the for loop has come to
  revents,    \* per entry of clients[], listenfd's first: the POLLIN bit
  clients,    \* per slot: clients[i].fd, a connection or -1
  conns,      \* per slot: conns[i].connfd, left as it is when the slot is freed
  txtout,     \* per slot: what stdio has buffered of conns[i].txtout
  file,       \* per address: the text in its file
  backlog,    \* the connections waiting for accept()
  phase,      \* per connection: "new", "waiting", "served", "refused" or "closed"
  sent,       \* per connection: how many bytes have come in from its client
  rcvd,       \* per connection: how many of them the server has read
  fin, rst    \* per connection: the client has closed, has reset

server == <<pc, i, revents, clients, conns, txtout, file>>
client == <<sent, fin, rst>>
vars == <<server, client, backlog, phase, rcvd>>

Slot == 1..MAX_NUM_CLIENTS
Smaller(m, n) == IF m < n THEN m ELSE n
Readable(c) == rcvd[c] < sent[c] \/ fin[c] \/ rst[c]
Alive == pc # "killed"

Init ==
  /\ pc = "poll" /\ i = 0
  /\ revents = [k \in 0..MAX_NUM_CLIENTS |-> FALSE]
  /\ clients = [k \in Slot |-> -1] /\ conns = [k \in Slot |-> -1]
  /\ txtout = [k \in Slot |-> << >>]
  /\ file = [a \in {addr[c] : c \in Conn} |-> << >>]
  /\ backlog = << >>
  /\ phase = [c \in Conn |-> "new"]
  /\ sent = [c \in Conn |-> 0] /\ rcvd = [c \in Conn |-> 0]
  /\ fin = [c \in Conn |-> FALSE] /\ rst = [c \in Conn |-> FALSE]
-----------------------------------------------------------------------------
(* The server.                                                             *)

Ready(k) == IF k = 0 THEN backlog # << >> ELSE clients[k] # -1 /\ Readable(clients[k])

\* Variant: the bit of an entry without a connection is left as it was.
ReadyOrStale(k) == IF k = 0 THEN backlog # << >>
                   ELSE IF clients[k] = -1 THEN revents[k] ELSE Readable(clients[k])

\* Variant: the array is polled without its last entry.
ReadyButLast(k) == k < MAX_NUM_CLIENTS /\ Ready(k)

\* poll() waits for an entry to be ready and clears the bits of the others,
\* those with a negative descriptor included.
PollBit(k) == Ready(k)

Poll ==
  /\ pc = "poll"
  /\ \E k \in 0..MAX_NUM_CLIENTS : Ready(k)
  /\ revents' = [k \in 0..MAX_NUM_CLIENTS |-> PollBit(k)]
  /\ pc' = "accept"
  /\ UNCHANGED <<i, clients, conns, txtout, file, client, backlog, phase, rcvd>>

\* Variant: only the entry of conns[] is filled in.
SlotUnset(k, c) == clients

SlotTaken(k, c) == [clients EXCEPT ![k] = c]

\* accept() takes the first connection that waits, and may fail (-1) when
\* its client has reset it already.
Accepted(c) == {c} \cup {d \in {-1} : rst[c]}

\* add_client_to_pollfd(): the first free slot, or "Sorry".  The descriptor
\* is not looked at: after a failure the slot's entry in conns[] is written,
\* with a file of whatever address, and the slot stays free.
Accept ==
  /\ pc = "accept"
  /\ IF revents[0]
       THEN \E connfd \in Accepted(Head(backlog)) :
              LET c == Head(backlog)
                  free == {k \in Slot : clients[k] = -1}
              IN  /\ backlog' = Tail(backlog)
                  /\ phase' = [phase EXCEPT ![c] =
                                 IF free = {} \/ connfd = -1 THEN "refused" ELSE "served"]
                  /\ \/ \E k \in free :
                          /\ \A m \in free : k <= m
                          /\ conns' = [conns EXCEPT ![k] = connfd]
                          /\ clients' = SlotTaken(k, connfd)
                          /\ txtout' = [txtout EXCEPT ![k] = << >>]
                     \/ free = {} /\ UNCHANGED <<conns, clients, txtout>>
       ELSE UNCHANGED <<backlog, conns, clients, txtout, phase>>
  /\ i' = 1 /\ pc' = "serve"
  /\ UNCHANGED <<revents, file, client, rcvd>>

\* Variant: the loop runs one slot too far.
AdvanceFurther ==
  /\ i' = IF i > MAX_NUM_CLIENTS THEN 0 ELSE i + 1
  /\ pc' = IF i > MAX_NUM_CLIENTS THEN "poll" ELSE "serve"

Advance ==
  /\ i' = IF i = MAX_NUM_CLIENTS THEN 0 ELSE i + 1
  /\ pc' = IF i = MAX_NUM_CLIENTS THEN "poll" ELSE "serve"

Skip ==
  /\ pc = "serve" /\ ~revents[i]
  /\ Advance
  /\ UNCHANGED <<revents, clients, conns, txtout, file, client, backlog, phase, rcvd>>

NextBytes(c, n) == [m \in 1..n |-> <<c, rcvd[c] + m>>]

\* read() and fwrite().  A reset does not take away what came in before it: that
\* is read first.  stdio may write out any part of its buffer.
Store ==
  /\ pc = "serve" /\ revents[i]
  /\ LET c == conns[i] IN
     /\ \E n \in 1..Smaller(readbufsz, sent[c] - rcvd[c]) :
          LET text == txtout[i] \o NextBytes(c, n) IN
          \E kept \in 0..Len(text) :
            /\ file' = [file EXCEPT ![addr[c]] = @ \o SubSeq(text, 1, Len(text) - kept)]
            /\ txtout' = [txtout EXCEPT ![i] = SubSeq(text, Len(text) - kept + 1, Len(text))]
            /\ rcvd' = [rcvd EXCEPT ![c] = @ + n]
  /\ Advance
  /\ UNCHANGED <<revents, clients, conns, client, backlog, phase>>

\* Variant: the file is not closed, so what stdio holds stays with it.
Unflushed(k) == file

Flushed(k) == [file EXCEPT ![addr[conns[k]]] = @ \o txtout[k]]

\* Variant: the entry of clients[] keeps its descriptor.
StillPolled(k) == clients

Freed(k) == [clients EXCEPT ![k] = -1]

\* Variant: end of file is not an end.
OnlyReset(c) == rst[c] /\ rcvd[c] = sent[c]

\* Variant: a client that has closed is dropped, read or not.
EndedBehind(c) == rst[c] \/ fin[c]

\* read() <= 0: end of file or a reset, when nothing is left to read.
Ended(c) == (fin[c] \/ rst[c]) /\ rcvd[c] = sent[c]

Drop ==
  /\ pc = "serve" /\ revents[i]
  /\ LET c == conns[i] IN
     /\ Ended(c)
     /\ phase' = [phase EXCEPT ![c] = "closed"]
     /\ file' = Flushed(i)
     /\ txtout' = [txtout EXCEPT ![i] = << >>]
     /\ clients' = Freed(i)
  /\ Advance
  /\ UNCHANGED <<revents, conns, client, backlog, rcvd>>

\* Nothing in the program ends it: a signal does, and what stdio holds is lost.
\* The signal may be the program's own, SIGPIPE or, when fopen() has failed,
\* SIGSEGV.
Kill ==
  /\ Alive
  /\ pc' = "killed" /\ i' = 0 /\ backlog' = << >>
  /\ revents' = [k \in 0..MAX_NUM_CLIENTS |-> FALSE]
  /\ clients' = [k \in Slot |-> -1] /\ conns' = [k \in Slot |-> -1]
  /\ txtout' = [k \in Slot |-> << >>]
  /\ UNCHANGED <<file, client, phase, rcvd>>

Run == Poll \/ Accept \/ Skip \/ Store \/ Drop
-----------------------------------------------------------------------------
(* The clients.                                                            *)

\* A client's port can be used again once the kernel of the server has no
\* connection with it, although the server may not have seen the reset yet and
\* may have bytes left to read from before it.
Connect(c) ==
  /\ Alive /\ phase[c] = "new"
  /\ \A d \in Conn : d < c /\ addr[d] = addr[c] =>
       rst[d] \/ phase[d] \in {"refused", "closed"}
  /\ phase' = [phase EXCEPT ![c] = "waiting"]
  /\ backlog' = Append(backlog, c)
  /\ UNCHANGED <<server, client, rcvd>>

Send(c) ==
  /\ Alive /\ phase[c] \in {"waiting", "served"} /\ ~fin[c] /\ ~rst[c] /\ sent[c] < MaxBytes[c]
  /\ sent' = [sent EXCEPT ![c] = @ + 1]
  /\ UNCHANGED <<server, fin, rst, backlog, phase, rcvd>>

Finish(c) ==
  /\ Alive /\ phase[c] \in {"waiting", "served"} /\ ~fin[c] /\ ~rst[c]
  /\ fin' = [fin EXCEPT ![c] = TRUE]
  /\ UNCHANGED <<server, sent, rst, backlog, phase, rcvd>>

Reset(c) ==
  /\ Alive /\ phase[c] \in {"waiting", "served"} /\ ~rst[c]
  /\ rst' = [rst EXCEPT ![c] = TRUE]
  /\ UNCHANGED <<server, sent, fin, backlog, phase, rcvd>>

Client == \E c \in Conn : Connect(c) \/ Send(c) \/ Finish(c) \/ Reset(c)

Next == Run \/ Kill \/ Client

\* The server runs when it can; no client owes it anything.
Spec == Init /\ [][Next]_vars /\ WF_vars(Run)
-----------------------------------------------------------------------------
TypeOK ==
  /\ pc \in {"poll", "accept", "serve", "killed"} /\ i \in 0..MAX_NUM_CLIENTS
  /\ revents \in [0..MAX_NUM_CLIENTS -> BOOLEAN]
  /\ clients \in [Slot -> Conn \cup {-1}] /\ conns \in [Slot -> Conn \cup {-1}]
  /\ txtout \in [Slot -> Seq(Conn \X Nat)]
  /\ file \in [{addr[c] : c \in Conn} -> Seq(Conn \X Nat)]
  /\ backlog \in Seq(Conn)
  /\ phase \in [Conn -> {"new", "waiting", "served", "refused", "closed"}]
  /\ sent \in [Conn -> Nat] /\ rcvd \in [Conn -> Nat]
  /\ fin \in [Conn -> BOOLEAN] /\ rst \in [Conn -> BOOLEAN]

\* clients[] and conns[], which are kept apart, agree: every connection being
\* served has one slot of its own, in both arrays, and no other slot is polled.
SlotsAgree ==
  /\ \A k \in Slot : clients[k] # -1 => clients[k] = conns[k] /\ phase[conns[k]] = "served"
  /\ \A c \in Conn : Alive /\ phase[c] = "served" =>
       \E k \in Slot : clients[k] = c /\ \A m \in Slot : clients[m] = c => m = k

\* A slot whose bit is set holds an open connection with something to read,
\* even one that was taken after poll() returned, so read() never blocks the
\* server.
NeverBlocks ==
  pc = "serve" => \A k \in Slot : k >= i /\ revents[k] => clients[k] # -1 /\ Readable(clients[k])

\* A file has the bytes of each connection in order, none twice and none left
\* out, and the connections of its address one after the other, unless a client
\* came back from the same port after a reset: then bytes from before the reset
\* may stand behind some of the later connection, and no others may.
InOrder ==
  \A a \in DOMAIN file : \A n \in DOMAIN file[a] :
    LET x == file[a][n]
        earlier == {file[a][m] : m \in 1..(n - 1)}
    IN
    /\ addr[x[1]] = a /\ x[2] <= rcvd[x[1]]
    /\ {y[2] : y \in {z \in earlier : z[1] = x[1]}} = 1..(x[2] - 1)
    /\ \A y \in earlier : y[1] > x[1] => rst[x[1]]

\* Once the server has closed a connection all that came in is in the file,
\* before a reset too, and stays there when the server is killed.
Saved ==
  \A c \in Conn : phase[c] = "closed" =>
    \A n \in 1..sent[c] : \E m \in DOMAIN file[addr[c]] : file[addr[c]][m] = <<c, n>>

Peer == [c \in Conn |-> IF rst[c] THEN "reset" ELSE IF fin[c] THEN "done" ELSE "talking"]
Done == {c \in Conn : phase[c] = "closed"}
Ports == INSTANCE Logs WITH
           up <- Alive, peer <- Peer, read <- rcvd, closed <- Done, log <- file

\* InOrder, Saved and more: the files are the logs of the ports, as Logs says.
Logged == Ports!Spec

\* Every client is heard: what has come in from it is read although the others
\* keep the server busy, and even when it has reset since, unless it is refused.
\* Clients send only so many bytes, so that is to say that in the end all are read.
Heard ==
  <>[](\A c \in Conn : rcvd[c] = sent[c] \/ phase[c] = "refused" \/ ~Alive)

\* A client that leaves gives its slot back: whoever has left is in the end
\* out of the arrays, for none comes back.
SlotsReturn ==
  <>[](\A c \in Conn : fin[c] \/ rst[c] => phase[c] \in {"closed", "refused"} \/ ~Alive)
=============================================================================
