----------------------------- MODULE McatProofs -----------------------------
(***************************************************************************)
(* For any number of slots and any clients: clients[] and conns[] agree,   *)
(* no read() blocks the server, what a closed connection has sent is in    *)
(* its file, and a file has the bytes of each connection in order.  The    *)
(* last part shows that the server implements Logs, one log per port.      *)
(***************************************************************************)
EXTENDS Mcat, TLAPS, SequenceTheorems

Item == Conn \X Nat

\* The kernel's queue has each waiting connection once.
Queue ==
  /\ \A n \in DOMAIN backlog : phase[backlog[n]] = "waiting"
  /\ \A m, n \in DOMAIN backlog : backlog[m] = backlog[n] => m = n

Unread == \A c \in Conn : phase[c] \in {"new", "waiting"} => rcvd[c] = 0

Turn ==
  /\ pc = "serve" => i \in Slot
  /\ pc = "accept" /\ revents[0] => backlog # << >>

\* NeverBlocks from poll() on: nothing but a slot's own turn makes its bit stale.
Pending ==
  pc \in {"accept", "serve"} =>
    \A k \in Slot : (pc = "serve" => k >= i) /\ revents[k] =>
      clients[k] # -1 /\ Readable(clients[k])

IInv == TypeOK /\ SlotsAgree /\ Queue /\ Unread /\ Turn /\ Pending
-----------------------------------------------------------------------------
LEMMA Constants ==
  /\ -1 \notin Conn /\ Conn \subseteq Nat /\ DOMAIN addr = Conn
  /\ MAX_NUM_CLIENTS \in Nat /\ MAX_NUM_CLIENTS > 0 /\ readbufsz \in Nat
BY ConnAssumption, SizeAssumption

LEMMA Start ==
  ASSUME Init
  PROVE  IInv
<1>1. TypeOK
  BY Constants DEF Init, TypeOK, Slot
<1>2. SlotsAgree
  BY Constants DEF Init, SlotsAgree, Slot
<1>3. Queue /\ Unread /\ Turn /\ Pending
  BY DEF Init, Queue, Unread, Turn, Pending
<1> QED BY <1>1, <1>2, <1>3 DEF IInv

\* The slot whose turn it is, when its bit is set.
LEMMA Served ==
  ASSUME IInv, pc = "serve", revents[i]
  PROVE  /\ i \in Slot /\ conns[i] \in Conn /\ clients[i] = conns[i]
         /\ phase[conns[i]] = "served"
         /\ \A k \in Slot : clients[k] = conns[i] => k = i
<1>1. i \in Slot /\ clients[i] # -1
  BY DEF IInv, Turn, Pending, Slot
<1>2. clients[i] = conns[i] /\ phase[conns[i]] = "served"
  BY <1>1 DEF IInv, SlotsAgree
<1>3. conns[i] \in Conn
  BY <1>1, <1>2 DEF IInv, TypeOK
<1> QED BY <1>1, <1>2, <1>3 DEF IInv, SlotsAgree, Alive

LEMMA Advancing ==
  ASSUME IInv, pc = "serve", Advance
  PROVE  /\ pc' \in {"poll", "serve"} /\ i' \in 0..MAX_NUM_CLIENTS
         /\ pc' = "serve" => i' \in Slot /\ i' = i + 1
BY Constants DEF IInv, Turn, Advance, Slot

LEMMA Polling ==
  ASSUME IInv, Poll
  PROVE  IInv'
<1>1. /\ pc' = "accept" /\ i' = i /\ clients' = clients /\ conns' = conns /\ txtout' = txtout
      /\ file' = file /\ sent' = sent /\ fin' = fin /\ rst' = rst /\ backlog' = backlog
      /\ phase' = phase /\ rcvd' = rcvd
      /\ revents' = [k \in 0..MAX_NUM_CLIENTS |-> PollBit(k)]
  BY DEF Poll, client
<1>2. \A k \in 0..MAX_NUM_CLIENTS : Ready(k) \in BOOLEAN
  BY DEF IInv, TypeOK, Ready, Readable, Slot
<1>3. TypeOK'
  BY <1>1, <1>2 DEF IInv, TypeOK, PollBit
<1>4. SlotsAgree' /\ Queue' /\ Unread'
  BY <1>1 DEF IInv, SlotsAgree, Queue, Unread, Alive, Poll
<1>5. Turn'
  <2>1. 0 \in 0..MAX_NUM_CLIENTS
    BY Constants
  <2>2. revents'[0] = (backlog # << >>)
    BY <1>1, <2>1 DEF PollBit, Ready
  <2> QED BY <1>1, <2>2 DEF Turn
<1>6. Pending'
  <2>1. \A k \in Slot : k \in 0..MAX_NUM_CLIENTS /\ k # 0
    BY Constants DEF Slot
  <2> QED BY <1>1, <2>1 DEF Pending, PollBit, Ready, Readable
<1> QED BY <1>3, <1>4, <1>5, <1>6 DEF IInv

LEMMA Skipping ==
  ASSUME IInv, Skip
  PROVE  IInv'
<1>1. /\ pc = "serve" /\ Advance /\ revents' = revents /\ clients' = clients /\ conns' = conns
      /\ txtout' = txtout /\ file' = file /\ sent' = sent /\ fin' = fin /\ rst' = rst
      /\ backlog' = backlog /\ phase' = phase /\ rcvd' = rcvd
  BY DEF Skip, client
<1>2. /\ pc' \in {"poll", "serve"} /\ i' \in 0..MAX_NUM_CLIENTS
      /\ pc' = "serve" => i' \in Slot /\ i' = i + 1
  BY <1>1, Advancing
<1>3. TypeOK'
  BY <1>1, <1>2 DEF IInv, TypeOK
<1>4. SlotsAgree' /\ Queue' /\ Unread' /\ Turn'
  BY <1>1, <1>2 DEF IInv, SlotsAgree, Queue, Unread, Turn, Alive
<1>5. Pending'
  BY <1>1, <1>2, Constants DEF IInv, Pending, Readable, Turn, Slot
<1> QED BY <1>3, <1>4, <1>5 DEF IInv

LEMMA Killing ==
  ASSUME IInv, Kill
  PROVE  IInv'
<1>1. /\ pc' = "killed" /\ i' = 0 /\ backlog' = << >>
      /\ revents' = [k \in 0..MAX_NUM_CLIENTS |-> FALSE]
      /\ clients' = [k \in Slot |-> -1] /\ conns' = [k \in Slot |-> -1]
      /\ txtout' = [k \in Slot |-> << >>]
      /\ file' = file /\ sent' = sent /\ fin' = fin /\ rst' = rst /\ phase' = phase /\ rcvd' = rcvd
  BY DEF Kill, client
<1>2. /\ 0 \in 0..MAX_NUM_CLIENTS /\ << >> \in Seq(Conn)
      /\ [k \in 0..MAX_NUM_CLIENTS |-> FALSE] \in [0..MAX_NUM_CLIENTS -> BOOLEAN]
      /\ [k \in Slot |-> -1] \in [Slot -> Conn \cup {-1}]
  BY Constants
<1>3. [k \in Slot |-> << >>] \in [Slot -> Seq(Conn \X Nat)]
  OBVIOUS
<1>4. TypeOK'
  BY <1>1, <1>2, <1>3 DEF IInv, TypeOK
<1> QED BY <1>1, <1>4 DEF IInv, client, SlotsAgree, Queue, Unread, Turn, Pending, Alive

\* accept() and the slot it is given.
LEMMA Accepting ==
  ASSUME IInv, Accept
  PROVE  IInv'
<1>1. /\ pc = "accept" /\ i' = 1 /\ pc' = "serve" /\ revents' = revents /\ file' = file
      /\ sent' = sent /\ fin' = fin /\ rst' = rst /\ rcvd' = rcvd
  BY DEF Accept, client
<1>2. 1 \in Slot /\ 1 \in 0..MAX_NUM_CLIENTS
  BY Constants DEF Slot
<1>3. CASE ~revents[0]
  <2>1. /\ backlog' = backlog /\ conns' = conns /\ clients' = clients /\ txtout' = txtout
        /\ phase' = phase
    BY <1>3 DEF Accept
  <2>2. TypeOK'
    BY <1>1, <1>2, <2>1 DEF IInv, TypeOK
  <2>3. Pending'
    BY <1>1, <2>1 DEF IInv, Pending, Readable
  <2> QED BY <1>1, <1>2, <2>1, <2>2, <2>3
          DEF IInv, SlotsAgree, Queue, Unread, Turn, Alive
<1>4. CASE revents[0]
  <2> DEFINE c == Head(backlog)
             free == {k \in Slot : clients[k] = -1}
  <2>1. PICK connfd \in Accepted(c) :
          /\ backlog' = Tail(backlog)
          /\ phase' = [phase EXCEPT ![c] = IF free = {} \/ connfd = -1 THEN "refused" ELSE "served"]
          /\ \/ \E k \in free :
                  /\ \A m \in free : k <= m
                  /\ conns' = [conns EXCEPT ![k] = connfd]
                  /\ clients' = SlotTaken(k, connfd)
                  /\ txtout' = [txtout EXCEPT ![k] = << >>]
             \/ free = {} /\ UNCHANGED <<conns, clients, txtout>>
    BY <1>4 DEF Accept
  <2>2. backlog # << >> /\ backlog \in Seq(Conn)
    BY <1>1, <1>4 DEF IInv, Turn, TypeOK
  <2>3. /\ c \in Conn /\ c = backlog[1] /\ 1 \in DOMAIN backlog
        /\ Tail(backlog) \in Seq(Conn) /\ Len(Tail(backlog)) = Len(backlog) - 1
        /\ \A n \in DOMAIN Tail(backlog) :
             n + 1 \in DOMAIN backlog /\ n + 1 # 1 /\ Tail(backlog)[n] = backlog[n + 1]
    BY <2>2
  <2> HIDE DEF c
  <2>4. connfd \in Conn \cup {-1} /\ (connfd = c \/ connfd = -1)
    BY <2>3 DEF Accepted
  <2>5. phase[c] = "waiting" /\ rcvd[c] = 0
    BY <2>3 DEF IInv, Queue, Unread
  <2>6. phase \in [Conn -> {"new", "waiting", "served", "refused", "closed"}]
    BY DEF IInv, TypeOK
  <2>7. /\ phase' \in [Conn -> {"new", "waiting", "served", "refused", "closed"}]
        /\ phase'[c] \in {"refused", "served"}
        /\ \A d \in Conn : d # c => phase'[d] = phase[d]
    BY <2>1, <2>3, <2>6
  <2>8. Queue' /\ Unread' /\ Turn'
    <3>1. \A n \in DOMAIN backlog' : backlog'[n] \in Conn /\ backlog'[n] # c
      BY <2>1, <2>3 DEF IInv, Queue
    <3>2. Queue'
      <4>1. \A n \in DOMAIN backlog' : phase'[backlog'[n]] = "waiting"
        BY <2>1, <2>3, <2>7, <3>1 DEF IInv, Queue
      <4>2. \A m, n \in DOMAIN backlog' : backlog'[m] = backlog'[n] => m = n
        <5> TAKE m, n \in DOMAIN backlog'
        <5>1. m \in Nat /\ n \in Nat
          BY <2>1, <2>3
        <5>2. backlog'[m] = backlog'[n] => m + 1 = n + 1
          BY <2>1, <2>3 DEF IInv, Queue
        <5> QED BY <5>1, <5>2
      <4> QED BY <4>1, <4>2 DEF Queue
    <3>3. Unread'
      BY <1>1, <2>7 DEF IInv, Unread
    <3> QED BY <1>1, <1>2, <3>2, <3>3 DEF Turn
  <2>9. \A k \in Slot : clients[k] # -1 => clients[k] \in Conn /\ clients[k] # c /\ conns[k] = clients[k]
    BY <2>5 DEF IInv, SlotsAgree, TypeOK
  <2>10. CASE free = {}
    <3>1. conns' = conns /\ clients' = clients /\ txtout' = txtout /\ phase'[c] = "refused"
      BY <2>1, <2>3, <2>6, <2>10
    <3>2. TypeOK'
      BY <1>1, <1>2, <2>1, <2>3, <2>7, <3>1 DEF IInv, TypeOK
    <3>3. SlotsAgree'
      BY <1>1, <2>7, <2>9, <3>1 DEF IInv, SlotsAgree, Alive
    <3>4. Pending'
      BY <1>1, <3>1 DEF IInv, Pending, Readable
    <3> QED BY <2>8, <3>2, <3>3, <3>4 DEF IInv
  <2>11. CASE free # {}
    <3>1. PICK k \in free : /\ conns' = [conns EXCEPT ![k] = connfd]
                            /\ clients' = SlotTaken(k, connfd)
                            /\ txtout' = [txtout EXCEPT ![k] = << >>]
      BY <2>1, <2>11
    <3>2. k \in Slot /\ clients[k] = -1
      BY <3>1
    <3>3. /\ clients \in [Slot -> Conn \cup {-1}] /\ conns \in [Slot -> Conn \cup {-1}]
          /\ txtout \in [Slot -> Seq(Conn \X Nat)]
      BY DEF IInv, TypeOK
    <3>4. /\ clients' \in [Slot -> Conn \cup {-1}] /\ conns' \in [Slot -> Conn \cup {-1}]
          /\ clients'[k] = connfd /\ conns'[k] = connfd
          /\ \A m \in Slot : m # k => clients'[m] = clients[m] /\ conns'[m] = conns[m]
      BY <2>4, <3>1, <3>2, <3>3 DEF SlotTaken
    <3>5. /\ txtout' \in [Slot -> Seq(Conn \X Nat)]
          /\ \A m \in Slot : m # k => txtout'[m] = txtout[m]
      BY <3>1, <3>2, <3>3
    <3>6. TypeOK'
      BY <1>1, <1>2, <2>1, <2>3, <2>7, <3>4, <3>5 DEF IInv, TypeOK
    <3>7. phase'[c] = IF connfd = -1 THEN "refused" ELSE "served"
      BY <2>1, <2>3, <2>6, <2>11
    <3>8. SlotsAgree'
      <4>1. \A m \in Slot : clients'[m] # -1 => clients'[m] = conns'[m] /\ phase'[conns'[m]] = "served"
        <5> TAKE m \in Slot
        <5>1. CASE m = k
          BY <2>4, <3>4, <3>7, <5>1
        <5>2. CASE m # k
          BY <2>7, <2>9, <3>4, <5>2 DEF IInv, SlotsAgree
        <5> QED BY <5>1, <5>2
      <4>2. ASSUME NEW d \in Conn, phase'[d] = "served"
            PROVE  \E j \in Slot : clients'[j] = d /\ \A m \in Slot : clients'[m] = d => m = j
        <5>1. CASE d = c
          <6>1. clients'[k] = d
            BY <2>4, <3>4, <3>7, <4>2, <5>1
          <6>2. \A m \in Slot : clients'[m] = d => m = k
            BY <2>9, <3>4, <5>1, Constants
          <6> QED BY <3>2, <6>1, <6>2
        <5>2. CASE d # c
          <6>1. phase[d] = "served"
            BY <2>7, <4>2, <5>2
          <6>2. PICK j \in Slot : clients[j] = d /\ \A m \in Slot : clients[m] = d => m = j
            BY <1>1, <6>1 DEF IInv, SlotsAgree, Alive
          <6>3. j # k /\ d # connfd
            BY <2>4, <3>2, <4>2, <5>2, <6>2, Constants
          <6>4. clients'[j] = d /\ \A m \in Slot : clients'[m] = d => m = j
            BY <3>4, <6>2, <6>3
          <6> QED BY <6>4
        <5> QED BY <5>1, <5>2
      <4> QED BY <4>1, <4>2 DEF SlotsAgree
    <3>9. Pending'
      <4> SUFFICES ASSUME NEW m \in Slot, revents[m]
                   PROVE  clients'[m] # -1 /\ Readable(clients'[m])
        BY <1>1 DEF Pending, Readable
      <4>1. clients[m] # -1 /\ Readable(clients[m])
        BY <1>1 DEF IInv, Pending
      <4>2. clients'[m] = clients[m]
        BY <3>2, <3>4, <4>1
      <4> QED BY <1>1, <4>1, <4>2 DEF Readable
    <3> QED BY <2>8, <3>6, <3>8, <3>9 DEF IInv
  <2> QED BY <2>10, <2>11
<1> QED BY <1>3, <1>4

\* The other slots' connections are not the one being served.
LEMMA Storing ==
  ASSUME IInv, Store
  PROVE  IInv'
<1> DEFINE c == conns[i]
<1>1. /\ pc = "serve" /\ revents[i] /\ Advance /\ revents' = revents /\ clients' = clients
      /\ conns' = conns /\ sent' = sent /\ fin' = fin /\ rst' = rst
      /\ backlog' = backlog /\ phase' = phase
  BY DEF Store, client
<1>2. PICK n \in 1..Smaller(readbufsz, sent[c] - rcvd[c]) :
        LET text == txtout[i] \o NextBytes(c, n) IN
        \E kept \in 0..Len(text) :
          /\ file' = [file EXCEPT ![addr[c]] = @ \o SubSeq(text, 1, Len(text) - kept)]
          /\ txtout' = [txtout EXCEPT ![i] = SubSeq(text, Len(text) - kept + 1, Len(text))]
          /\ rcvd' = [rcvd EXCEPT ![c] = @ + n]
  BY DEF Store
<1> DEFINE next == NextBytes(c, n)
           text == txtout[i] \o next
<1>3. /\ i \in Slot /\ c \in Conn /\ clients[i] = c /\ phase[c] = "served"
      /\ \A k \in Slot : clients[k] = c => k = i
  BY <1>1, Served
<1>4. /\ pc' \in {"poll", "serve"} /\ i' \in 0..MAX_NUM_CLIENTS
      /\ pc' = "serve" => i' \in Slot /\ i' = i + 1
  BY <1>1, Advancing
<1>5. /\ rcvd \in [Conn -> Nat] /\ sent \in [Conn -> Nat] /\ txtout \in [Slot -> Seq(Item)]
      /\ file \in [{addr[d] : d \in Conn} -> Seq(Item)] /\ clients \in [Slot -> Conn \cup {-1}]
  BY DEF IInv, TypeOK, Item
<1>6. n \in Nat
  BY <1>2, <1>3, <1>5, Constants DEF Smaller
<1>7. next \in [1..n -> Item]
  BY <1>3, <1>5, <1>6 DEF NextBytes, Item
<1>8. /\ next \in Seq(Item) /\ Len(next) = n /\ DOMAIN next = 1..n
      /\ \A m \in 1..n : next[m] = <<c, rcvd[c] + m>>
  <2>1. \A m \in 1..n : next[m] = <<c, rcvd[c] + m>>
    BY <1>6 DEF NextBytes
  <2> HIDE DEF next
  <2> QED BY <1>6, <1>7, <2>1
<1> HIDE DEF next
<1>9. text \in Seq(Item)
  BY <1>3, <1>5, <1>8
<1>10. PICK kept \in 0..Len(text) :
          /\ file' = [file EXCEPT ![addr[c]] = @ \o SubSeq(text, 1, Len(text) - kept)]
          /\ txtout' = [txtout EXCEPT ![i] = SubSeq(text, Len(text) - kept + 1, Len(text))]
          /\ rcvd' = [rcvd EXCEPT ![c] = @ + n]
  BY <1>2 DEF next
<1> HIDE DEF text
<1> DEFINE out == SubSeq(text, 1, Len(text) - kept)
           rest == SubSeq(text, Len(text) - kept + 1, Len(text))
<1>11. out \in Seq(Item) /\ rest \in Seq(Item)
  BY <1>9
<1> HIDE DEF out, rest
<1>12. /\ rcvd' \in [Conn -> Nat] /\ rcvd'[c] = rcvd[c] + n
       /\ \A d \in Conn : d # c => rcvd'[d] = rcvd[d]
  BY <1>3, <1>5, <1>6, <1>10
<1>13. /\ txtout' \in [Slot -> Seq(Item)] /\ txtout'[i] = rest
       /\ \A k \in Slot : k # i => txtout'[k] = txtout[k]
  BY <1>3, <1>5, <1>10, <1>11 DEF rest
<1>14. /\ addr[c] \in {addr[d] : d \in Conn} /\ file[addr[c]] \in Seq(Item)
  BY <1>3, <1>5
<1>15. file[addr[c]] \o out \in Seq(Item)
  BY <1>11, <1>14
<1>16. /\ file' \in [{addr[d] : d \in Conn} -> Seq(Item)] /\ file'[addr[c]] = file[addr[c]] \o out
       /\ \A a \in {addr[d] : d \in Conn} : a # addr[c] => file'[a] = file[a]
  BY <1>5, <1>10, <1>14, <1>15 DEF out
<1>17. TypeOK'
  BY <1>1, <1>4, <1>12, <1>13, <1>16 DEF IInv, TypeOK, Item
<1>18. SlotsAgree' /\ Queue' /\ Turn'
  BY <1>1, <1>4 DEF IInv, SlotsAgree, Queue, Turn, Alive
<1>19. Unread'
  BY <1>1, <1>3, <1>12 DEF IInv, Unread
<1>20. Pending'
  <2> SUFFICES ASSUME pc' = "serve", NEW k \in Slot, k >= i', revents[k]
               PROVE  clients[k] # -1 /\ Readable(clients[k])'
    BY <1>1, <1>4 DEF Pending, Readable
  <2>1. k \in Nat /\ i \in Nat /\ i' = i + 1
    BY <1>3, <1>4, Constants DEF Slot
  <2>2. k >= i /\ k # i
    BY <2>1
  <2>3. clients[k] # -1 /\ Readable(clients[k]) /\ clients[k] # c
    BY <1>1, <1>3, <2>2 DEF IInv, Pending
  <2>4. clients[k] \in Conn
    BY <1>5, <2>3
  <2> QED BY <1>1, <1>12, <2>3, <2>4 DEF Readable
<1> QED BY <1>17, <1>18, <1>19, <1>20 DEF IInv

LEMMA Dropping ==
  ASSUME IInv, Drop
  PROVE  IInv'
<1> DEFINE c == conns[i]
<1>1. /\ pc = "serve" /\ revents[i] /\ Advance /\ revents' = revents /\ conns' = conns
      /\ sent' = sent /\ fin' = fin /\ rst' = rst /\ backlog' = backlog /\ rcvd' = rcvd
      /\ Ended(c) /\ phase' = [phase EXCEPT ![c] = "closed"]
      /\ file' = [file EXCEPT ![addr[c]] = @ \o txtout[i]]
      /\ txtout' = [txtout EXCEPT ![i] = << >>] /\ clients' = [clients EXCEPT ![i] = -1]
  BY DEF Drop, client, Flushed, Freed
<1>2. /\ i \in Slot /\ c \in Conn /\ clients[i] = c /\ phase[c] = "served"
      /\ \A k \in Slot : clients[k] = c => k = i
  BY <1>1, Served
<1>3. /\ pc' \in {"poll", "serve"} /\ i' \in 0..MAX_NUM_CLIENTS
      /\ pc' = "serve" => i' \in Slot /\ i' = i + 1
  BY <1>1, Advancing
<1>4. /\ txtout \in [Slot -> Seq(Item)] /\ clients \in [Slot -> Conn \cup {-1}]
      /\ file \in [{addr[d] : d \in Conn} -> Seq(Item)]
      /\ phase \in [Conn -> {"new", "waiting", "served", "refused", "closed"}]
      /\ rcvd \in [Conn -> Nat] /\ sent \in [Conn -> Nat]
  BY DEF IInv, TypeOK, Item
<1>5. addr[c] \in {addr[d] : d \in Conn} /\ file[addr[c]] \in Seq(Item) /\ txtout[i] \in Seq(Item)
  BY <1>2, <1>4
<1>6. file[addr[c]] \o txtout[i] \in Seq(Item)
  BY <1>5
<1>7. /\ file' \in [{addr[d] : d \in Conn} -> Seq(Item)]
      /\ file'[addr[c]] = file[addr[c]] \o txtout[i]
      /\ \A a \in {addr[d] : d \in Conn} : a # addr[c] => file'[a] = file[a]
  BY <1>1, <1>4, <1>5, <1>6
<1>8. /\ clients' \in [Slot -> Conn \cup {-1}] /\ clients'[i] = -1
      /\ \A k \in Slot : k # i => clients'[k] = clients[k]
  BY <1>1, <1>2, <1>4
<1>9. /\ phase' \in [Conn -> {"new", "waiting", "served", "refused", "closed"}]
      /\ phase'[c] = "closed" /\ \A d \in Conn : d # c => phase'[d] = phase[d]
  BY <1>1, <1>2, <1>4
<1>10. txtout' \in [Slot -> Seq(Item)] /\ \A k \in Slot : k # i => txtout'[k] = txtout[k]
  BY <1>1, <1>2, <1>4
<1>11. TypeOK'
  BY <1>1, <1>3, <1>7, <1>8, <1>9, <1>10 DEF IInv, TypeOK, Item
<1>12. SlotsAgree'
  <2>1. \A k \in Slot : clients'[k] # -1 => clients'[k] = conns'[k] /\ phase'[conns'[k]] = "served"
    <3> SUFFICES ASSUME NEW k \in Slot, clients'[k] # -1
                 PROVE  clients'[k] = conns[k] /\ phase'[conns[k]] = "served"
      BY <1>1
    <3>1. k # i /\ clients[k] # -1 /\ clients[k] \in Conn
      BY <1>4, <1>8
    <3>2. clients[k] = conns[k] /\ phase[conns[k]] = "served" /\ clients[k] # c
      BY <1>2, <3>1 DEF IInv, SlotsAgree
    <3> QED BY <1>8, <1>9, <3>1, <3>2
  <2>2. ASSUME NEW d \in Conn, phase'[d] = "served"
        PROVE  \E j \in Slot : clients'[j] = d /\ \A m \in Slot : clients'[m] = d => m = j
    <3>1. d # c /\ phase[d] = "served" /\ d # -1
      BY <1>9, <2>2, Constants
    <3>2. PICK j \in Slot : clients[j] = d /\ \A m \in Slot : clients[m] = d => m = j
      BY <1>1, <3>1 DEF IInv, SlotsAgree, Alive
    <3>3. j # i
      BY <1>2, <3>1, <3>2
    <3>4. clients'[j] = d /\ \A m \in Slot : clients'[m] = d => m = j
      BY <1>8, <3>1, <3>2, <3>3
    <3> QED BY <3>4
  <2> QED BY <2>1, <2>2 DEF SlotsAgree
<1>13. Queue'
  <2>1. \A n \in DOMAIN backlog : backlog[n] \in Conn /\ backlog[n] # c
    BY <1>2 DEF IInv, TypeOK, Queue
  <2> QED BY <1>1, <1>9, <2>1 DEF IInv, Queue
<1>14. Unread' /\ Turn'
  BY <1>1, <1>3, <1>9 DEF IInv, Unread, Turn
<1>15. Pending'
  <2> SUFFICES ASSUME pc' = "serve", NEW k \in Slot, k >= i', revents[k]
               PROVE  clients'[k] # -1 /\ Readable(clients'[k])
    BY <1>1, <1>3 DEF Pending, Readable
  <2>1. k \in Nat /\ i \in Nat /\ i' = i + 1
    BY <1>2, <1>3, Constants DEF Slot
  <2>2. k >= i /\ k # i
    BY <2>1
  <2> QED BY <1>1, <1>8, <2>2 DEF IInv, Pending
<1> QED BY <1>11, <1>12, <1>13, <1>14, <1>15 DEF IInv

\* Nothing a client does takes a byte from a slot's connection.
LEMMA Connecting ==
  ASSUME IInv, NEW c \in Conn, Connect(c)
  PROVE  IInv'
<1>1. /\ pc' = pc /\ i' = i /\ revents' = revents /\ clients' = clients /\ conns' = conns
      /\ txtout' = txtout /\ file' = file /\ sent' = sent /\ fin' = fin /\ rst' = rst
      /\ rcvd' = rcvd /\ phase[c] = "new" /\ Alive
      /\ phase' = [phase EXCEPT ![c] = "waiting"] /\ backlog' = Append(backlog, c)
  BY DEF Connect, client, server
<1>2. /\ backlog \in Seq(Conn)
      /\ phase \in [Conn -> {"new", "waiting", "served", "refused", "closed"}]
      /\ clients \in [Slot -> Conn \cup {-1}]
  BY DEF IInv, TypeOK
<1>3. /\ phase' \in [Conn -> {"new", "waiting", "served", "refused", "closed"}]
      /\ phase'[c] = "waiting" /\ \A d \in Conn : d # c => phase'[d] = phase[d]
  BY <1>1, <1>2
<1>4. /\ backlog' \in Seq(Conn) /\ Len(backlog') = Len(backlog) + 1
      /\ backlog'[Len(backlog) + 1] = c /\ backlog' # << >>
      /\ \A n \in 1..Len(backlog) : backlog'[n] = backlog[n]
  BY <1>1, <1>2
<1>5. TypeOK'
  BY <1>1, <1>3, <1>4 DEF IInv, TypeOK
<1>6. \A k \in Slot : clients[k] # -1 => conns[k] = clients[k] /\ clients[k] \in Conn /\ clients[k] # c
  BY <1>1, <1>2 DEF IInv, SlotsAgree
<1>7. SlotsAgree'
  BY <1>1, <1>3, <1>6 DEF IInv, SlotsAgree, Alive
<1>8. Queue'
  <2>1. \A n \in 1..Len(backlog) : backlog[n] \in Conn /\ backlog[n] # c
    BY <1>1, <1>2 DEF IInv, Queue
  <2>2. \A n \in DOMAIN backlog' : n \in 1..Len(backlog) \/ n = Len(backlog) + 1
    BY <1>2, <1>4
  <2>3. \A n \in DOMAIN backlog' : phase'[backlog'[n]] = "waiting"
    BY <1>2, <1>3, <1>4, <2>1, <2>2 DEF IInv, Queue
  <2>4. \A m, n \in DOMAIN backlog' : backlog'[m] = backlog'[n] => m = n
    BY <1>2, <1>4, <2>1, <2>2 DEF IInv, Queue
  <2> QED BY <2>3, <2>4 DEF Queue
<1>9. Unread' /\ Turn' /\ Pending'
  <2>1. Unread'
    BY <1>1, <1>3 DEF IInv, Unread
  <2>2. Turn' /\ Pending'
    BY <1>1, <1>4 DEF IInv, Turn, Pending, Readable
  <2> QED BY <2>1, <2>2
<1> QED BY <1>5, <1>7, <1>8, <1>9 DEF IInv

LEMMA Talking ==
  ASSUME IInv, NEW c \in Conn, Send(c) \/ Finish(c) \/ Reset(c)
  PROVE  IInv'
<1>1. /\ pc' = pc /\ i' = i /\ revents' = revents /\ clients' = clients /\ conns' = conns
      /\ txtout' = txtout /\ file' = file /\ rcvd' = rcvd /\ phase' = phase
      /\ backlog' = backlog /\ phase[c] \in {"waiting", "served"}
  BY DEF Send, Finish, Reset, server
<1>2. /\ sent \in [Conn -> Nat] /\ rcvd \in [Conn -> Nat]
      /\ fin \in [Conn -> BOOLEAN] /\ rst \in [Conn -> BOOLEAN]
      /\ clients \in [Slot -> Conn \cup {-1}]
  BY DEF IInv, TypeOK
<1>3. /\ sent' \in [Conn -> Nat] /\ fin' \in [Conn -> BOOLEAN] /\ rst' \in [Conn -> BOOLEAN]
  <2>1. CASE Send(c)
    BY <1>2, <2>1 DEF Send
  <2>2. CASE Finish(c)
    BY <1>2, <2>2 DEF Finish
  <2>3. CASE Reset(c)
    BY <1>2, <2>3 DEF Reset
  <2> QED BY <2>1, <2>2, <2>3
<1>4. \A d \in Conn : /\ sent[d] <= sent'[d] /\ (fin[d] => fin'[d]) /\ (rst[d] => rst'[d])
                      /\ d # c => sent'[d] = sent[d]
  BY <1>2 DEF Send, Finish, Reset
<1>5. TypeOK'
  BY <1>1, <1>3 DEF IInv, TypeOK
<1>6. SlotsAgree' /\ Queue' /\ Unread' /\ Turn'
  BY <1>1 DEF IInv, SlotsAgree, Queue, Unread, Turn, Alive
<1>7. \A d \in Conn : Readable(d) => rcvd[d] < sent'[d] \/ fin'[d] \/ rst'[d]
  BY <1>2, <1>3, <1>4 DEF Readable
<1>8. Pending'
  BY <1>1, <1>2, <1>7 DEF IInv, Pending, Readable
<1> QED BY <1>5, <1>6, <1>8 DEF IInv
-----------------------------------------------------------------------------
LEMMA Inductive == IInv /\ [Next]_vars => IInv'
<1> SUFFICES ASSUME IInv, [Next]_vars
             PROVE  IInv'
  OBVIOUS
<1>1. CASE Run
  BY <1>1, Polling, Accepting, Skipping, Storing, Dropping DEF Run
<1>2. CASE Kill
  BY <1>2, Killing
<1>3. CASE Client
  BY <1>3, Connecting, Talking DEF Client
<1>4. CASE UNCHANGED vars
  <2>1. /\ pc' = pc /\ i' = i /\ revents' = revents /\ clients' = clients /\ conns' = conns
        /\ txtout' = txtout /\ file' = file /\ sent' = sent /\ fin' = fin /\ rst' = rst
        /\ rcvd' = rcvd /\ phase' = phase /\ backlog' = backlog
    BY <1>4 DEF vars, server, client
  <2>2. TypeOK' /\ SlotsAgree' /\ Queue' /\ Unread' /\ Turn'
    <3>1. TypeOK'
      BY <2>1 DEF IInv, TypeOK
    <3>2. SlotsAgree' /\ Queue' /\ Unread'
      BY <2>1 DEF IInv, SlotsAgree, Queue, Unread, Alive
    <3>3. Turn'
      BY <2>1 DEF IInv, Turn
    <3> QED BY <3>1, <3>2, <3>3
  <2>3. Pending'
    BY <2>1 DEF IInv, Pending, Readable
  <2> QED BY <2>2, <2>3 DEF IInv
<1> QED BY <1>1, <1>2, <1>3, <1>4 DEF Next

LEMMA Invariance == Spec => []IInv
<1>1. Init => IInv
  BY Start
<1> QED BY <1>1, Inductive, PTL DEF Spec

\* The server's arrays and buffers keep their types, and its loop its bounds,
\* for any number of slots and connections.
THEOREM TypeCorrect == Spec => []TypeOK
<1>1. IInv => TypeOK
  BY DEF IInv
<1> QED BY <1>1, Invariance, PTL

\* clients[] and conns[] agree however connections come, fail and go.
THEOREM SlotsAgreeHolds == Spec => []SlotsAgree
<1>1. IInv => SlotsAgree
  BY DEF IInv
<1> QED BY <1>1, Invariance, PTL

\* No read() of the server can block: a set bit belongs to an open connection
\* that has something to read, in a slot taken during the round as in any.
THEOREM NeverBlocksHolds == Spec => []NeverBlocks
<1>1. IInv => NeverBlocks
  BY DEF IInv, Pending, NeverBlocks
<1> QED BY <1>1, Invariance, PTL

-----------------------------------------------------------------------------
(* The files.  A connection's bytes leave stdio in the order in which they *)
(* were read, so those in the file are always the first ones.              *)

SamePort(c, d) == c < d /\ addr[c] = addr[d]

\* Whoever uses a port after c has come after c was reset or dropped.
Arrival ==
  \A c, d \in Conn : SamePort(c, d) /\ phase[d] # "new" =>
    rst[c] \/ phase[c] \in {"refused", "closed"}

\* The bytes of c in a text, by their numbers.
Bytes(s, c) == {s[n][2] : n \in {m \in DOMAIN s : s[m][1] = c}}
InFile(c) == Bytes(file[addr[c]], c)

\* What stdio holds are the last bytes read, and the others are in the file.
Held(k) == Len(txtout[k])
Buffered ==
  \A k \in Slot : clients[k] # -1 =>
    /\ Held(k) <= rcvd[clients[k]]
    /\ \A n \in 1..Held(k) : txtout[k][n] = <<clients[k], rcvd[clients[k]] - Held(k) + n>>
    /\ InFile(clients[k]) = 1..(rcvd[clients[k]] - Held(k))

Fresh == \A c \in Conn : phase[c] \in {"new", "waiting"} => InFile(c) = {}

Closed == \A c \in Conn : phase[c] = "closed" => rcvd[c] = sent[c] /\ InFile(c) = 1..sent[c]

JInv == Arrival /\ Buffered /\ Fresh /\ Closed /\ InOrder

LEMMA Items ==
  ASSUME NEW s \in Seq(Item)
  PROVE  /\ Len(s) \in Nat /\ DOMAIN s = 1..Len(s)
         /\ \A n \in 1..Len(s) : s[n] \in Item /\ s[n][1] \in Conn /\ s[n][2] \in Nat
<1>1. Len(s) \in Nat /\ DOMAIN s = 1..Len(s) /\ \A n \in 1..Len(s) : s[n] \in Item
  OBVIOUS
<1>2. \A x \in Item : x[1] \in Conn /\ x[2] \in Nat
  BY DEF Item
<1> QED BY <1>1, <1>2

LEMMA Joined ==
  ASSUME NEW S, NEW s \in Seq(S), NEW t \in Seq(S)
  PROVE  /\ s \o t \in Seq(S) /\ Len(s \o t) = Len(s) + Len(t)
         /\ \A n \in 1..Len(s) : (s \o t)[n] = s[n]
         /\ \A n \in 1..Len(t) : (s \o t)[Len(s) + n] = t[n]
         /\ \A n \in 1..Len(s \o t) : n \in 1..Len(s) \/ n - Len(s) \in 1..Len(t)
OBVIOUS

\* Two ways to cut a text.
LEMMA Cut ==
  ASSUME NEW S, NEW s \in Seq(S), NEW k \in 0..Len(s)
  PROVE  /\ SubSeq(s, 1, Len(s) - k) \in Seq(S) /\ SubSeq(s, Len(s) - k + 1, Len(s)) \in Seq(S)
         /\ Len(SubSeq(s, 1, Len(s) - k)) = Len(s) - k /\ Len(SubSeq(s, Len(s) - k + 1, Len(s))) = k
         /\ \A n \in 1..(Len(s) - k) : SubSeq(s, 1, Len(s) - k)[n] = s[n]
         /\ \A n \in 1..k : SubSeq(s, Len(s) - k + 1, Len(s))[n] = s[Len(s) - k + n]
OBVIOUS

\* The state as the provers need it.
LEMMA Types ==
  ASSUME IInv
  PROVE  /\ clients \in [Slot -> Conn \cup {-1}] /\ txtout \in [Slot -> Seq(Item)]
         /\ file \in [{addr[d] : d \in Conn} -> Seq(Item)]
         /\ rcvd \in [Conn -> Nat] /\ sent \in [Conn -> Nat]
         /\ phase \in [Conn -> {"new", "waiting", "served", "refused", "closed"}]
         /\ backlog \in Seq(Conn) /\ Slot \subseteq Nat
         /\ \A k \in Slot : Held(k) \in Nat /\ DOMAIN txtout[k] = 1..Held(k)
         /\ \A c \in Conn : addr[c] \in DOMAIN file /\ file[addr[c]] \in Seq(Item) /\ c \in Nat
<1>1. TypeOK
  BY DEF IInv
<1>2. txtout \in [Slot -> Seq(Item)] /\ file \in [{addr[d] : d \in Conn} -> Seq(Item)]
  BY <1>1 DEF TypeOK, Item
<1>3. \A k \in Slot : Held(k) \in Nat /\ DOMAIN txtout[k] = 1..Held(k)
  BY <1>2 DEF Held
<1>4. /\ clients \in [Slot -> Conn \cup {-1}] /\ rcvd \in [Conn -> Nat] /\ sent \in [Conn -> Nat]
      /\ phase \in [Conn -> {"new", "waiting", "served", "refused", "closed"}]
      /\ backlog \in Seq(Conn)
  BY <1>1 DEF TypeOK
<1>5. \A c \in Conn : addr[c] \in DOMAIN file /\ file[addr[c]] \in Seq(Item)
  BY <1>2
<1>6. Slot \subseteq Nat /\ \A c \in Conn : c \in Nat
  BY Constants DEF Slot
<1> QED BY <1>2, <1>3, <1>4, <1>5, <1>6

\* t is s with more bytes of c behind it, from number k + 1 on.
Grown(s, t, c, k, n) ==
  /\ s \in Seq(Item) /\ t \in Seq(Item) /\ k \in Nat /\ n \in Nat /\ Len(t) = Len(s) + n
  /\ \A m \in 1..Len(s) : t[m] = s[m]
  /\ \A m \in 1..n : t[Len(s) + m] = <<c, k + m>>

LEMMA Growing ==
  ASSUME NEW s \in Seq(Item), NEW c, NEW k \in Nat, NEW out \in Seq(Item),
         \A m \in 1..Len(out) : out[m] = <<c, k + m>>
  PROVE  Grown(s, s \o out, c, k, Len(out))
BY Joined DEF Grown

\* A connection's first bytes, and those that come next, are its first bytes.
LEMMA GrownBytes ==
  ASSUME NEW s, NEW t, NEW c, NEW k, NEW n, Grown(s, t, c, k, n)
  PROVE  /\ Bytes(s, c) = 1..k => Bytes(t, c) = 1..(k + n)
         /\ \A d : d # c => Bytes(t, d) = Bytes(s, d)
<1>1. /\ DOMAIN s = 1..Len(s) /\ DOMAIN t = 1..(Len(s) + n) /\ Len(s) \in Nat /\ k \in Nat /\ n \in Nat
      /\ \A m \in 1..Len(s) : t[m] = s[m]
      /\ \A m \in 1..n : t[Len(s) + m] = <<c, k + m>>
      /\ \A m \in 1..(Len(s) + n) : m \in 1..Len(s) \/ (m - Len(s) \in 1..n /\ Len(s) + (m - Len(s)) = m)
  <2>1. /\ s \in Seq(Item) /\ t \in Seq(Item) /\ k \in Nat /\ n \in Nat /\ Len(t) = Len(s) + n
        /\ \A m \in 1..Len(s) : t[m] = s[m]
        /\ \A m \in 1..n : t[Len(s) + m] = <<c, k + m>>
    BY DEF Grown
  <2>2. DOMAIN s = 1..Len(s) /\ DOMAIN t = 1..Len(t) /\ Len(s) \in Nat
    BY <2>1
  <2>3. \A l \in Nat : \A m \in 1..(l + n) : m \in 1..l \/ (m - l \in 1..n /\ l + (m - l) = m)
    BY <2>1
  <2> QED BY <2>1, <2>2, <2>3
<1>2. \A d : \A v : v \in Bytes(s, d) <=> \E m \in 1..Len(s) : s[m][1] = d /\ s[m][2] = v
  BY <1>1 DEF Bytes
<1>3. \A d : \A v : v \in Bytes(t, d) <=> \E m \in 1..(Len(s) + n) : t[m][1] = d /\ t[m][2] = v
  BY <1>1 DEF Bytes
<1>4. \A m \in 1..Len(s) : m \in 1..(Len(s) + n)
  BY <1>1
<1>5. \A m \in 1..n : Len(s) + m \in 1..(Len(s) + n) /\ t[Len(s) + m][1] = c /\ t[Len(s) + m][2] = k + m
  BY <1>1
<1>6. ASSUME NEW d, d # c PROVE Bytes(t, d) = Bytes(s, d)
  <2>1. ASSUME NEW m \in 1..(Len(s) + n), t[m][1] = d PROVE m \in 1..Len(s)
    <3>1. CASE m \in 1..Len(s)
      BY <3>1
    <3>2. CASE m - Len(s) \in 1..n /\ Len(s) + (m - Len(s)) = m
      <4>1. t[Len(s) + (m - Len(s))][1] = c
        BY <3>2, <1>5
      <4>2. t[m][1] = c
        BY <3>2, <4>1, Zenon
      <4> QED BY <4>2, <2>1, <1>6, Zenon
    <3> QED BY <1>1, <3>1, <3>2
  <2>2. ASSUME NEW v PROVE v \in Bytes(t, d) <=> v \in Bytes(s, d)
    <3>1. v \in Bytes(t, d) => v \in Bytes(s, d)
      BY <1>1, <1>2, <1>3, <2>1
    <3>2. v \in Bytes(s, d) => v \in Bytes(t, d)
      BY <1>1, <1>2, <1>3, <1>4
    <3> QED BY <3>1, <3>2
  <2>3. Bytes(t, d) = {v \in Bytes(t, d) : TRUE} /\ Bytes(s, d) = {v \in Bytes(s, d) : TRUE}
    OBVIOUS
  <2> QED BY <2>2, <2>3
<1>7. ASSUME Bytes(s, c) = 1..k PROVE Bytes(t, c) = 1..(k + n)
  <2>1. ASSUME NEW v, v \in Bytes(t, c) PROVE v \in 1..(k + n)
    <3>1. PICK m \in 1..(Len(s) + n) : t[m][1] = c /\ t[m][2] = v
      BY <1>3, <2>1
    <3>2. CASE m \in 1..Len(s)
      <4>1. s[m][1] = c /\ s[m][2] = v
        BY <1>1, <3>1, <3>2
      <4>2. v \in 1..k
        BY <1>2, <1>7, <3>2, <4>1
      <4> QED BY <1>1, <4>2
    <3>3. CASE m - Len(s) \in 1..n /\ Len(s) + (m - Len(s)) = m
      <4>1. v = k + (m - Len(s))
        BY <1>5, <3>1, <3>3
      <4> QED BY <1>1, <3>3, <4>1
    <3> QED BY <1>1, <3>2, <3>3
  <2>2. ASSUME NEW v \in 1..(k + n) PROVE v \in Bytes(t, c)
    <3>1. CASE v \in 1..k
      <4>1. PICK m \in 1..Len(s) : s[m][1] = c /\ s[m][2] = v
        BY <1>2, <1>7, <3>1
      <4> QED BY <1>1, <1>3, <1>4, <4>1
    <3>2. CASE v > k
      <4>1. v - k \in 1..n /\ k + (v - k) = v
        BY <1>1, <3>2
      <4>2. /\ Len(s) + (v - k) \in 1..(Len(s) + n)
            /\ t[Len(s) + (v - k)][1] = c /\ t[Len(s) + (v - k)][2] = v
        BY <1>5, <4>1
      <4> QED BY <1>3, <4>2
    <3> QED BY <1>1, <3>1, <3>2
  <2> QED BY <2>1, <2>2
<1> QED BY <1>6, <1>7

\* InOrder at one place of a text.
Placed(t, n, a, taken, reset) ==
  LET x == t[n]
      earlier == {t[m] : m \in 1..(n - 1)}
  IN
  /\ addr[x[1]] = a /\ x[2] <= taken[x[1]]
  /\ {y[2] : y \in {z \in earlier : z[1] = x[1]}} = 1..(x[2] - 1)
  /\ \A y \in earlier : y[1] > x[1] => reset[x[1]]

LEMMA InOrderPlaced ==
  /\ InOrder <=> \A a \in DOMAIN file : \A n \in DOMAIN file[a] : Placed(file[a], n, a, rcvd, rst)
  /\ InOrder' <=> \A a \in DOMAIN file' : \A n \in DOMAIN file'[a] : Placed(file'[a], n, a, rcvd', rst')
BY DEF InOrder, Placed

\* More may have been read and more be reset, and the text may go on.
LEMMA StillPlaced ==
  ASSUME NEW s \in Seq(Item), NEW t, NEW n \in 1..Len(s), NEW a, NEW taken \in [Conn -> Nat], NEW reset,
         NEW more \in [Conn -> Nat], NEW resets, Placed(s, n, a, taken, reset),
         \A m \in 1..Len(s) : t[m] = s[m],
         \A c \in Conn : taken[c] <= more[c] /\ (reset[c] => resets[c])
  PROVE  Placed(t, n, a, more, resets)
<1>1. /\ s[n][1] \in Conn /\ s[n][2] \in Nat /\ t[n] = s[n] /\ Len(s) \in Nat
  BY Items
<1>2. \A m \in 1..(n - 1) : t[m] = s[m]
  BY <1>1
<1>3. {t[m] : m \in 1..(n - 1)} = {s[m] : m \in 1..(n - 1)}
  BY <1>2
<1>4. s[n][2] <= taken[s[n][1]] => s[n][2] <= more[s[n][1]]
  <2> DEFINE c == s[n][1]
             v == s[n][2]
  <2>1. taken[c] \in Nat /\ more[c] \in Nat /\ v \in Nat /\ taken[c] <= more[c]
    BY <1>1
  <2> HIDE DEF c, v
  <2>2. v <= taken[c] => v <= more[c]
    BY <2>1
  <2> QED BY <2>2 DEF c, v
<1> QED BY <1>1, <1>3, <1>4 DEF Placed

\* A byte that is put behind the ones before it.
LEMMA NewlyPlaced ==
  ASSUME NEW s \in Seq(Item), NEW t \in Seq(Item), NEW c \in Conn, NEW k \in Nat, NEW n \in Nat,
         Grown(s, t, c, k, n), Bytes(s, c) = 1..k,
         NEW m \in 1..n, NEW taken \in [Conn -> Nat], NEW reset, k + n <= taken[c],
         reset[c] \/ \A j \in 1..Len(s) : s[j][1] <= c
  PROVE  Placed(t, Len(s) + m, addr[c], taken, reset)
<1> DEFINE p == Len(s) + m
           earlier == {t[j] : j \in 1..(p - 1)}
<1>1. /\ s \in Seq(Item) /\ Len(s) \in Nat /\ k \in Nat /\ n \in Nat /\ c \in Nat
      /\ m \in Nat /\ m >= 1 /\ m <= n
      /\ \A j \in 1..Len(s) : t[j] = s[j]
      /\ \A j \in 1..n : t[Len(s) + j] = <<c, k + j>>
      /\ t \in Seq(Item) /\ Len(t) = Len(s) + n
  <2>1. /\ s \in Seq(Item) /\ k \in Nat /\ n \in Nat /\ t \in Seq(Item) /\ Len(t) = Len(s) + n
        /\ \A j \in 1..Len(s) : t[j] = s[j]
        /\ \A j \in 1..n : t[Len(s) + j] = <<c, k + j>>
    BY DEF Grown
  <2>2. c \in Nat
    BY Constants
  <2>3. Len(s) \in Nat /\ m \in Nat /\ m >= 1 /\ m <= n
    BY <2>1
  <2> QED BY <2>1, <2>2, <2>3
<1>2. t[p] = <<c, k + m>> /\ p \in Nat /\ p - 1 = Len(s) + (m - 1)
  <2>1. t[Len(s) + m] = <<c, k + m>>
    BY <1>1
  <2>2. p \in Nat /\ p - 1 = Len(s) + (m - 1)
    BY <1>1
  <2> QED BY <2>1, <2>2
<1> DEFINE u == SubSeq(t, 1, p - 1)
<1>3. u \in Seq(Item) /\ Len(u) = p - 1 /\ \A j \in 1..(p - 1) : u[j] = t[j]
  <2>1. t \in Seq(Item) /\ p - 1 \in 0..Len(t)
    BY <1>1
  <2> QED BY <2>1, SubSeqProperties
<1> HIDE DEF u
<1>4. \A v : v \in {y[2] : y \in {z \in earlier : z[1] = c}} <=> v \in 1..(k + (m - 1))
  <2>1. \A j \in 1..Len(s) : j \in 1..(p - 1)
    BY <1>1
  <2>2. \A j \in 1..(m - 1) : Len(s) + j \in 1..(p - 1) /\ j \in 1..n
    BY <1>1
  <2>3. m - 1 \in Nat
    BY <1>1
  <2>4. Grown(s, u, c, k, m - 1)
    BY <1>1, <1>2, <1>3, <2>1, <2>2, <2>3 DEF Grown
  <2>5. Bytes(u, c) = 1..(k + (m - 1))
    BY <2>4, GrownBytes
  <2>6. DOMAIN u = 1..(p - 1)
    BY <1>3
  <2> HIDE DEF p
  <2>7. \A v : v \in Bytes(u, c) <=> \E j \in 1..(p - 1) : t[j][1] = c /\ t[j][2] = v
    BY <1>3, <2>6 DEF Bytes
  <2>8. \A v : v \in {y[2] : y \in {z \in earlier : z[1] = c}} <=> \E j \in 1..(p - 1) : t[j][1] = c /\ t[j][2] = v
    OBVIOUS
  <2> QED BY <2>5, <2>7, <2>8
<1>5. \A y \in earlier : y[1] > c => reset[c]
  <2> SUFFICES ASSUME NEW j \in 1..(p - 1), t[j][1] > c PROVE reset[c]
    OBVIOUS
  <2>1. CASE j \in 1..Len(s)
    <3>1. t[j] = s[j] /\ s[j][1] \in Conn
      BY <1>1, <2>1, Items
    <3>2. ~(t[j][1] <= c)
      <4> DEFINE d == t[j][1]
      <4>1. d \in Nat /\ c \in Nat /\ d > c
        BY <1>1, <3>1, Constants
      <4> HIDE DEF d
      <4>2. ~(d <= c)
        BY <4>1
      <4> QED BY <4>2 DEF d
    <3> QED BY <2>1, <3>1, <3>2
  <2>2. CASE j - Len(s) \in 1..n
    <3>1. Len(s) + (j - Len(s)) = j
      BY <1>1, <1>2
    <3>2. t[Len(s) + (j - Len(s))] = <<c, k + (j - Len(s))>>
      BY <1>1, <2>2
    <3>3. <<c, k + (j - Len(s))>>[1] = c
      OBVIOUS
    <3>4. t[j][1] = c
      BY <3>1, <3>2, <3>3, Zenon
    <3>5. ~(c > c)
      BY <1>1
    <3> QED BY <3>4, <3>5
  <2>3. j \in 1..Len(s) \/ j - Len(s) \in 1..n
    BY <1>1, <1>2
  <2> QED BY <2>1, <2>2, <2>3
<1>6. k + m <= taken[c] /\ k + (m - 1) = (k + m) - 1
  <2> DEFINE r == taken[c]
  <2>1. r \in Nat /\ k + n <= r
    OBVIOUS
  <2> HIDE DEF r
  <2>2. k + m <= r /\ k + (m - 1) = (k + m) - 1
    BY <1>1, <2>1
  <2> QED BY <2>2 DEF r
<1> HIDE DEF p
<1>7. {y[2] : y \in {z \in earlier : z[1] = c}} = 1..((k + m) - 1)
  BY <1>4, <1>6
<1>8. t[p][1] = c /\ t[p][2] = k + m
  BY <1>2
<1>9. Placed(t, p, addr[c], taken, reset)
  BY <1>5, <1>6, <1>7, <1>8, Zenon DEF Placed
<1> QED BY <1>9 DEF p

\* Nothing of a later connection is in the file, or c was reset: the later one
\* has come.
LEMMA Turns ==
  ASSUME IInv, JInv, NEW c \in Conn, phase[c] = "served"
  PROVE  rst[c] \/ \A j \in 1..Len(file[addr[c]]) : file[addr[c]][j][1] <= c
<1> DEFINE a == addr[c]
           s == file[a]
<1>1. a \in DOMAIN file /\ s \in Seq(Item) /\ c \in Nat
  BY Types
<1> SUFFICES ASSUME NEW j \in 1..Len(s), ~(s[j][1] <= c) PROVE rst[c]
  OBVIOUS
<1> DEFINE d == s[j][1]
<1>2. d \in Conn /\ j \in DOMAIN s
  BY <1>1, Items
<1>3. addr[d] = a
  BY <1>1, <1>2, InOrderPlaced DEF JInv, Placed
<1>4. s[j][2] \in InFile(d)
  BY <1>2, <1>3 DEF InFile, Bytes
<1>5. phase[d] # "new"
  BY <1>2, <1>4 DEF JInv, Fresh
<1>6. c < d
  <2> HIDE DEF s
  <2>1. d \in Nat /\ ~(d <= c)
    BY <1>2, Types
  <2> HIDE DEF d
  <2> QED BY <1>1, <2>1
<1> QED BY <1>2, <1>3, <1>5, <1>6 DEF JInv, Arrival, SamePort

\* The bytes of the connection that is served go to the end of its file.
LEMMA Writing ==
  ASSUME IInv, JInv, NEW c \in Conn, phase[c] = "served", NEW k \in Nat, NEW out \in Seq(Item), InFile(c) = 1..k,
         \A m \in 1..Len(out) : out[m] = <<c, k + m>>,
         file' = [file EXCEPT ![addr[c]] = @ \o out],
         rcvd' \in [Conn -> Nat], \A d \in Conn : rcvd[d] <= rcvd'[d], k + Len(out) <= rcvd'[c], rst' = rst
  PROVE  /\ InOrder' /\ InFile(c)' = 1..(k + Len(out))
         /\ \A d \in Conn : d # c => InFile(d)' = InFile(d)
<1> DEFINE a == addr[c]
           s == file[a]
           t == s \o out
           n == Len(out)
<1>1. /\ a \in DOMAIN file /\ s \in Seq(Item) /\ c \in Nat /\ n \in Nat
      /\ \A x \in DOMAIN file : file[x] \in Seq(Item)
  <2>1. /\ a \in DOMAIN file /\ s \in Seq(Item) /\ c \in Nat
        /\ file \in [{addr[d] : d \in Conn} -> Seq(Item)]
    BY Types
  <2>2. n \in Nat
    OBVIOUS
  <2> QED BY <2>1, <2>2
<1>2. /\ DOMAIN file' = DOMAIN file /\ file'[a] = t
      /\ \A x \in DOMAIN file : x # a => file'[x] = file[x]
  BY <1>1, Types
<1>3. t \in Seq(Item) /\ Grown(s, t, c, k, n) /\ Bytes(s, c) = 1..k
  <2>1. t \in Seq(Item)
    BY <1>1, Joined
  <2>2. Grown(s, t, c, k, n)
    <3> HIDE DEF s
    <3> QED BY <1>1, Growing
  <2> QED BY <2>1, <2>2 DEF InFile
<1> HIDE DEF t, n
<1>4. rst[c] \/ \A j \in 1..Len(s) : s[j][1] <= c
  BY Turns
<1>5. ASSUME NEW x \in DOMAIN file, NEW m \in DOMAIN file'[x]
      PROVE  Placed(file'[x], m, x, rcvd', rst)
  <2>1. CASE x # a
    <3>1. file'[x] = file[x] /\ m \in 1..Len(file[x]) /\ Placed(file[x], m, x, rcvd, rst) /\ file[x] \in Seq(Item)
      <4>1. file'[x] = file[x] /\ file[x] \in Seq(Item)
        BY <1>1, <1>2, <2>1
      <4>2. m \in DOMAIN file[x]
        BY <1>5, <4>1
      <4> QED BY <4>1, <4>2, InOrderPlaced DEF JInv
    <3> DEFINE f == file[x]
    <3>2. f \in Seq(Item) /\ m \in 1..Len(f) /\ Placed(f, m, x, rcvd, rst) /\ file'[x] = f
      BY <3>1
    <3> HIDE DEF f
    <3>3. (\A j \in 1..Len(f) : f[j] = f[j]) /\ \A d \in Conn : rcvd[d] <= rcvd'[d] /\ (rst[d] => rst[d])
      OBVIOUS
    <3>4. rcvd \in [Conn -> Nat] /\ rcvd' \in [Conn -> Nat]
      BY Types
    <3>5. Placed(f, m, x, rcvd', rst)
      BY <3>2, <3>3, <3>4, StillPlaced
    <3> QED BY <3>2, <3>5
  <2>2. CASE x = a /\ m \in 1..Len(s)
    <3>1. Placed(s, m, a, rcvd, rst)
      <4>1. m \in DOMAIN file[a]
        BY <1>1, <2>2
      <4> QED BY <1>1, <4>1, InOrderPlaced DEF JInv
    <3>2. \A j \in 1..Len(s) : t[j] = s[j]
      BY <1>3 DEF Grown
    <3> HIDE DEF s
    <3>3. Placed(t, m, a, rcvd', rst)
      BY <1>1, <2>2, <3>1, <3>2, Types, StillPlaced
    <3> QED BY <1>2, <2>2, <3>3
  <2>3. CASE x = a /\ m - Len(s) \in 1..n
    <3> DEFINE q == m - Len(s)
    <3> HIDE DEF s
    <3>1. Len(s) + q = m
      <4>1. m \in Nat
        BY <1>2, <1>3, <1>5, <2>3
      <4> QED BY <1>1, <4>1
    <3>2. k + n <= rcvd'[c] /\ q \in 1..n
      BY <2>3 DEF n
    <3> HIDE DEF q
    <3>3. Placed(t, Len(s) + q, a, rcvd', rst)
      BY <1>1, <1>3, <1>4, <3>2, NewlyPlaced
    <3> QED BY <1>2, <2>3, <3>1, <3>3
  <2>4. x = a => m \in 1..Len(s) \/ m - Len(s) \in 1..n
    <3>1. t \in Seq(Item) /\ \A j \in 1..Len(t) : j \in 1..Len(s) \/ j - Len(s) \in 1..n
      <4> HIDE DEF s
      <4> QED BY <1>1, <1>3, Joined DEF t, n
    <3> QED BY <1>2, <3>1
  <2> QED BY <2>1, <2>2, <2>3, <2>4
<1>6. InOrder'
  BY <1>2, <1>5, InOrderPlaced
<1>7. Bytes(t, c) = 1..(k + n) /\ \A d : d # c => Bytes(t, d) = Bytes(s, d)
  BY <1>3, GrownBytes
<1>8. InFile(c)' = 1..(k + n)
  <2>1. InFile(c)' = Bytes(file'[a], c)
    BY DEF InFile, Bytes
  <2> QED BY <1>2, <1>7, <2>1
<1>9. ASSUME NEW d \in Conn, d # c PROVE InFile(d)' = InFile(d)
  <2>1. CASE addr[d] = a
    <3>1. InFile(d)' = Bytes(file'[a], d) /\ InFile(d) = Bytes(s, d)
      BY <2>1 DEF InFile, Bytes
    <3> QED BY <1>2, <1>7, <1>9, <3>1
  <2>2. CASE addr[d] # a
    <3>1. file'[addr[d]] = file[addr[d]]
      BY <1>2, <2>2, Types
    <3> QED BY <3>1 DEF InFile, Bytes
  <2> QED BY <2>1, <2>2
<1> QED BY <1>6, <1>8, <1>9 DEF n

LEMMA InitOrder ==
  ASSUME Init
  PROVE  JInv
<1>1. Arrival /\ Buffered /\ Closed /\ InOrder
  BY DEF Init, Arrival, Buffered, Closed, InOrder, SamePort
<1>2. Fresh
  BY DEF Init, Fresh, InFile, Bytes
<1> QED BY <1>1, <1>2 DEF JInv

\* The files and what has been read stay as they are.
LEMMA Unwritten ==
  ASSUME IInv, JInv, file' = file, rcvd' = rcvd, \A c \in Conn : rst[c] => rst'[c]
  PROVE  InOrder' /\ \A c : InFile(c)' = InFile(c)
<1>1. ASSUME NEW a \in DOMAIN file, NEW n \in DOMAIN file[a]
      PROVE  Placed(file[a], n, a, rcvd, rst')
  <2> DEFINE s == file[a]
  <2>1. s \in Seq(Item) /\ rcvd \in [Conn -> Nat]
    BY Types
  <2>2. n \in 1..Len(s) /\ Placed(s, n, a, rcvd, rst)
    BY <2>1, InOrderPlaced DEF JInv
  <2> HIDE DEF s
  <2>3. (\A j \in 1..Len(s) : s[j] = s[j]) /\ \A d \in Conn : rcvd[d] <= rcvd[d] /\ (rst[d] => rst'[d])
    BY <2>1
  <2>4. Placed(s, n, a, rcvd, rst')
    BY <2>1, <2>2, <2>3, StillPlaced
  <2> QED BY <2>4 DEF s
<1>2. InOrder'
  BY <1>1, InOrderPlaced
<1>3. \A c : InFile(c)' = InFile(c)
  BY DEF InFile, Bytes
<1> QED BY <1>2, <1>3

\* Nothing happens to a connection but that more of it may come in, or a reset.
LEMMA Undisturbed ==
  ASSUME IInv, JInv, file' = file, rcvd' = rcvd, phase' = phase, clients' = clients, txtout' = txtout,
         \A c \in Conn : (rst[c] => rst'[c]) /\ (phase[c] = "closed" => sent'[c] = sent[c])
  PROVE  JInv'
<1>1. InOrder' /\ \A c : InFile(c)' = InFile(c)
  BY Unwritten
<1>2. Arrival'
  BY DEF JInv, Arrival, SamePort
<1>3. Buffered'
  BY <1>1 DEF JInv, Buffered, Held
<1>4. Fresh' /\ Closed'
  BY <1>1 DEF JInv, Fresh, Closed
<1> QED BY <1>1, <1>2, <1>3, <1>4 DEF JInv

LEMMA QuietOrder ==
  ASSUME IInv, JInv, Poll \/ Skip \/ UNCHANGED vars
  PROVE  JInv'
<1>1. UNCHANGED <<file, rcvd, phase, clients, txtout, rst, sent>>
  BY DEF Poll, Skip, vars, server, client
<1> QED BY <1>1, Undisturbed

LEMMA TalkOrder ==
  ASSUME IInv, JInv, NEW c \in Conn, Send(c) \/ Finish(c) \/ Reset(c)
  PROVE  JInv'
<1>1. /\ UNCHANGED <<file, rcvd, phase, clients, txtout>> /\ phase[c] # "closed"
      /\ rst \in [Conn -> BOOLEAN] /\ sent \in [Conn -> Nat]
  BY DEF Send, Finish, Reset, server, IInv, TypeOK
<1>2. \A d \in Conn : (rst[d] => rst'[d]) /\ (phase[d] = "closed" => sent'[d] = sent[d])
  BY <1>1 DEF Send, Finish, Reset
<1> QED BY <1>1, <1>2, Undisturbed

LEMMA KillOrder ==
  ASSUME IInv, JInv, Kill
  PROVE  JInv'
<1>1. /\ clients' = [k \in Slot |-> -1]
      /\ file' = file /\ rst' = rst /\ phase' = phase /\ rcvd' = rcvd /\ sent' = sent
  BY DEF Kill, client
<1>2. InOrder' /\ \A c : InFile(c)' = InFile(c)
  BY <1>1, Unwritten
<1>3. Arrival' /\ Buffered'
  BY <1>1 DEF JInv, Arrival, SamePort, Buffered
<1>4. Fresh' /\ Closed'
  BY <1>1, <1>2 DEF JInv, Fresh, Closed
<1> QED BY <1>2, <1>3, <1>4 DEF JInv

\* Those who had the port before have been reset or dropped.
LEMMA ConnectOrder ==
  ASSUME IInv, JInv, NEW c \in Conn, Connect(c)
  PROVE  JInv'
<1>1. /\ UNCHANGED <<file, rcvd, clients, txtout, rst, sent>> /\ phase[c] = "new"
      /\ phase' = [phase EXCEPT ![c] = "waiting"]
      /\ \A d \in Conn : SamePort(d, c) => rst[d] \/ phase[d] \in {"refused", "closed"}
  BY DEF Connect, client, server, SamePort
<1>2. /\ phase'[c] = "waiting" /\ \A d \in Conn : d # c => phase'[d] = phase[d]
  BY <1>1, Types
<1>3. InOrder' /\ \A d : InFile(d)' = InFile(d)
  BY <1>1, Unwritten
<1>4. Arrival'
  <2> SUFFICES ASSUME NEW d \in Conn, NEW e \in Conn, SamePort(d, e), phase'[e] # "new"
               PROVE  rst[d] \/ phase'[d] \in {"refused", "closed"}
    BY <1>1 DEF Arrival, SamePort
  <2>1. rst[d] \/ phase[d] \in {"refused", "closed"}
    BY <1>1, <1>2 DEF JInv, Arrival
  <2> QED BY <1>1, <1>2, <2>1
<1>5. Buffered'
  BY <1>1, <1>3 DEF JInv, Buffered, Held
<1>6. Fresh' /\ Closed'
  BY <1>1, <1>2, <1>3 DEF JInv, Fresh, Closed
<1> QED BY <1>3, <1>4, <1>5, <1>6 DEF JInv

\* Nothing has been read from a connection that gets a slot, and stdio's buffer
\* for it is empty.
LEMMA AcceptOrder ==
  ASSUME IInv, JInv, Accept
  PROVE  JInv'
<1>1. pc = "accept" /\ UNCHANGED <<file, rcvd, rst, sent>>
  BY DEF Accept, client
<1>2. InOrder' /\ \A d : InFile(d)' = InFile(d)
  BY <1>1, Unwritten
<1>3. CASE ~revents[0]
  <2>1. UNCHANGED <<clients, txtout, phase>>
    BY <1>3 DEF Accept
  <2> QED BY <1>1, <2>1, Undisturbed
<1>4. CASE revents[0]
  <2> DEFINE c == Head(backlog)
             free == {k \in Slot : clients[k] = -1}
  <2>1. PICK connfd \in Accepted(c) :
          /\ phase' = [phase EXCEPT ![c] = IF free = {} \/ connfd = -1 THEN "refused" ELSE "served"]
          /\ \/ \E k \in free :
                  /\ clients' = [clients EXCEPT ![k] = connfd]
                  /\ txtout' = [txtout EXCEPT ![k] = << >>]
             \/ UNCHANGED <<clients, txtout>>
    BY <1>4 DEF Accept, SlotTaken
  <2>2. backlog # << >> /\ backlog \in Seq(Conn)
    BY <1>1, <1>4 DEF IInv, Turn, TypeOK
  <2>3. c \in Conn /\ c = backlog[1] /\ 1 \in DOMAIN backlog
    BY <2>2
  <2> HIDE DEF c
  <2>4. connfd = c \/ connfd = -1
    BY DEF Accepted
  <2>5. phase[c] = "waiting" /\ rcvd[c] = 0
    BY <2>3 DEF IInv, Queue, Unread
  <2>6. /\ phase'[c] \in {"refused", "served"}
        /\ \A d \in Conn : d # c => phase'[d] = phase[d]
    BY <2>1, <2>3, Types
  <2>7. InFile(c) = {}
    BY <2>3, <2>5 DEF JInv, Fresh
  <2>8. Arrival'
    <3> SUFFICES ASSUME NEW d \in Conn, NEW e \in Conn, SamePort(d, e), phase'[e] # "new"
                 PROVE  rst[d] \/ phase'[d] \in {"refused", "closed"}
      BY <1>1 DEF Arrival, SamePort
    <3>1. rst[d] \/ phase[d] \in {"refused", "closed"}
      BY <2>5, <2>6 DEF JInv, Arrival
    <3> QED BY <2>5, <2>6, <3>1
  <2>9. Fresh' /\ Closed'
    BY <1>1, <1>2, <2>6 DEF JInv, Fresh, Closed
  <2>10. CASE UNCHANGED <<clients, txtout>>
    <3>1. Buffered'
      BY <1>1, <1>2, <2>10 DEF JInv, Buffered, Held
    <3> QED BY <1>2, <2>8, <2>9, <3>1 DEF JInv
  <2>11. ASSUME NEW k \in free, clients' = [clients EXCEPT ![k] = connfd],
                txtout' = [txtout EXCEPT ![k] = << >>]
         PROVE  JInv'
    <3>1. /\ k \in Slot /\ clients'[k] = connfd /\ txtout'[k] = << >>
          /\ \A m \in Slot : m # k => clients'[m] = clients[m] /\ txtout'[m] = txtout[m]
      BY <2>11, Types
    <3>2. Buffered'
      <4> SUFFICES ASSUME NEW m \in Slot, clients'[m] # -1
                   PROVE  /\ Held(m)' <= rcvd[clients'[m]]
                          /\ \A n \in 1..Held(m)' :
                               txtout'[m][n] = <<clients'[m], rcvd[clients'[m]] - Held(m)' + n>>
                          /\ InFile(clients'[m]) = 1..(rcvd[clients'[m]] - Held(m)')
        BY <1>1, <1>2 DEF Buffered, Held, InFile, Bytes
      <4>1. CASE m = k
        <5>1. Held(m)' = 0 /\ clients'[m] = c
          BY <2>4, <3>1, <4>1 DEF Held
        <5>2. Held(m)' <= rcvd[clients'[m]] /\ 1..Held(m)' = {}
          BY <2>5, <5>1
        <5>3. 1..(rcvd[clients'[m]] - Held(m)') = {}
          BY <2>5, <5>1
        <5> QED BY <2>7, <5>1, <5>2, <5>3
      <4>2. CASE m # k
        <5>1. Held(m)' = Held(m) /\ clients'[m] = clients[m] /\ txtout'[m] = txtout[m]
          BY <3>1, <4>2 DEF Held
        <5> QED BY <5>1 DEF JInv, Buffered
      <4> QED BY <4>1, <4>2
    <3> QED BY <1>2, <2>8, <2>9, <3>2 DEF JInv
  <2> QED BY <2>1, <2>10, <2>11
<1> QED BY <1>3, <1>4

\* The connection whose turn it is, and how much of it is in the file.
Serving(c, k) ==
  /\ i \in Slot /\ c = conns[i] /\ clients[i] = c /\ phase[c] = "served"
  /\ \A j \in Slot : clients[j] = c => j = i
  /\ rcvd[c] = k + Held(i) /\ InFile(c) = 1..k
  /\ \A m \in 1..Held(i) : txtout[i][m] = <<c, k + m>>

LEMMA ServingNow ==
  ASSUME IInv, JInv, pc = "serve", revents[i]
  PROVE  \E c \in Conn : \E k \in Nat : Serving(c, k)
<1> DEFINE c == conns[i]
           k == rcvd[c] - Held(i)
<1>1. /\ i \in Slot /\ c \in Conn /\ clients[i] = c /\ phase[c] = "served" /\ c # -1
      /\ \A j \in Slot : clients[j] = c => j = i
  BY Served, Constants
<1>2. rcvd[c] \in Nat /\ Held(i) \in Nat
  BY <1>1, Types
<1>3. /\ Held(i) <= rcvd[c] /\ InFile(c) = 1..k
      /\ \A m \in 1..Held(i) : txtout[i][m] = <<c, k + m>>
  BY <1>1 DEF JInv, Buffered
<1>4. k \in Nat /\ rcvd[c] = k + Held(i)
  <2> DEFINE r == rcvd[c]
             h == Held(i)
  <2>1. r \in Nat /\ h \in Nat /\ h <= r
    BY <1>2, <1>3
  <2> HIDE DEF r, h
  <2>2. r - h \in Nat /\ r = (r - h) + h
    BY <2>1
  <2> QED BY <2>2 DEF r, h
<1> HIDE DEF k
<1>5. Serving(c, k)
  BY <1>1, <1>3, <1>4 DEF Serving
<1> QED BY <1>1, <1>4, <1>5

LEMMA Portion ==
  \A b, s, r \in Nat : \A n \in 1..Smaller(b, s - r) : n \in Nat /\ r + n <= s
BY DEF Smaller

\* The bytes of c behind the first k.
Onwards(s, c, k) == \A m \in 1..Len(s) : s[m] = <<c, k + m>>

LEMMA CutBytes ==
  ASSUME NEW text \in Seq(Item), NEW kept \in 0..Len(text), NEW c, NEW k \in Nat, Onwards(text, c, k)
  PROVE  LET out == SubSeq(text, 1, Len(text) - kept)
             rest == SubSeq(text, Len(text) - kept + 1, Len(text))
         IN  /\ out \in Seq(Item) /\ rest \in Seq(Item)
             /\ Len(out) \in Nat /\ Len(rest) \in Nat /\ Len(out) + Len(rest) = Len(text)
             /\ Onwards(out, c, k) /\ Onwards(rest, c, k + Len(out))
<1> DEFINE out == SubSeq(text, 1, Len(text) - kept)
           rest == SubSeq(text, Len(text) - kept + 1, Len(text))
<1>1. /\ out \in Seq(Item) /\ rest \in Seq(Item)
      /\ Len(out) = Len(text) - kept /\ Len(rest) = kept
      /\ \A m \in 1..(Len(text) - kept) : out[m] = text[m]
      /\ \A m \in 1..kept : rest[m] = text[Len(text) - kept + m]
  BY Cut
<1>2. Len(text) \in Nat /\ kept \in Nat /\ kept <= Len(text)
  OBVIOUS
<1> HIDE DEF out, rest
<1>3. Len(out) \in Nat /\ Len(rest) \in Nat /\ Len(out) + Len(rest) = Len(text)
  BY <1>1, <1>2
<1>4. ASSUME NEW m \in 1..Len(out) PROVE out[m] = <<c, k + m>>
  <2>1. m \in 1..Len(text) /\ out[m] = text[m]
    BY <1>1, <1>2
  <2> QED BY <2>1 DEF Onwards
<1>5. ASSUME NEW m \in 1..Len(rest) PROVE rest[m] = <<c, (k + Len(out)) + m>>
  <2>1. Len(text) - kept + m \in 1..Len(text) /\ rest[m] = text[Len(text) - kept + m]
    BY <1>1, <1>2
  <2>2. rest[m] = <<c, k + (Len(text) - kept + m)>>
    BY <2>1 DEF Onwards
  <2>3. k + (Len(text) - kept + m) = (k + Len(out)) + m
    BY <1>1, <1>2
  <2> QED BY <2>2, <2>3
<1>6. Onwards(out, c, k) /\ Onwards(rest, c, k + Len(out))
  BY <1>4, <1>5 DEF Onwards
<1> QED BY <1>1, <1>3, <1>6 DEF out, rest

\* What read() returned goes behind what stdio holds, and a first part of both
\* into the file.
LEMMA Stored ==
  ASSUME IInv, JInv, Store, NEW c \in Conn, NEW k \in Nat, Serving(c, k)
  PROVE  \E out, rest \in Seq(Item) :
           /\ Len(out) \in Nat /\ Len(rest) \in Nat
           /\ Onwards(out, c, k) /\ Onwards(rest, c, k + Len(out))
           /\ file' = [file EXCEPT ![addr[c]] = @ \o out]
           /\ txtout' = [txtout EXCEPT ![i] = rest]
           /\ rcvd' = [rcvd EXCEPT ![c] = (k + Len(out)) + Len(rest)]
           /\ rcvd[c] <= (k + Len(out)) + Len(rest) /\ (k + Len(out)) + Len(rest) <= sent[c]
<1>1. PICK n \in 1..Smaller(readbufsz, sent[c] - rcvd[c]) :
        LET text == txtout[i] \o NextBytes(c, n) IN
        \E kept \in 0..Len(text) :
          /\ file' = [file EXCEPT ![addr[c]] = @ \o SubSeq(text, 1, Len(text) - kept)]
          /\ txtout' = [txtout EXCEPT ![i] = SubSeq(text, Len(text) - kept + 1, Len(text))]
          /\ rcvd' = [rcvd EXCEPT ![c] = @ + n]
  BY DEF Store, Serving
<1> DEFINE held == txtout[i]
           next == NextBytes(c, n)
           text == held \o next
           l == Len(held)
           r == rcvd[c]
<1>2. PICK kept \in 0..Len(text) :
        /\ file' = [file EXCEPT ![addr[c]] = @ \o SubSeq(text, 1, Len(text) - kept)]
        /\ txtout' = [txtout EXCEPT ![i] = SubSeq(text, Len(text) - kept + 1, Len(text))]
        /\ rcvd' = [rcvd EXCEPT ![c] = @ + n]
  BY <1>1
<1>3. /\ r \in Nat /\ sent[c] \in Nat /\ held \in Seq(Item) /\ l \in Nat /\ Held(i) = l
  BY Types DEF Held, Serving
<1>4. n \in Nat /\ r + n <= sent[c]
  BY <1>3, Constants, Portion
<1>5. r = k + l /\ \A m \in 1..l : held[m] = <<c, k + m>>
  BY <1>3 DEF Serving
<1>6. next \in Seq(Item) /\ Len(next) = n /\ \A m \in 1..n : next[m] = <<c, r + m>>
  <2>1. \A m \in 1..n : <<c, r + m>> \in Item
    <3> HIDE DEF r
    <3>1. \A m \in 1..n : r + m \in Nat
      BY <1>3, <1>4
    <3> QED BY <3>1 DEF Item
  <2> QED BY <1>4, <2>1 DEF NextBytes
<1> HIDE DEF next, held, r
<1>7. /\ text \in Seq(Item) /\ Len(text) = l + n
      /\ \A m \in 1..l : text[m] = held[m]
      /\ \A m \in 1..n : text[l + m] = next[m]
      /\ \A m \in 1..Len(text) : m \in 1..l \/ m - l \in 1..n
  <2>1. /\ text \in Seq(Item) /\ Len(text) = Len(held) + Len(next)
        /\ \A m \in 1..Len(held) : text[m] = held[m]
        /\ \A m \in 1..Len(next) : text[Len(held) + m] = next[m]
        /\ \A m \in 1..Len(text) : m \in 1..Len(held) \/ m - Len(held) \in 1..Len(next)
    BY <1>3, <1>6, Joined
  <2> QED BY <1>6, <2>1
<1> HIDE DEF text, l
<1>8. \A m \in 1..Len(text) : text[m] = <<c, k + m>>
  <2> TAKE m \in 1..Len(text)
  <2>1. CASE m \in 1..l
    BY <1>5, <1>7, <2>1
  <2>2. CASE m - l \in 1..n
    <3>1. l + (m - l) = m /\ r + (m - l) = k + m
      BY <1>3, <1>4, <1>5, <1>7
    <3>2. text[l + (m - l)] = <<c, r + (m - l)>>
      BY <1>6, <1>7, <2>2
    <3> QED BY <3>1, <3>2
  <2> QED BY <1>7, <2>1, <2>2
<1> DEFINE out == SubSeq(text, 1, Len(text) - kept)
           rest == SubSeq(text, Len(text) - kept + 1, Len(text))
<1>9. /\ out \in Seq(Item) /\ rest \in Seq(Item)
      /\ Len(out) \in Nat /\ Len(rest) \in Nat /\ Len(out) + Len(rest) = Len(text)
      /\ Onwards(out, c, k) /\ Onwards(rest, c, k + Len(out))
  <2>1. kept \in 0..Len(text) /\ text \in Seq(Item) /\ Onwards(text, c, k)
    BY <1>2, <1>7, <1>8 DEF Onwards
  <2> QED BY <2>1, CutBytes
<1>10. /\ file' = [file EXCEPT ![addr[c]] = @ \o out] /\ txtout' = [txtout EXCEPT ![i] = rest]
       /\ rcvd' = [rcvd EXCEPT ![c] = r + n]
  BY <1>2 DEF r
<1> HIDE DEF out, rest
<1>11. (k + Len(out)) + Len(rest) = r + n
  <2>1. Len(out) + Len(rest) = l + n
    BY <1>7, <1>9
  <2>2. Len(out) \in Nat /\ Len(rest) \in Nat /\ l \in Nat /\ n \in Nat /\ r = k + l
    BY <1>3, <1>4, <1>5, <1>9
  <2>3. \A x, y, s \in Nat : x + y = s => (k + x) + y = k + s
    OBVIOUS
  <2>4. (k + Len(out)) + Len(rest) = k + (l + n) /\ k + (l + n) = r + n
    BY <2>1, <2>2, <2>3
  <2> QED BY <2>4
<1>12. r <= r + n
  BY <1>3, <1>4
<1>13. /\ rcvd' = [rcvd EXCEPT ![c] = (k + Len(out)) + Len(rest)]
       /\ rcvd[c] <= (k + Len(out)) + Len(rest) /\ (k + Len(out)) + Len(rest) <= sent[c]
  BY <1>4, <1>10, <1>11, <1>12, Zenon DEF r
<1> QED BY <1>9, <1>10, <1>13

LEMMA StoreOrder ==
  ASSUME IInv, JInv, Store
  PROVE  JInv'
<1>1. UNCHANGED <<clients, rst, phase, sent>> /\ pc = "serve" /\ revents[i]
  BY DEF Store, client
<1>2. PICK c \in Conn, k \in Nat : Serving(c, k)
  BY <1>1, ServingNow
<1>3. PICK out, rest \in Seq(Item) :
        /\ Len(out) \in Nat /\ Len(rest) \in Nat
        /\ Onwards(out, c, k) /\ Onwards(rest, c, k + Len(out))
        /\ file' = [file EXCEPT ![addr[c]] = @ \o out]
        /\ txtout' = [txtout EXCEPT ![i] = rest]
        /\ rcvd' = [rcvd EXCEPT ![c] = (k + Len(out)) + Len(rest)]
        /\ rcvd[c] <= (k + Len(out)) + Len(rest) /\ (k + Len(out)) + Len(rest) <= sent[c]
  BY <1>2, Stored
<1> DEFINE p == k + Len(out)
           q == p + Len(rest)
<1>4. p \in Nat /\ q \in Nat /\ p <= q /\ q - Len(rest) = p /\ Len(rest) <= q
  BY <1>3
<1>5. rcvd' = [rcvd EXCEPT ![c] = q] /\ rcvd[c] <= q /\ \A m \in 1..Len(rest) : rest[m] = <<c, p + m>>
  BY <1>3 DEF Onwards
<1> HIDE DEF p, q
<1>6. /\ rcvd' \in [Conn -> Nat] /\ rcvd'[c] = q
      /\ \A d \in Conn : d # c => rcvd'[d] = rcvd[d]
  BY <1>4, <1>5, Types
<1>7. \A d \in Conn : rcvd[d] <= rcvd'[d]
  <2>1. \A d \in Conn : d # c => rcvd[d] <= rcvd'[d]
    BY <1>6, Types
  <2> QED BY <1>5, <1>6, <2>1
<1>8. InOrder' /\ InFile(c)' = 1..p /\ \A d \in Conn : d # c => InFile(d)' = InFile(d)
  <2>1. k + Len(out) <= rcvd'[c]
    BY <1>4, <1>6 DEF p
  <2>2. InFile(c) = 1..k /\ phase[c] = "served"
    BY <1>2 DEF Serving
  <2>3. InOrder' /\ InFile(c)' = 1..(k + Len(out)) /\ \A d \in Conn : d # c => InFile(d)' = InFile(d)
    BY <1>1, <1>3, <1>6, <1>7, <2>1, <2>2, Writing DEF Onwards
  <2> QED BY <2>3 DEF p
<1>9. Arrival'
  BY <1>1 DEF JInv, Arrival, SamePort
<1>10. Fresh' /\ Closed'
  <2>1. \A d \in Conn : phase[d] \in {"new", "waiting", "closed"} => d # c
    BY <1>2 DEF Serving
  <2> QED BY <1>1, <1>6, <1>8, <2>1 DEF JInv, Fresh, Closed
<1>11. Buffered'
  <2> SUFFICES ASSUME NEW j \in Slot, clients[j] # -1
               PROVE  /\ Held(j)' <= rcvd'[clients[j]]
                      /\ \A m \in 1..Held(j)' :
                           txtout'[j][m] = <<clients[j], rcvd'[clients[j]] - Held(j)' + m>>
                      /\ InFile(clients[j])' = 1..(rcvd'[clients[j]] - Held(j)')
    BY <1>1 DEF Buffered, Held, InFile, Bytes
  <2>1. CASE j = i
    <3>1. txtout'[j] = rest /\ Held(j)' = Len(rest) /\ clients[j] = c
      BY <1>2, <1>3, <2>1, Types DEF Held, Serving
    <3>2. InFile(clients[j])' = InFile(c)'
      BY <1>1, <3>1 DEF InFile
    <3> QED BY <1>4, <1>5, <1>6, <1>8, <3>1, <3>2
  <2>2. CASE j # i
    <3>1. clients[j] \in Conn /\ clients[j] # c /\ txtout'[j] = txtout[j] /\ Held(j)' = Held(j)
      BY <1>2, <1>3, <2>2, Types DEF Held, Serving
    <3>2. rcvd'[clients[j]] = rcvd[clients[j]] /\ InFile(clients[j])' = InFile(clients[j])
      <4>1. PICK d \in Conn : d = clients[j]
        BY <3>1
      <4>2. rcvd'[d] = rcvd[d] /\ InFile(d)' = InFile(d)
        BY <1>6, <1>8, <3>1, <4>1
      <4>3. InFile(clients[j])' = InFile(d)' /\ InFile(clients[j]) = InFile(d)
        BY <1>1, <4>1 DEF InFile
      <4> QED BY <4>1, <4>2, <4>3
    <3> QED BY <3>1, <3>2 DEF JInv, Buffered
  <2> QED BY <2>1, <2>2
<1> QED BY <1>8, <1>9, <1>10, <1>11 DEF JInv

LEMMA DropOrder ==
  ASSUME IInv, JInv, Drop
  PROVE  JInv'
<1> DEFINE out == txtout[i]
<1>1. /\ pc = "serve" /\ revents[i] /\ UNCHANGED <<rst, rcvd, sent>> /\ Ended(conns[i])
      /\ phase' = [phase EXCEPT ![conns[i]] = "closed"]
      /\ file' = [file EXCEPT ![addr[conns[i]]] = @ \o out]
      /\ txtout' = [txtout EXCEPT ![i] = << >>] /\ clients' = [clients EXCEPT ![i] = -1]
  BY DEF Drop, client, Flushed, Freed
<1>2. PICK c \in Conn, k \in Nat : Serving(c, k)
  BY <1>1, ServingNow
<1>3. /\ i \in Slot /\ c = conns[i] /\ phase[c] = "served" /\ InFile(c) = 1..k
      /\ \A j \in Slot : clients[j] = c => j = i
  BY <1>2 DEF Serving
<1>4. out \in Seq(Item) /\ Onwards(out, c, k) /\ k + Len(out) = rcvd[c] /\ rcvd[c] = sent[c]
  BY <1>1, <1>2, <1>3, Types DEF Serving, Onwards, Held, Ended
<1>5. phase'[c] = "closed" /\ \A d \in Conn : d # c => phase'[d] = phase[d]
  BY <1>1, <1>3, Types
<1>6. /\ clients'[i] = -1
      /\ \A j \in Slot : j # i => clients'[j] = clients[j] /\ txtout'[j] = txtout[j] /\ Held(j)' = Held(j)
  BY <1>1, <1>3, Types DEF Held
<1> HIDE DEF out
<1>7. InOrder' /\ InFile(c)' = 1..sent[c] /\ \A d \in Conn : d # c => InFile(d)' = InFile(d)
  <2>1. rcvd' = rcvd /\ rcvd \in [Conn -> Nat] /\ k + Len(out) = rcvd[c]
    BY <1>1, <1>4, Types
  <2>2. \A d \in Conn : rcvd[d] \in Nat /\ rcvd[d] <= rcvd[d]
    BY <2>1
  <2>3. rcvd' \in [Conn -> Nat] /\ (\A d \in Conn : rcvd[d] <= rcvd'[d]) /\ k + Len(out) <= rcvd'[c]
    BY <2>1, <2>2
  <2>4. file' = [file EXCEPT ![addr[c]] = @ \o out] /\ rst' = rst
    BY <1>1, <1>3
  <2>5. InOrder' /\ InFile(c)' = 1..(k + Len(out)) /\ \A d \in Conn : d # c => InFile(d)' = InFile(d)
    BY <1>3, <1>4, <2>1, <2>3, <2>4, Writing DEF Onwards
  <2> QED BY <1>4, <2>5
<1>8. Arrival'
  <2> SUFFICES ASSUME NEW d \in Conn, NEW e \in Conn, SamePort(d, e), phase'[e] # "new"
               PROVE  rst[d] \/ phase'[d] \in {"refused", "closed"}
    BY <1>1 DEF Arrival, SamePort
  <2>1. rst[d] \/ phase[d] \in {"refused", "closed"}
    BY <1>3, <1>5 DEF JInv, Arrival
  <2> QED BY <1>3, <1>5, <2>1
<1>9. Fresh' /\ Closed'
  BY <1>1, <1>4, <1>5, <1>7 DEF JInv, Fresh, Closed
<1>10. Buffered'
  <2> SUFFICES ASSUME NEW j \in Slot, clients'[j] # -1
               PROVE  /\ Held(j)' <= rcvd[clients'[j]]
                      /\ \A m \in 1..Held(j)' :
                           txtout'[j][m] = <<clients'[j], rcvd[clients'[j]] - Held(j)' + m>>
                      /\ InFile(clients[j])' = 1..(rcvd[clients'[j]] - Held(j)')
    BY <1>1 DEF Buffered, Held, InFile, Bytes
  <2>1. /\ j # i /\ clients'[j] = clients[j] /\ txtout'[j] = txtout[j] /\ Held(j)' = Held(j)
        /\ clients[j] \in Conn /\ clients[j] # c
    BY <1>3, <1>6, Types
  <2>2. InFile(clients[j])' = InFile(clients[j])
    <3>1. PICK d \in Conn : d = clients[j]
      BY <2>1
    <3>2. InFile(d)' = InFile(d)
      BY <1>7, <2>1, <3>1
    <3>3. InFile(clients[j])' = InFile(d)' /\ InFile(clients[j]) = InFile(d)
      BY <2>1, <3>1 DEF InFile
    <3> QED BY <3>2, <3>3
  <2> QED BY <2>1, <2>2 DEF JInv, Buffered
<1> QED BY <1>7, <1>8, <1>9, <1>10 DEF JInv

LEMMA InductiveOrder == IInv /\ JInv /\ [Next]_vars => JInv'
<1> SUFFICES ASSUME IInv, JInv, [Next]_vars
             PROVE  JInv'
  OBVIOUS
<1>1. CASE Run
  BY <1>1, QuietOrder, AcceptOrder, StoreOrder, DropOrder DEF Run
<1>2. CASE Kill
  BY <1>2, KillOrder
<1>3. CASE Client
  BY <1>3, ConnectOrder, TalkOrder DEF Client
<1>4. CASE UNCHANGED vars
  BY <1>4, QuietOrder
<1> QED BY <1>1, <1>2, <1>3, <1>4 DEF Next

LEMMA InvarianceOrder == Spec => []JInv
<1>1. Init => JInv
  BY InitOrder
<1> QED BY <1>1, Invariance, InductiveOrder, PTL DEF Spec

\* All that had come in on a connection when the server closed it is on disk, a
\* reset or not, and a kill, which may come at any moment, takes nothing away.
THEOREM SavedHolds == Spec => []Saved
<1>1. IInv /\ JInv => Saved
  <2> SUFFICES ASSUME IInv, JInv, NEW c \in Conn, phase[c] = "closed", NEW n \in 1..sent[c]
               PROVE  \E m \in DOMAIN file[addr[c]] : file[addr[c]][m] = <<c, n>>
    BY DEF Saved
  <2>1. n \in InFile(c)
    BY DEF JInv, Closed
  <2> DEFINE s == file[addr[c]]
  <2>2. PICK m \in DOMAIN s : s[m][1] = c /\ s[m][2] = n
    BY <2>1 DEF InFile, Bytes
  <2>3. s[m] \in Conn \X Nat
    BY Types DEF Item
  <2> QED BY <2>2, <2>3
<1> QED BY <1>1, Invariance, InvarianceOrder, PTL

\* A file has a first part of each of its connections, byte by byte in order;
\* and one connection after the other, but for those that were reset, whose
\* bytes the server may come to when a later connection has begun.
THEOREM InOrderHolds == Spec => []InOrder
<1>1. JInv => InOrder
  BY DEF JInv
<1> QED BY <1>1, InvarianceOrder, PTL
-----------------------------------------------------------------------------
(* The server implements Logs.                                             *)

\* What is written to a file extends the log of its port as Logs says.
LEMMA Extending ==
  ASSUME IInv, JInv, NEW c \in Conn, phase[c] = "served", NEW k \in Nat, NEW out \in Seq(Item), InFile(c) = 1..k,
         Onwards(out, c, k), file' = [file EXCEPT ![addr[c]] = @ \o out],
         rst[c] \/ \A j \in 1..Len(file[addr[c]]) : file[addr[c]][j][1] <= c
  PROVE  Ports!Extend(c, k, k + Len(out))
<1> DEFINE n == k + Len(out)
           added == [m \in 1..(n - k) |-> <<c, k + m>>]
<1>1. Len(out) \in Nat /\ n - k = Len(out) /\ DOMAIN out = 1..Len(out)
  OBVIOUS
<1>2. out = added
  <2>1. DOMAIN added = DOMAIN out /\ \A m \in DOMAIN out : added[m] = out[m]
    BY <1>1 DEF Onwards
  <2>2. out = [m \in DOMAIN out |-> out[m]]
    OBVIOUS
  <2>3. added = [m \in DOMAIN added |-> added[m]]
    OBVIOUS
  <2> HIDE DEF added
  <2> QED BY <2>1, <2>2, <2>3
<1>3. Ports!Logged(c) = 1..k
  BY DEF Ports!Logged, InFile, Bytes
<1>4. Ports!InTurn(c)
  <2>1. DOMAIN file[addr[c]] = 1..Len(file[addr[c]])
    BY Types, Items
  <2> QED BY <2>1 DEF Ports!InTurn, Peer
<1> HIDE DEF added
<1>5. file' = [file EXCEPT ![addr[c]] = @ \o added]
  BY <1>2
<1> QED BY <1>3, <1>4, <1>5 DEF Ports!Extend, added

LEMMA StoreLogs ==
  ASSUME IInv, JInv, Store
  PROVE  Ports!Next
<1>1. /\ UNCHANGED <<clients, phase, rst, fin, sent>> /\ pc = "serve" /\ revents[i] /\ Alive /\ Alive'
  BY DEF Store, client, Alive, Advance
<1>2. PICK c \in Conn, k \in Nat : Serving(c, k)
  BY <1>1, ServingNow
<1>3. PICK out, rest \in Seq(Item) :
        /\ Len(out) \in Nat /\ Len(rest) \in Nat
        /\ Onwards(out, c, k) /\ Onwards(rest, c, k + Len(out))
        /\ file' = [file EXCEPT ![addr[c]] = @ \o out]
        /\ txtout' = [txtout EXCEPT ![i] = rest]
        /\ rcvd' = [rcvd EXCEPT ![c] = (k + Len(out)) + Len(rest)]
        /\ rcvd[c] <= (k + Len(out)) + Len(rest) /\ (k + Len(out)) + Len(rest) <= sent[c]
  BY <1>2, Stored
<1> DEFINE p == k + Len(out)
           r == p + Len(rest)
<1>4. rcvd[c] \in Nat /\ sent[c] \in Nat /\ phase[c] = "served" /\ InFile(c) = 1..k
  BY <1>2, Types DEF Serving
<1>5. k \in 0..r /\ p \in k..r /\ p \in Nat /\ r \in Nat
  BY <1>3
<1>6. rcvd' = [rcvd EXCEPT ![c] = r] /\ rcvd[c] <= r /\ r <= sent[c]
  BY <1>3
<1> HIDE DEF p, r
<1>7. r \in rcvd[c]..sent[c]
  BY <1>4, <1>5, <1>6
<1>8. rst[c] \/ \A j \in 1..Len(file[addr[c]]) : file[addr[c]][j][1] <= c
  BY <1>4, Turns
<1>9. Ports!Extend(c, k, p)
  BY <1>3, <1>4, <1>8, Extending DEF p
<1>10. c \notin Done /\ Done' = Done /\ Peer' = Peer
  BY <1>1, <1>4 DEF Done, Peer
<1>11. Ports!Log(c)
  BY <1>1, <1>5, <1>6, <1>7, <1>9, <1>10 DEF Ports!Log
<1> QED BY <1>11 DEF Ports!Next

LEMMA DropLogs ==
  ASSUME IInv, JInv, Drop
  PROVE  Ports!Next
<1> DEFINE out == txtout[i]
<1>1. /\ pc = "serve" /\ revents[i] /\ UNCHANGED <<rst, fin, rcvd, sent>> /\ Ended(conns[i]) /\ Alive /\ Alive'
      /\ phase' = [phase EXCEPT ![conns[i]] = "closed"]
      /\ file' = [file EXCEPT ![addr[conns[i]]] = @ \o out]
  BY DEF Drop, client, Alive, Advance, Flushed
<1>2. PICK c \in Conn, k \in Nat : Serving(c, k)
  BY <1>1, ServingNow
<1>3. i \in Slot /\ c = conns[i] /\ phase[c] = "served" /\ InFile(c) = 1..k
  BY <1>2 DEF Serving
<1>4. /\ out \in Seq(Item) /\ Onwards(out, c, k) /\ k + Len(out) = rcvd[c] /\ rcvd[c] = sent[c]
      /\ sent[c] \in Nat
  BY <1>1, <1>2, <1>3, Types DEF Serving, Onwards, Held, Ended
<1> HIDE DEF out
<1>5. k \in 0..sent[c]
  BY <1>4
<1>6. rst[c] \/ \A j \in 1..Len(file[addr[c]]) : file[addr[c]][j][1] <= c
  BY <1>3, Turns
<1>7. Ports!Extend(c, k, sent[c])
  <2>1. file' = [file EXCEPT ![addr[c]] = @ \o out]
    BY <1>1, <1>3
  <2>2. Ports!Extend(c, k, k + Len(out))
    BY <1>3, <1>4, <1>6, <2>1, Extending
  <2> QED BY <1>4, <2>2
<1>8. c \notin Done /\ Done' = Done \cup {c}
  BY <1>1, <1>3, Types DEF Done
<1>9. Peer[c] # "talking" /\ Peer' = Peer
  BY <1>1, <1>3 DEF Peer, Ended
<1>10. Ports!Close(c)
  BY <1>1, <1>4, <1>5, <1>7, <1>8, <1>9 DEF Ports!Close
<1> QED BY <1>10 DEF Ports!Next

LEMMA AcceptLogs ==
  ASSUME IInv, Accept
  PROVE  UNCHANGED <<Alive, Peer, sent, rcvd, Done, file>>
<1>1. Alive /\ Alive' /\ UNCHANGED <<file, sent, rcvd, rst, fin>>
  BY DEF Accept, Alive, client
<1>2. Done' = Done
  <2>1. CASE phase' = phase
    BY <2>1 DEF Done
  <2>2. CASE phase' # phase
    <3>1. PICK p \in {"refused", "served"} : revents[0] /\ phase' = [phase EXCEPT ![Head(backlog)] = p]
      BY <2>2 DEF Accept
    <3>2. backlog # << >> /\ backlog \in Seq(Conn)
      BY <3>1 DEF IInv, TypeOK, Turn, Accept
    <3>3. Head(backlog) \in Conn /\ phase[Head(backlog)] = "waiting"
      BY <3>2 DEF IInv, Queue
    <3> QED BY <3>1, <3>3, Types DEF Done
  <2> QED BY <2>1, <2>2
<1>3. Peer' = Peer
  BY <1>1 DEF Peer
<1> QED BY <1>1, <1>2, <1>3

LEMMA ClientLogs ==
  ASSUME IInv, NEW c \in Conn, Connect(c) \/ Send(c) \/ Finish(c) \/ Reset(c)
  PROVE  Ports!Next \/ UNCHANGED <<Alive, Peer, sent, rcvd, Done, file>>
<1>1. Alive /\ Alive' /\ UNCHANGED <<file, rcvd>>
  BY DEF Connect, Send, Finish, Reset, server, Alive
<1>2. CASE Connect(c)
  <2>1. sent' = sent /\ rst' = rst /\ fin' = fin /\ Peer' = Peer
    BY <1>2 DEF Connect, client, Peer
  <2>2. Done' = Done
    BY <1>2, Types DEF Connect, Done
  <2> QED BY <1>1, <2>1, <2>2
<1>3. CASE Send(c)
  <2>1. Peer[c] = "talking" /\ Peer' = Peer /\ Done' = Done
    BY <1>3 DEF Send, Peer, Done
  <2>2. sent' = [sent EXCEPT ![c] = @ + 1]
    BY <1>3 DEF Send
  <2> QED BY <1>1, <2>1, <2>2 DEF Ports!Next, Ports!Send
<1>4. CASE Finish(c) \/ Reset(c)
  <2>1. sent' = sent /\ Done' = Done
    BY <1>4 DEF Finish, Reset, Done
  <2>2. \/ Peer[c] = "talking" /\ Peer' = [Peer EXCEPT ![c] = "done"]
        \/ Peer[c] # "reset" /\ Peer' = [Peer EXCEPT ![c] = "reset"]
    <3>1. fin \in [Conn -> BOOLEAN] /\ rst \in [Conn -> BOOLEAN]
      BY DEF IInv, TypeOK
    <3>2. CASE Finish(c)
      <4>1. ~fin[c] /\ ~rst[c] /\ rst' = rst /\ fin' = [fin EXCEPT ![c] = TRUE]
        BY <3>2 DEF Finish
      <4> QED BY <3>1, <4>1 DEF Peer
    <3>3. CASE Reset(c)
      <4>1. ~rst[c] /\ fin' = fin /\ rst' = [rst EXCEPT ![c] = TRUE]
        BY <3>3 DEF Reset
      <4> QED BY <3>1, <4>1 DEF Peer
    <3> QED BY <1>4, <3>2, <3>3
  <2> QED BY <1>1, <2>1, <2>2 DEF Ports!Next, Ports!Leave
<1> QED BY <1>2, <1>3, <1>4

LEMMA StepLogs ==
  ASSUME IInv, JInv, [Next]_vars
  PROVE  Ports!Next \/ UNCHANGED <<Alive, Peer, sent, rcvd, Done, file>>
<1>1. CASE Poll \/ Skip
  <2>1. Alive /\ Alive' /\ UNCHANGED <<file, sent, rcvd, phase, fin, rst>>
    BY <1>1 DEF Poll, Skip, Advance, Alive, client
  <2> QED BY <2>1 DEF Peer, Done
<1>2. CASE Accept
  BY <1>2, AcceptLogs
<1>3. CASE Store
  BY <1>3, StoreLogs
<1>4. CASE Drop
  BY <1>4, DropLogs
<1>5. CASE Kill
  <2>1. Alive /\ pc' = "killed" /\ UNCHANGED <<file, sent, rcvd, phase, fin, rst>>
    BY <1>5 DEF Kill, client
  <2>2. Alive' = FALSE
    BY <2>1 DEF Alive
  <2>3. Peer' = Peer /\ Done' = Done
    BY <2>1 DEF Peer, Done
  <2> QED BY <2>1, <2>2, <2>3 DEF Ports!Next, Ports!Crash
<1>6. CASE Client
  BY <1>6, ClientLogs DEF Client
<1>7. CASE UNCHANGED vars
  <2>1. UNCHANGED <<pc, file, sent, rcvd, phase, fin, rst>>
    BY <1>7 DEF vars, server, client
  <2> QED BY <2>1 DEF Peer, Done, Alive
<1> QED BY <1>1, <1>2, <1>3, <1>4, <1>5, <1>6, <1>7 DEF Next, Run

\* The server implements Logs: whatever its slots, its stdio and its clients do,
\* each file only grows, by the bytes of a connection that come next; a
\* connection is closed when all of it is there; and bytes from before a reset
\* are the only ones that come behind a later connection of the port.
THEOREM LoggedHolds == Spec => Logged
<1>1. Init => Ports!Init
  BY DEF Init, Ports!Init, Alive, Done, Peer
<1>2. IInv /\ JInv /\ [Next]_vars => [Ports!Next]_<<Alive, Peer, sent, rcvd, Done, file>>
  BY StepLogs
<1> QED BY <1>1, <1>2, Invariance, InvarianceOrder, PTL DEF Spec, Logged, Ports!Spec, Ports!vars
=============================================================================
