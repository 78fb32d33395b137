---------------------------- MODULE MCRelayPair -----------------------------
(* A client and a server joined by a TCP connection: c2s carries what the  *)
(* client sends, s2c what the server sends.                                *)
EXTENDS Relay

MCProc == {"client", "server"}
MCSockbuf == {"c0", "c1", "s0", "s1"}
MCsbs == [client |-> <<"c0", "c1">>, server |-> <<"s0", "s1">>]
MCChan == {"cin", "cout", "c2s", "s2c", "sin", "sout"}
MCinfd == [c0 |-> "cin", c1 |-> "s2c", s0 |-> "sin", s1 |-> "c2s"]
MCoutfd == [c0 |-> "c2s", c1 |-> "cout", s0 |-> "s2c", s1 |-> "sout"]

\* More from the client than its buffer takes at once.
MCMaxBytes == [c \in MCChan |-> IF c = "cin" THEN 3 ELSE 1]

\* A session as its two users see it: what is typed at one end is what is
\* printed at the other, through two relays and a connection that may be
\* reset under them.
ClientToServer == INSTANCE Stream WITH sent <- wr["cin"], got <- wr["sout"]
ServerToClient == INSTANCE Stream WITH sent <- wr["sin"], got <- wr["cout"]
EndToEnd == ClientToServer!Spec /\ ServerToClient!Spec
=============================================================================
