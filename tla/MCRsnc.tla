------------------------------- MODULE MCRsnc -------------------------------
(* The Rust netcat server between its terminal and its one client.         *)
EXTENDS Rsnc

MCProc == {"rsnc"}
MCSockbuf == {"send", "rec"}
MCsbs == [rsnc |-> <<"send", "rec">>]
MCChan == {"stdin", "stdout", "toPeer", "fromPeer"}
MCinfd == [send |-> "stdin", rec |-> "fromPeer"]
MCoutfd == [send |-> "toPeer", rec |-> "stdout"]
MCMaxBytes == [c \in MCChan |-> 3]
=============================================================================
