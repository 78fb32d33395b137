------------------------------- MODULE MCMcat -------------------------------
(* Three connections; the first and the last come from the same port.      *)
EXTENDS Mcat

MCConn == 1..3
MCaddr == <<"a", "b", "a">>
MCMaxBytes == <<2, 1, 1>>
=============================================================================
