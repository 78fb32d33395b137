------------------------------- MODULE Stream -------------------------------
(***************************************************************************)
(* What one direction of a netcat session promises: the bytes that come    *)
(* out are the bytes that went in, in the same order, none twice and none  *)
(* left out.  The stream may stop short at any time.                       *)
(***************************************************************************)
EXTENDS Integers, Sequences

VARIABLES sent, got

vars == <<sent, got>>

Prefix(s, t) == Len(s) <= Len(t) /\ SubSeq(t, 1, Len(s)) = s

Init == sent = << >> /\ got = << >>

\* Some bytes go in behind those already there.
Put == Prefix(sent, sent') /\ UNCHANGED got

\* Some of the bytes that are next in line come out.
Get == Prefix(got, got') /\ Prefix(got', sent) /\ UNCHANGED sent

Next == Put \/ Get

Spec == Init /\ [][Next]_vars
=============================================================================
