------------------------------ MODULE MCCommand ------------------------------
(* All lines of up to six characters, with vectors that start with two      *)
(* bytes, so that the line grows twice.                                      *)
EXTENDS Command
=============================================================================
