---------------------------- MODULE MCNbdServer ----------------------------
(* Two overlapping reads; two retries stand for the five of the code.       *)
EXTENDS NbdServer

CONSTANTS r1, r2
=============================================================================
