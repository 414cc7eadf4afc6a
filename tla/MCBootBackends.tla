-------------------------- MODULE MCBootBackends --------------------------
(* Three slots, so that an order has a middle and two slots may be equal.   *)
EXTENDS BootBackends

CONSTANTS s1, s2, s3

MCOrder == <<s1, s2, s3>>
\* One counter configured, the other left to its default.
MCAttempts == [default |-> 1, primary |-> 0]
=============================================================================
