--------------------------- MODULE MCUpdateAgent ---------------------------
(* The agent with two slots of one part, and one update that comes up.      *)
EXTENDS UpdateAgent, MCSlotUpdate

\* One update; the server offers nothing else.
MCOffers == OneUpdate
=============================================================================
