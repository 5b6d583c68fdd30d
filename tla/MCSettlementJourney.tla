------------------------ MODULE MCSettlementJourney ------------------------
(* A small instance of the demo for TLC. *)
EXTENDS SettlementJourney

CONSTANTS c1, c2, k1, k2
=============================================================================
