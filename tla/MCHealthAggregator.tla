------------------------- MODULE MCHealthAggregator -------------------------
(* Instances of HealthAggregator for TLC.                                  *)
EXTENDS HealthAggregator

(* The root kernel and two domains.                                        *)
MCIds == 0 .. 2
MCDomains == 1 .. 2
=============================================================================
