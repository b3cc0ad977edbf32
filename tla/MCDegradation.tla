--------------------------- MODULE MCDegradation ---------------------------
(* Instances of Degradation for TLC.                                       *)
EXTENDS Degradation

(* The root kernel comes first in the order of the ids.                    *)
MCIds == 0 .. 2
MCDomains == 1 .. 2
=============================================================================
