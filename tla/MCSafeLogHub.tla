--------------------------- MODULE MCSafeLogHub ----------------------------
(* Instances of SafeLogHub for TLC.                                        *)
EXTENDS SafeLogHub
=============================================================================
