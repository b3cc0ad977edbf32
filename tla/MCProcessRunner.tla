-------------------------- MODULE MCProcessRunner --------------------------
(* Instances of ProcessRunner for TLC.                                     *)
EXTENDS ProcessRunner
=============================================================================
