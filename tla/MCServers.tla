----------------------------- MODULE MCServers -----------------------------
(* Instances of Servers for TLC.                                           *)
EXTENDS Servers
=============================================================================
