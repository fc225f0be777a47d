----------------------------- MODULE MCServers ------------------------------
(***************************************************************************)
(* Servers for TLC: the public and the metrics server.                     *)
(***************************************************************************)
EXTENDS Servers

=============================================================================
