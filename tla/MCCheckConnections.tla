------------------------- MODULE MCCheckConnections -------------------------
(***************************************************************************)
(* Instances of CheckConnections for TLC: any subset of the mounts fails.  *)
(***************************************************************************)
EXTENDS CheckConnections
==============================================================================
