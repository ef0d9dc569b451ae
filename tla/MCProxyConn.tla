----------------------------- MODULE MCProxyConn -----------------------------
(***************************************************************************)
(* Instances of ProxyConn for TLC: a buffer of two bytes and up to three   *)
(* bytes a direction, so that a stream takes a full and a short read.      *)
(***************************************************************************)
EXTENDS ProxyConn
==============================================================================
