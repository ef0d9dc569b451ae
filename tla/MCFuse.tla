------------------------------- MODULE MCFuse -------------------------------
(***************************************************************************)
(* Instances of Fuse for TLC.                                              *)
(***************************************************************************)
EXTENDS Fuse

CONSTANTS a, b,       \* instances
          k1, k2      \* callers
==============================================================================
