------------------------------ MODULE MCClient ------------------------------
(***************************************************************************)
(* Instances of Client for TLC.  Connection names are interchangeable in   *)
(* every safety property, so the safety runs use them as a symmetry set.   *)
(***************************************************************************)
EXTENDS Client, TLC

ConnSymmetry == Permutations(Conns)
==============================================================================
