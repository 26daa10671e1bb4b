------------------------------ MODULE MCNodeCache ------------------------------
(***************************************************************************)
(* Model-checking instance of NodeCache.                                   *)
(***************************************************************************)
EXTENDS NodeCache, TLC

Symmetry == Permutations(Node)
=============================================================================
