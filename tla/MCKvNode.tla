------------------------------ MODULE MCKvNode ------------------------------
(***************************************************************************)
(* Model-checking instances of KvNode.  Every constant is a number.        *)
(***************************************************************************)
EXTENDS KvNode
=============================================================================
