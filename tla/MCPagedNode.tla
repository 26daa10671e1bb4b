----------------------------- MODULE MCPagedNode -----------------------------
(***************************************************************************)
(* Model-checking instances of PagedNode; the .cfg files give the bounds.  *)
(***************************************************************************)
EXTENDS PagedNode
=============================================================================
