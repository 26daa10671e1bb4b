----------------------------- MODULE MCPagedStore -----------------------------
(***************************************************************************)
(* Model-checking instance of PagedStore: more pages than fit in memory.   *)
(***************************************************************************)
EXTENDS PagedStore
=============================================================================
