------------------------------ MODULE MCNodeServer -----------------------------
(***************************************************************************)
(* Model-checking instance of NodeServer.                                  *)
(***************************************************************************)
EXTENDS NodeServer
=============================================================================
