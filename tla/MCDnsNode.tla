------------------------------ MODULE MCDnsNode ------------------------------
(***************************************************************************)
(* Model-checking instances of DnsNode; the .cfg files give the bounds.    *)
(***************************************************************************)
EXTENDS DnsNode
=============================================================================
