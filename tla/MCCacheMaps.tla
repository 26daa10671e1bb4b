------------------------------ MODULE MCCacheMaps ------------------------------
(***************************************************************************)
(* Model-checking instances of CacheMaps: an address and a name server     *)
(* that come in one answer, and the name server that comes alone.          *)
(***************************************************************************)
EXTENDS CacheMaps, TLC

CONSTANTS a, ns

MCAnswers == {<<a, ns>>, <<ns>>}

MCTypeOf == (a :> "A") @@ (ns :> "NS")
=============================================================================
