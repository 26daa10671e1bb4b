----------------------------- MODULE MCHashQuery -----------------------------
(***************************************************************************)
(* A model-checking instance of HashQuery: two clusters; n1 and n2 are     *)
(* answered where they hash to, n3 by a wildcard record of the other       *)
(* cluster; n4 is in another spelling than its record.                     *)
(***************************************************************************)
EXTENDS HashQuery, TLC

CONSTANTS h1, h2, c1, c2, s1, s2, s3, n1, n2, n3, n4

MCQueries == {h1, h2}
MCClusters == {c1, c2}
MCMembers == (c1 :> {s1, s2}) @@ (c2 :> {s3})
MCNames == {n1, n2, n3, n4}
MCAskSets == (h1 :> {{n1, n2}, {n3}}) @@ (h2 :> {{n1}, {n4}})
MCTable == (n1 :> c1) @@ (n2 :> c2) @@ (n3 :> c1) @@ (n4 :> c2)
MCHolds == (c1 :> {n1}) @@ (c2 :> {n2, n3, n4})
MCSpelled == {n1, n2, n3}
=============================================================================
