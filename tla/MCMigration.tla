---------------------------- MODULE MCMigration ----------------------------
(***************************************************************************)
(* Model-checking instances of Migration: two old clusters, two names that *)
(* one of them owns, two records and a delete.                             *)
(***************************************************************************)
EXTENDS Migration

CONSTANTS c1, c2, n1, n2, r1, r2, r3

MCOld == {c1, c2}
MCNames == {n1, n2}
MCRequests == {r1, r2, r3}
MCTwoRequests == {r1, r2}
MCDeletes == {r3}
MCNoDeletes == {}
MCNameOf == [r \in Requests |-> IF r = r2 THEN n2 ELSE n1]

MCBefore == [n \in Names |-> c1]

\* One name moves to the new cluster, the other one stays.
MCOneMoves == [n \in Names |-> IF n = n2 THEN New ELSE c1]
=============================================================================
