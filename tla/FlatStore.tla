------------------------------ MODULE FlatStore ------------------------------
(***************************************************************************)
(* What the paged store (dns/paged_dns_store.go) promises its callers: it  *)
(* behaves like one map that is always in memory.  A query for a name      *)
(* sees, of the proposals for the name's page, exactly an initial segment  *)
(* in log order that includes every proposal applied so far.  A restart    *)
(* may take the applied index back, never below what a page must hold.     *)
(***************************************************************************)
EXTENDS Integers, Sequences, Functions

CONSTANT Pages      \* page numbers, the values of getPageNumber

VARIABLES
  log,    \* the committed proposals, each as the page of its name
  view,   \* page -> the indexes of the proposals its content reflects
  done    \* the proposals up to here have been applied

vars == <<log, view, done>>

\* The content s reflects the proposals for page p among the first n, in log
\* order.
Reflects(s, p, n) ==
  /\ Range(s) = {i \in 1..n : log[i] = p}
  /\ \A j, k \in DOMAIN s : j < k => s[j] < s[k]

Init ==
  /\ log = <<>>
  /\ view = [p \in Pages |-> <<>>]
  /\ done = 0

Commit(p) ==
  /\ log' = Append(log, p)
  /\ UNCHANGED <<view, done>>

\* The next proposal takes effect, unless its page is ahead already.
Apply ==
  /\ done < Len(log)
  /\ done' = done + 1
  /\ LET p == log[done + 1] IN
       view' = IF done + 1 \in Range(view[p]) THEN view
               ELSE [view EXCEPT ![p] = Append(@, done + 1)]
  /\ UNCHANGED log

Restart ==
  /\ done' \in 0..done
  /\ view' \in [Pages -> Seq(1..Len(log))]
  /\ \A p \in Pages : \E m \in done'..Len(log) : Reflects(view'[p], p, m)
  /\ UNCHANGED log

Next == (\E p \in Pages : Commit(p)) \/ Apply \/ Restart

Spec == Init /\ [][Next]_vars
=============================================================================
