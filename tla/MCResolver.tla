------------------------------ MODULE MCResolver ------------------------------
(***************************************************************************)
(* Model-checking instances of Resolver: every store that can be made of a *)
(* universe of records with precise, wildcard and root wildcard matches,   *)
(* CNAMEs that may form a circle, and delegations.                         *)
(***************************************************************************)
EXTENDS Resolver

a       == <<"a", "c">>
upper   == <<"A", "c">>
ba      == <<"b", "a", "c">>
upperBa == <<"b", "A", "c">>
starA   == <<"*", "a", "c">>
starC   == <<"*", "c">>
star    == <<"*">>

MCLabels == {"a", "A", "b", "c", "*"}

MCTypes == {"A", "CNAME", "NS"}

RR(n, t, d) == [name |-> n, type |-> t, data |-> d]

Addresses ==
  {RR(a, "A", "ip1"), RR(ba, "A", "ip1"), RR(upperBa, "A", "ip2"),
   RR(starA, "A", "ip3"), RR(starC, "A", "ip4"), RR(star, "A", "ip5")}

Aliases ==
  {RR(a, "CNAME", ba), RR(a, "CNAME", star), RR(ba, "CNAME", upper)}

Delegated == {RR(ba, "NS", a), RR(ba, "NS", upper)}

MCZones == SUBSET (Addresses \cup Aliases \cup Delegated)

Question == [name : {a, upper, ba}, type : MCTypes]

\* One question, or two about names that aliases lead to each other.
MCQueries ==
  {<<q>> : q \in Question} \cup
  {<<[name |-> n, type |-> "A"], [name |-> ba, type |-> t]>> :
     n \in {a, upper}, t \in {"A", "NS"}}

\* The outside world may repeat what the store holds.
MCUpstream == {RR(ba, "A", "ip1")}
=============================================================================
