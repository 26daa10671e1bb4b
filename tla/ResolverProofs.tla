---------------------------- MODULE ResolverProofs ----------------------------
(***************************************************************************)
(* The safety of Resolver for every set of stores, every set of queries    *)
(* and every behaviour of the cache and of the outside world.              *)
(*                                                                         *)
(* What has to be known beyond the properties is where aliases lead.  A    *)
(* question may be asked twice in a message, and its second run adds to    *)
(* the answer of the first and to the questions not handled; the store is  *)
(* locked, so both runs end with the same name.  That is LeadsTo: m is in  *)
(* every set of names that holds n and is closed under following aliases.  *)
(***************************************************************************)
EXTENDS Resolver, WellFoundedInduction, TLAPS

QuestionType == [name : DomainNames, type : Types]

\* The records of store Z for a key and a type.
RecordsOf(Z, n, t) == {rr \in Z : ToLower(rr.name) = n /\ rr.type = t}

\* A question of type t for n is asked again for the target of n's alias.
Follows(Z, n, t) ==
  /\ RecordsOf(Z, n, t) = {}
  /\ t # "CNAME"
  /\ RecordsOf(Z, n, "CNAME") # {}

\* Aliases lead from n to m: the least relation, with heads the aliases.
LeadsTo(Z, heads, t, n, m) ==
  \A S \in SUBSET DomainNames :
    /\ n \in S
    /\ \A x \in S : Follows(Z, x, t) => ToLower(heads[x].data) \in S
    => m \in S

\* The records of the longest wildcard that covers n.
WildOf(Z, n, t) == {rr \in Z : rr.type = t /\ Covers(ToLower(rr.name), n)}

BestOf(Z, n, t) ==
  {rr \in WildOf(Z, n, t) :
     \A s \in WildOf(Z, n, t) : Len(s.name) <= Len(rr.name)}

Renamed(rr, n) == [rr EXCEPT !.name = n]

RenamedOf(Z, n, t) == {Renamed(rr, n) : rr \in BestOf(Z, n, t)}

\* The addresses of a name server.
GlueOf(Z, server) ==
  IF RecordsOf(Z, server, "A") # {} THEN RecordsOf(Z, server, "A")
  ELSE BestOf(Z, server, "A")

---------------------------------------------------------------------------
(* The inductive invariant.                                                *)

\* Every variable but the response has its type.
ResolverTypes ==
  /\ zone \in Zones
  /\ \A rr \in zone : rr.type = "CNAME" =>
       LET head == aliases[ToLower(rr.name)]
       IN /\ head \in zone /\ head.type = "CNAME"
          /\ ToLower(head.name) = ToLower(rr.name)
  /\ cache \subseteq Upstream
  /\ rd \in BOOLEAN
  /\ todo \in Seq(QuestionType) /\ question \in QuestionType
  /\ at \in DomainNames
  /\ unhandled \subseteq QuestionType
  /\ phase \in {"idle", "question", "merge", "done"}
  /\ names \subseteq DomainNames
  /\ ends \subseteq QuestionType \X DomainNames

\* The question being handled: its name leads to the one it has reached, and
\* from there to where the same question has ended before.
PlaceInv ==
  /\ phase = "idle" =>
       /\ response = <<{}, {}, {}>>
       /\ unhandled = {} /\ names = {} /\ ends = {}
  /\ phase = "question" =>
       /\ Key \in names
       /\ LeadsTo(zone, aliases, question.type, ToLower(question.name), Key)
       /\ \A e \in ends : e[1] = question =>
            LeadsTo(zone, aliases, question.type, Key, e[2])
  /\ \A q \in unhandled : \E e \in ends : e[1] = q

\* Where the records of the answer come from: upstream, the store as they are,
\* or a wildcard under the name asked for.
OriginInv ==
  \A rr \in Answer :
    \/ rr \in Upstream
    \/ rr \in zone
    \/ /\ rr.name \in DomainNames /\ ToLower(rr.name) = rr.name
       /\ RecordsOf(zone, rr.name, rr.type) = {}
       /\ rr \in RenamedOf(zone, rr.name, rr.type)

\* What has been done for question q when it has ended with name n.
EndInv(q, n) ==
  /\ n = ToLower(n)
  /\ LeadsTo(zone, aliases, q.type, ToLower(q.name), n)
  /\ ~Follows(zone, n, q.type)
  /\ RecordsOf(zone, n, q.type) # {} =>
       /\ RecordsOf(zone, n, q.type) \subseteq Answer
       /\ q \notin unhandled
  /\ RecordsOf(zone, n, q.type) = {} =>
       \/ Answer \cap Upstream # {}
       \/ Ns # {}
       \/ RenamedOf(zone, n, q.type) \subseteq Answer
  /\ q \notin unhandled =>
       \E rr \in Answer : rr.type = q.type /\ ToLower(rr.name) = n

EndsInv == \A e \in ends : EndInv(e[1], e[2])

\* A referral is the store's and has its glue.
GlueInv ==
  \A rr \in Referrals :
    /\ rr \in zone /\ rr.type = "NS"
    /\ GlueOf(zone, rr.data) \subseteq Extra

\* The inductive invariant of a query.
ResolverInv ==
  /\ ResolverTypes /\ PlaceInv /\ OriginInv /\ EndsInv /\ GlueInv
  /\ AnswersFollowQuestion

---------------------------------------------------------------------------
(* Names, records and wildcards.                                           *)

\* Sequences of one length are equal if they are label by label.
LEMMA SameLabels ==
  ASSUME NEW m \in DomainNames, NEW n \in DomainNames, Len(m) = Len(n),
         \A i \in 1 .. Len(n) : m[i] = n[i]
  PROVE  m = n
BY DEF DomainNames

\* Lower-casing keeps the number of labels and is done at once.
LEMMA LowerName ==
  ASSUME NEW n \in DomainNames
  PROVE  /\ ToLower(n) \in DomainNames
         /\ Len(ToLower(n)) = Len(n)
         /\ ToLower(ToLower(n)) = ToLower(n)
<1>1. /\ n \in [1 .. Len(n) -> Labels] /\ Len(n) \in Nat
      /\ DOMAIN n = 1 .. Len(n)
  BY DEF DomainNames
<1>2. /\ ToLower(n) \in [1 .. Len(n) -> Labels]
      /\ \A i \in 1 .. Len(n) :
           ToLower(n)[i] = IF n[i] = "A" THEN "a" ELSE n[i]
  <2>1. \A i \in 1 .. Len(n) :
          (IF n[i] = "A" THEN "a" ELSE n[i]) \in Labels
    BY <1>1, LabelAssumption
  <2> QED
    BY <1>1, <2>1 DEF ToLower
<1>3. ToLower(n) \in DomainNames /\ Len(ToLower(n)) = Len(n)
  BY <1>1, <1>2 DEF DomainNames
<1>4. /\ ToLower(ToLower(n)) \in [1 .. Len(n) -> Labels]
      /\ \A i \in 1 .. Len(n) : ToLower(ToLower(n))[i] =
           IF ToLower(n)[i] = "A" THEN "a" ELSE ToLower(n)[i]
  BY <1>1, <1>2 DEF ToLower
<1>5. \A i \in 1 .. Len(n) : ToLower(ToLower(n))[i] = ToLower(n)[i]
  BY <1>2, <1>4
<1> QED
  BY <1>2, <1>3, <1>4, <1>5

\* What the store holds are records, and renaming one changes its owner only.
LEMMA Renaming ==
  ASSUME NEW Z \in Zones, NEW rr \in Z, NEW n
  PROVE  /\ rr.name \in DomainNames
         /\ Renamed(rr, n).name = n
         /\ Renamed(rr, n).type = rr.type
BY RecordAssumption DEF DomainNames, Renamed

\* Every non-empty set of numbers has a least element.
LEMMA LeastNumber ==
  ASSUME NEW S \in SUBSET Nat, S # {}
  PROVE  \E k \in S : \A j \in S : k <= j
<1> DEFINE R == OpToRel(<, Nat)
<1>1. R = {p \in Nat \X Nat : p[1] < p[2]}
  BY DEF OpToRel
<1>2. IsWellFoundedOn(R, Nat)
  BY NatLessThanWellFounded
<1> HIDE DEF R
<1>3. PICK k \in S : \A j \in S : <<j, k>> \notin R
  BY <1>2, WFMin
<1>4. \A j \in S : ~(j < k)
  BY <1>1, <1>3
<1> QED
  BY <1>3, <1>4

\* The k-th wildcard the loop tries has k labels less, and a star, in front.
LEMMA StarForm ==
  ASSUME NEW n \in DomainNames, NEW k \in 1 .. Len(n)
  PROVE  /\ Star(n, k) \in Seq(Labels)
         /\ Len(Star(n, k)) = Len(n) - k + 1
         /\ Star(n, k)[1] = "*"
         /\ \A i \in 2 .. Len(n) - k + 1 : Star(n, k)[i] = n[k + i - 1]
<1>1. Len(n) \in Nat /\ <<"*">> \in Seq(Labels)
  <2>1. "*" \in Labels
    BY LabelAssumption
  <2> QED
    BY <2>1 DEF DomainNames
<1>2. /\ SubSeq(n, k + 1, Len(n)) \in Seq(Labels)
      /\ Len(SubSeq(n, k + 1, Len(n))) = Len(n) - k
      /\ \A i \in 1 .. Len(n) - k : SubSeq(n, k + 1, Len(n))[i] = n[k + i]
  BY <1>1 DEF DomainNames
<1> QED
  BY <1>1, <1>2 DEF Star

\* A name is covered by exactly the wildcards the loop tries.
LEMMA CoversStar ==
  ASSUME NEW n \in DomainNames, NEW s \in DomainNames
  PROVE  Covers(s, n) <=> \E k \in 1 .. Len(n) : s = Star(n, k)
<1>1. Len(n) \in Nat /\ Len(s) \in Nat
  BY DEF DomainNames
<1>2. ASSUME Covers(s, n) PROVE \E k \in 1 .. Len(n) : s = Star(n, k)
  <2> DEFINE k == Len(n) - Len(s) + 1
  <2>1. Len(s) >= 1 /\ Len(s) <= Len(n) /\ s[1] = "*"
    BY <1>1, <1>2 DEF Covers, DomainNames
  <2>2. k \in 1 .. Len(n) /\ Len(s) = Len(n) - k + 1
    BY <1>1, <2>1
  <2>3. Tail(s) = SubSeq(n, k + 1, Len(n))
    BY <1>1, <1>2 DEF Covers
  <2>4. \A i \in 2 .. Len(s) : s[i] = n[k + i - 1]
    <3> SUFFICES ASSUME NEW i \in 2 .. Len(s) PROVE s[i] = n[k + i - 1]
      OBVIOUS
    <3>1. s[i] = Tail(s)[i - 1]
      BY <1>1, <2>1 DEF DomainNames
    <3>2. SubSeq(n, k + 1, Len(n))[i - 1] = n[k + i - 1]
      BY <1>1, <2>2 DEF DomainNames
    <3> QED
      BY <2>3, <3>1, <3>2
  <2> HIDE DEF k
  <2>5. s = Star(n, k)
    <3>1. /\ Star(n, k) \in Seq(Labels)
          /\ Len(Star(n, k)) = Len(s)
          /\ Star(n, k)[1] = "*"
          /\ \A i \in 2 .. Len(s) : Star(n, k)[i] = n[k + i - 1]
      BY <2>2, StarForm
    <3>2. \A i \in 1 .. Len(s) : s[i] = Star(n, k)[i]
      BY <1>1, <2>1, <2>4, <3>1
    <3> QED
      BY <3>1, <3>2 DEF DomainNames
  <2> QED
    BY <2>2, <2>5
<1>3. ASSUME NEW k \in 1 .. Len(n), s = Star(n, k) PROVE Covers(s, n)
  <2>1. /\ Len(s) = Len(n) - k + 1 /\ s[1] = "*"
        /\ \A i \in 2 .. Len(n) - k + 1 : s[i] = n[k + i - 1]
    BY <1>3, StarForm
  <2>2. /\ Tail(s) \in Seq(Labels) /\ Len(Tail(s)) = Len(n) - k
        /\ \A i \in 1 .. Len(n) - k : Tail(s)[i] = s[i + 1]
    BY <1>1, <2>1 DEF DomainNames
  <2>3. /\ SubSeq(n, k + 1, Len(n)) \in Seq(Labels)
        /\ Len(SubSeq(n, k + 1, Len(n))) = Len(n) - k
        /\ \A i \in 1 .. Len(n) - k : SubSeq(n, k + 1, Len(n))[i] = n[k + i]
    BY <1>1 DEF DomainNames
  <2>4. \A i \in 1 .. Len(n) - k : Tail(s)[i] = SubSeq(n, k + 1, Len(n))[i]
    BY <1>1, <2>1, <2>2, <2>3
  <2>5. Tail(s) = SubSeq(n, k + 1, Len(n))
    BY <2>2, <2>3, <2>4, SameLabels DEF DomainNames
  <2>6. Len(n) - Len(s) + 2 = k + 1
    BY <1>1, <2>1
  <2> QED
    BY <1>1, <2>1, <2>5, <2>6 DEF Covers, DomainNames
<1> QED
  BY <1>2, <1>3

\* The loop over wildcards, as the code has it twice (dns.go:184-212,
\* dns_store.go:175-197), finds the records of the longest one that covers the
\* name and has any of the type.
LEMMA StarMatchIsBest ==
  ASSUME zone \in Zones, NEW n \in DomainNames, NEW t
  PROVE  StarMatch(n, t) = BestOf(zone, n, t)
<1> DEFINE hits == {k \in 1 .. Len(n) : Records(Star(n, k), t) # {}}
<1>1. Len(n) \in Nat /\ hits \in SUBSET Nat
  BY DEF DomainNames
<1>2. \A rr \in zone :
        rr.name \in DomainNames /\ ToLower(rr.name) \in DomainNames
                      /\ Len(ToLower(rr.name)) = Len(rr.name)
  BY Renaming, LowerName
<1>3. \A rr \in WildOf(zone, n, t) :
        \E k \in hits : rr \in Records(Star(n, k), t)
  BY <1>2, CoversStar DEF WildOf, Records
<1>4. \A k \in hits : \A rr \in Records(Star(n, k), t) :
        rr \in WildOf(zone, n, t) /\ Len(rr.name) = Len(n) - k + 1
  BY <1>2, CoversStar, StarForm DEF WildOf, Records
<1>5. CASE hits = {}
  <2>1. WildOf(zone, n, t) = {}
    BY <1>3, <1>5
  <2> QED
    BY <1>5, <2>1 DEF StarMatch, BestOf
<1>6. CASE hits # {}
  <2> DEFINE first == CHOOSE k \in hits : \A j \in hits : k <= j
  <2>1. first \in hits /\ \A j \in hits : first <= j
    BY <1>1, <1>6, LeastNumber
  <2>2. StarMatch(n, t) = Records(Star(n, first), t)
    BY <1>6 DEF StarMatch
  <2> HIDE DEF first
  <2>3. Records(Star(n, first), t) \subseteq BestOf(zone, n, t)
    <3> SUFFICES ASSUME NEW rr \in Records(Star(n, first), t),
                        NEW s \in WildOf(zone, n, t)
                 PROVE  Len(s.name) <= Len(rr.name)
      BY <1>4, <2>1 DEF BestOf
    <3>1. PICK k \in hits : s \in Records(Star(n, k), t)
      BY <1>3
    <3>2. Len(s.name) = Len(n) - k + 1 /\ first <= k
      BY <1>4, <2>1, <3>1
    <3>3. Len(rr.name) = Len(n) - first + 1
      BY <1>4, <2>1
    <3> QED
      BY <1>1, <2>1, <3>1, <3>2, <3>3
  <2>4. BestOf(zone, n, t) \subseteq Records(Star(n, first), t)
    <3> SUFFICES ASSUME NEW rr \in BestOf(zone, n, t)
                 PROVE  rr \in Records(Star(n, first), t)
      OBVIOUS
    <3>1. PICK k \in hits : rr \in Records(Star(n, k), t)
      BY <1>3 DEF BestOf
    <3>2. PICK s \in Records(Star(n, first), t) : TRUE
      BY <2>1
    <3>3. Len(s.name) <= Len(rr.name)
      BY <1>4, <2>1, <3>2 DEF BestOf
    <3>4. Len(n) - first + 1 <= Len(n) - k + 1
      BY <1>4, <2>1, <3>1, <3>2, <3>3
    <3>5. k = first
      BY <1>1, <2>1, <3>1, <3>4
    <3> QED
      BY <3>1, <3>5
  <2> QED
    BY <2>2, <2>3, <2>4
<1> QED
  BY <1>5, <1>6

---------------------------------------------------------------------------
(* Where aliases lead.                                                     *)

\* A name leads to itself.
LEMMA LeadsNowhere ==
  ASSUME NEW Z, NEW heads, NEW t, NEW n
  PROVE  LeadsTo(Z, heads, t, n, n)
BY DEF LeadsTo

\* One alias further on.
LEMMA LeadsFurther ==
  ASSUME NEW Z, NEW heads, NEW t, NEW n, NEW m,
         LeadsTo(Z, heads, t, n, m), Follows(Z, m, t)
  PROVE  LeadsTo(Z, heads, t, n, ToLower(heads[m].data))
BY DEF LeadsTo

\* What is not where it leads to leads on with its alias.
LEMMA LeadsOn ==
  ASSUME NEW Z, NEW heads, NEW t, NEW n \in DomainNames, NEW m,
         LeadsTo(Z, heads, t, n, m), Follows(Z, n, t), ~Follows(Z, m, t)
  PROVE  LeadsTo(Z, heads, t, ToLower(heads[n].data), m)
<1> DEFINE next == ToLower(heads[n].data)
<1> SUFFICES ASSUME NEW S \in SUBSET DomainNames, next \in S,
                    \A x \in S : Follows(Z, x, t) =>
                                  ToLower(heads[x].data) \in S
             PROVE  m \in S
  BY DEF LeadsTo
<1>1. S \cup {n} \in SUBSET DomainNames /\ n \in S \cup {n}
  OBVIOUS
<1>2. \A x \in S \cup {n} : Follows(Z, x, t) =>
                             ToLower(heads[x].data) \in S \cup {n}
  OBVIOUS
<1>3. m \in S \cup {n}
  BY <1>1, <1>2 DEF LeadsTo
<1> QED
  BY <1>3

\* A name that is not an alias leads nowhere else.
LEMMA LeadsToEnd ==
  ASSUME NEW Z, NEW heads, NEW t, NEW n \in DomainNames, NEW m,
         LeadsTo(Z, heads, t, n, m), ~Follows(Z, n, t)
  PROVE  m = n
<1>1. {n} \in SUBSET DomainNames /\ n \in {n}
  OBVIOUS
<1>2. \A x \in {n} : Follows(Z, x, t) => ToLower(heads[x].data) \in {n}
  OBVIOUS
<1> QED
  BY <1>1, <1>2 DEF LeadsTo

---------------------------------------------------------------------------
(* The steps.                                                              *)

\* The key a question is looked up by, and what the operators of Resolver find
\* there.
LEMMA KeyFacts ==
  ASSUME ResolverTypes
  PROVE  /\ Key \in DomainNames /\ ToLower(Key) = Key
         /\ Precise = RecordsOf(zone, Key, question.type)
         /\ Delegations = RecordsOf(zone, Key, "NS")
         /\ Wild = BestOf(zone, Key, question.type)
         /\ Precise = {} /\ Canonical # {}
              <=> Follows(zone, Key, question.type)
<1>1. Key \in DomainNames /\ ToLower(Key) = Key
  BY LowerName DEF ResolverTypes, Key
<1>2. Wild = BestOf(zone, Key, question.type)
  BY <1>1, StarMatchIsBest DEF ResolverTypes, Wild
<1> QED
  BY <1>1, <1>2 DEF Precise, Delegations, Canonical, Records, RecordsOf,
                    Follows

\* The alias the code follows is a record of the store.
LEMMA AliasFacts ==
  ASSUME ResolverTypes, Canonical # {}
  PROVE  /\ aliases[Key] \in zone
         /\ aliases[Key].type = "CNAME"
         /\ ToLower(aliases[Key].name) = Key
         /\ aliases[Key].data \in DomainNames
<1>1. PICK rr \in zone : rr.type = "CNAME" /\ ToLower(rr.name) = Key
  BY DEF Canonical, Records
<1>2. /\ aliases[Key] \in zone /\ aliases[Key].type = "CNAME"
      /\ ToLower(aliases[Key].name) = Key
  BY <1>1 DEF ResolverTypes
<1> QED
  BY <1>2, RecordAssumption DEF ResolverTypes

\* What HandleSingleQuestion has done with the name Key when it returns.
Served(handled) ==
  /\ Answer \subseteq Answer' /\ Ns \subseteq Ns' /\ Extra \subseteq Extra'
  /\ ~Follows(zone, Key, question.type)
  /\ \A rr \in Answer' \ Answer :
       \/ rr \in Upstream
       \/ rr \in zone /\ ToLower(rr.name) = Key
       \/ /\ rr.name = Key
          /\ RecordsOf(zone, Key, rr.type) = {}
          /\ rr \in RenamedOf(zone, Key, rr.type)
  /\ RecordsOf(zone, Key, question.type) # {} =>
       RecordsOf(zone, Key, question.type) \subseteq Answer' /\ handled
  /\ RecordsOf(zone, Key, question.type) = {} =>
       \/ Answer' \cap Upstream # {}
       \/ Ns' # {}
       \/ RenamedOf(zone, Key, question.type) \subseteq Answer'
  /\ handled => \E rr \in Answer' : /\ rr.type = question.type
                                    /\ ToLower(rr.name) = Key
  /\ \A rr \in Ns' \ Ns : /\ rr \in zone /\ rr.type = "NS"
                          /\ GlueOf(zone, rr.data) \subseteq Extra'

\* ProcessDNSQuery's loop goes on with the next question, or ends.
LEMMA ReturnKeeps ==
  ASSUME ResolverInv, phase = "question", NEW handled \in BOOLEAN,
         Return(handled), Served(handled)
  PROVE  ResolverInv'
<1>1. /\ Key \in DomainNames /\ ToLower(Key) = Key
      /\ question \in QuestionType /\ Key \in names
      /\ LeadsTo(zone, aliases, question.type, ToLower(question.name), Key)
  BY KeyFacts DEF ResolverInv, ResolverTypes, PlaceInv
<1>2. /\ zone' = zone /\ aliases' = aliases /\ cache' = cache /\ rd' = rd
      /\ ends' = ends \cup {<<question, Key>>}
      /\ unhandled' = IF handled THEN unhandled ELSE unhandled \cup {question}
  BY DEF Return, store
<1>3. \/ /\ phase' = "merge" /\ todo' = todo /\ question' = question
         /\ at' = at /\ names' = names
      \/ /\ phase' = "question" /\ todo # <<>> /\ question' = Head(todo)
         /\ todo' = Tail(todo) /\ at' = question'.name
         /\ names' = names \cup {ToLower(question'.name)}
  BY DEF Return
<1>4. \A e \in ends : e[1] = question => e[2] = Key
  BY <1>1, LeadsToEnd DEF ResolverInv, PlaceInv, Served
<1>5. RecordsOf(zone, Key, question.type) # {} => question \notin unhandled
  BY <1>4 DEF ResolverInv, PlaceInv, EndsInv, EndInv
<1>6. ResolverTypes'
  <2>1. /\ todo' \in Seq(QuestionType) /\ question' \in QuestionType
        /\ at' \in DomainNames
    <3>1. /\ todo \in Seq(QuestionType) /\ question \in QuestionType
          /\ at \in DomainNames
      BY DEF ResolverInv, ResolverTypes
    <3>2. todo # <<>> => /\ Head(todo) \in QuestionType
                        /\ Tail(todo) \in Seq(QuestionType)
      BY <3>1
    <3>3. \A q \in QuestionType : q.name \in DomainNames
      BY DEF QuestionType
    <3> QED
      BY <1>3, <3>1, <3>2, <3>3
  <2>2. names' \subseteq DomainNames
    BY <1>3, <2>1, LowerName DEF ResolverInv, ResolverTypes, QuestionType
  <2>3. ends' \subseteq QuestionType \X DomainNames
    BY <1>1, <1>2 DEF ResolverInv, ResolverTypes
  <2> QED
    BY <1>1, <1>2, <1>3, <2>1, <2>2, <2>3 DEF ResolverInv, ResolverTypes
<1>7. EndsInv'
  <2> SUFFICES ASSUME NEW e \in ends' PROVE EndInv(e[1], e[2])'
    BY DEF EndsInv
  <2>1. CASE e \in ends
    <3>1. EndInv(e[1], e[2])
      BY <2>1 DEF ResolverInv, EndsInv
    <3>2. RecordsOf(zone, e[2], e[1].type) # {} => e[1] \notin unhandled'
      BY <1>2, <1>4, <2>1, <3>1 DEF EndInv, Served
    <3> QED
      BY <1>2, <3>1, <3>2 DEF EndInv, Served
  <2>2. CASE e = <<question, Key>>
    <3>1. RecordsOf(zone, Key, question.type) # {} =>
            question \notin unhandled'
      BY <1>2, <1>5 DEF Served
    <3>2. question \notin unhandled' => handled
      BY <1>2
    <3> QED
      BY <1>1, <1>2, <2>2, <3>1, <3>2 DEF EndInv, Served
  <2> QED
    BY <1>2, <2>1, <2>2
<1>8. PlaceInv'
  <2>1. \A q \in unhandled' : \E e \in ends' : e[1] = q
    <3>1. \A q \in unhandled : \E e \in ends : e[1] = q
      BY DEF ResolverInv, PlaceInv
    <3>2. <<question, Key>> \in ends' /\ <<question, Key>>[1] = question
      BY <1>2
    <3> QED
      BY <1>2, <3>1, <3>2
  <2>2. CASE phase' = "merge"
    BY <2>1, <2>2 DEF PlaceInv
  <2>3. CASE phase' = "question"
    <3>1. Key' = ToLower(question'.name) /\ Key' \in names'
      BY <1>3, <2>3 DEF Key
    <3>2. LeadsTo(zone', aliases', question'.type, ToLower(question'.name),
                  Key')
      BY <3>1, LeadsNowhere
    <3>3. \A e \in ends' : e[1] = question' =>
            LeadsTo(zone', aliases', question'.type, Key', e[2])
      BY <1>7, <3>1 DEF EndsInv, EndInv
    <3> QED
      BY <2>1, <2>3, <3>1, <3>2, <3>3 DEF PlaceInv
  <2> QED
    BY <1>3, <2>2, <2>3
<1>9. OriginInv'
  <2> SUFFICES ASSUME NEW rr \in Answer'
               PROVE  \/ rr \in Upstream
                      \/ rr \in zone
                      \/ /\ rr.name \in DomainNames
                         /\ ToLower(rr.name) = rr.name
                         /\ RecordsOf(zone, rr.name, rr.type) = {}
                         /\ rr \in RenamedOf(zone, rr.name, rr.type)
    BY <1>2 DEF OriginInv
  <2> QED
    BY <1>1 DEF Served, ResolverInv, OriginInv
<1>10. GlueInv'
  <2>1. Referrals' = Ns' /\ Referrals = Ns
    BY <1>3 DEF Referrals
  <2> QED
    BY <1>2, <2>1 DEF Served, ResolverInv, GlueInv
<1>11. AnswersFollowQuestion'
  <2>1. \A rr \in Answer' \ Upstream : ToLower(rr.name) \in names'
    <3>1. names \subseteq names'
      BY <1>3
    <3> QED
      BY <1>1, <3>1 DEF Served, ResolverInv, AnswersFollowQuestion
  <2>2. ASSUME NEW n \in names'
        PROVE  \/ \E rr \in Answer' : rr.type = "CNAME" /\ ToLower(rr.data) = n
               \/ \E q \in {question'} \cup {e[1] : e \in ends'} :
                    ToLower(q.name) = n
    <3>1. {question} \cup {e[1] : e \in ends} \subseteq {e[1] : e \in ends'}
      <4>1. <<question, Key>> \in ends' /\ <<question, Key>>[1] = question
        BY <1>2
      <4>2. question \in {e[1] : e \in ends'}
        BY <4>1
      <4> QED
        BY <1>2, <4>2
    <3>2. CASE n \in names
      BY <3>1, <3>2 DEF Served, ResolverInv, AnswersFollowQuestion
    <3> QED
      BY <1>3, <2>2, <3>2
  <2> QED
    BY <2>1, <2>2 DEF AnswersFollowQuestion
<1> QED
  BY <1>6, <1>7, <1>8, <1>9, <1>10, <1>11 DEF ResolverInv

\* A precise match.
LEMMA AnswerPreciseKeeps ==
  ASSUME ResolverInv, AnswerPrecise
  PROVE  ResolverInv'
<1>1. /\ phase = "question" /\ Return(TRUE)
      /\ RecordsOf(zone, Key, question.type) # {}
      /\ Answer' = Answer \cup RecordsOf(zone, Key, question.type)
      /\ Ns' = Ns /\ Extra' = Extra
      /\ ~Follows(zone, Key, question.type)
  BY KeyFacts DEF AnswerPrecise, ResolverInv
<1>2. \A rr \in RecordsOf(zone, Key, question.type) :
        rr \in zone /\ ToLower(rr.name) = Key /\ rr.type = question.type
  BY DEF RecordsOf
<1>3. Served(TRUE)
  BY <1>1, <1>2 DEF Served
<1> QED
  BY <1>1, <1>3, ReturnKeeps

\* The cache.
LEMMA AnswerFromCacheKeeps ==
  ASSUME ResolverInv, AnswerFromCache
  PROVE  ResolverInv'
<1>1. /\ phase = "question" /\ Return(TRUE)
      /\ RecordsOf(zone, Key, question.type) = {}
      /\ ~Follows(zone, Key, question.type)
      /\ Answer' = Answer \cup Cached /\ Cached # {}
      /\ Ns' = Ns /\ Extra' = Extra
  BY KeyFacts DEF AnswerFromCache, NoLocalMatch, ResolverInv
<1>2. \A rr \in Cached : /\ rr \in Upstream /\ ToLower(rr.name) = Key
                        /\ rr.type = question.type
  BY DEF Cached, GetCacheRecords, ResolverInv, ResolverTypes
<1>3. Served(TRUE)
  BY <1>1, <1>2 DEF Served
<1> QED
  BY <1>1, <1>3, ReturnKeeps

\* A referral: the glue of each name server is what getGlueRecords finds.
LEMMA DelegateKeeps ==
  ASSUME ResolverInv, Delegate
  PROVE  ResolverInv'
<1>1. /\ phase = "question" /\ Return(FALSE)
      /\ RecordsOf(zone, Key, question.type) = {}
      /\ ~Follows(zone, Key, question.type)
      /\ Delegations # {} /\ Ns' = Ns \cup Delegations
      /\ Extra' =
           Extra \cup UNION {GetGlueRecords(rr.data) : rr \in Delegations}
      /\ Answer' = Answer
  BY KeyFacts DEF Delegate, NoLocalMatch, ResolverInv
<1>2. ASSUME NEW rr \in Delegations
      PROVE  /\ rr \in zone /\ rr.type = "NS"
             /\ GlueOf(zone, rr.data) \subseteq Extra'
  <2>1. rr \in zone /\ rr.type = "NS"
    BY <1>2 DEF Delegations, Records
  <2>2. zone \in Zones /\ rr.data \in DomainNames
    BY <2>1, RecordAssumption DEF ResolverInv, ResolverTypes
  <2>3. GetGlueRecords(rr.data) = GlueOf(zone, rr.data)
    BY <2>2, StarMatchIsBest DEF GetGlueRecords, GlueOf, Records, RecordsOf
  <2> QED
    BY <1>1, <1>2, <2>1, <2>3
<1>3. Served(FALSE)
  BY <1>1, <1>2 DEF Served
<1> QED
  BY <1>1, <1>3, ReturnKeeps

\* A wildcard.
LEMMA AnswerWildKeeps ==
  ASSUME ResolverInv, AnswerWild
  PROVE  ResolverInv'
<1> DEFINE answers == RenamedOf(zone, Key, question.type)
<1>1. /\ phase = "question" /\ Return(TRUE)
      /\ RecordsOf(zone, Key, question.type) = {}
      /\ ~Follows(zone, Key, question.type)
      /\ Wild # {} /\ Wild = BestOf(zone, Key, question.type)
      /\ Answer' = Answer \cup {Renamed(rr, Key) : rr \in Wild}
      /\ Ns' = Ns /\ Extra' = Extra
  BY KeyFacts DEF AnswerWild, NoLocalMatch, ResolverInv, Renamed
<1>2. Answer' = Answer \cup answers
  BY <1>1 DEF RenamedOf
<1>3. Key \in DomainNames /\ ToLower(Key) = Key /\ zone \in Zones
  BY KeyFacts DEF ResolverInv, ResolverTypes
<1>4. \A rr \in answers : rr.name = Key /\ rr.type = question.type
  <2>1. ASSUME NEW s \in BestOf(zone, Key, question.type)
        PROVE  /\ Renamed(s, Key).name = Key
               /\ Renamed(s, Key).type = question.type
    <3>1. s \in zone /\ s.type = question.type
      BY DEF BestOf, WildOf
    <3> QED
      BY <1>3, <3>1, Renaming
  <2> QED
    BY <2>1 DEF RenamedOf
<1>5. answers # {}
  BY <1>1 DEF RenamedOf
<1> HIDE DEF answers
<1>6. \E rr \in Answer' : rr.type = question.type /\ ToLower(rr.name) = Key
  BY <1>2, <1>3, <1>4, <1>5
<1>7. \A rr \in Answer' \ Answer :
        /\ rr.name = Key
        /\ RecordsOf(zone, Key, rr.type) = {}
        /\ rr \in RenamedOf(zone, Key, rr.type)
  BY <1>1, <1>2, <1>4 DEF answers
<1>8. Served(TRUE)
  BY <1>1, <1>2, <1>6, <1>7 DEF Served, answers
<1> QED
  BY <1>1, <1>8, ReturnKeeps

\* Nothing is found.
LEMMA GiveUpKeeps ==
  ASSUME ResolverInv, GiveUp
  PROVE  ResolverInv'
<1>1. /\ phase = "question" /\ Return(FALSE)
      /\ RecordsOf(zone, Key, question.type) = {}
      /\ ~Follows(zone, Key, question.type)
      /\ BestOf(zone, Key, question.type) = {}
      /\ Answer' = Answer /\ Ns' = Ns /\ Extra' = Extra
  BY KeyFacts DEF GiveUp, NoLocalMatch, ResolverInv, response
<1>2. RenamedOf(zone, Key, question.type) = {}
  BY <1>1 DEF RenamedOf
<1>3. Served(FALSE)
  BY <1>1, <1>2 DEF Served
<1> QED
  BY <1>1, <1>3, ReturnKeeps

\* An alias.
LEMMA FollowCNAMEKeeps ==
  ASSUME ResolverInv, FollowCNAME
  PROVE  ResolverInv'
<1>1. /\ phase = "question" /\ phase' = "question"
      /\ Answer' = Answer \cup {aliases[Key]}
      /\ at' = aliases[Key].data
      /\ names' = names \cup {ToLower(at')}
      /\ zone' = zone /\ aliases' = aliases /\ cache' = cache /\ rd' = rd
      /\ todo' = todo /\ question' = question /\ unhandled' = unhandled
      /\ ends' = ends /\ Ns' = Ns /\ Extra' = Extra
  BY DEF FollowCNAME, store
<1>2. /\ Follows(zone, Key, question.type)
      /\ Key \in DomainNames
      /\ aliases[Key] \in zone /\ aliases[Key].type = "CNAME"
      /\ ToLower(aliases[Key].name) = Key
      /\ aliases[Key].data \in DomainNames
  BY KeyFacts, AliasFacts DEF FollowCNAME, ResolverInv
<1>3. Key' = ToLower(aliases[Key].data) /\ Key' \in DomainNames
  BY <1>1, <1>2, LowerName DEF Key
<1>4. /\ Key \in names
      /\ LeadsTo(zone, aliases, question.type, ToLower(question.name), Key)
      /\ \A e \in ends : e[1] = question =>
           LeadsTo(zone, aliases, question.type, Key, e[2])
      /\ \A q \in unhandled : \E e \in ends : e[1] = q
  BY <1>1 DEF ResolverInv, PlaceInv
<1>5. ResolverTypes'
  BY <1>1, <1>2, <1>3 DEF ResolverInv, ResolverTypes, Key
<1>6. PlaceInv'
  <2>1. LeadsTo(zone, aliases, question.type, ToLower(question.name), Key')
    BY <1>2, <1>3, <1>4, LeadsFurther
  <2>2. ASSUME NEW e \in ends, e[1] = question
        PROVE  LeadsTo(zone, aliases, question.type, Key', e[2])
    <3>1. ~Follows(zone, e[2], question.type)
      BY <2>2 DEF ResolverInv, EndsInv, EndInv
    <3> QED
      BY <1>2, <1>3, <1>4, <2>2, <3>1, LeadsOn
  <2>3. Key' \in names'
    BY <1>1 DEF Key
  <2> QED
    BY <1>1, <1>4, <2>1, <2>2, <2>3 DEF PlaceInv
<1>7. OriginInv'
  BY <1>1, <1>2 DEF ResolverInv, OriginInv
<1>8. EndsInv'
  BY <1>1 DEF ResolverInv, EndsInv, EndInv
<1>9. GlueInv'
  BY <1>1 DEF ResolverInv, GlueInv, Referrals
<1>10. AnswersFollowQuestion'
  <2>1. \A rr \in Answer' \ Upstream : ToLower(rr.name) \in names'
    BY <1>1, <1>2, <1>4 DEF ResolverInv, AnswersFollowQuestion
  <2>2. \A n \in names' :
          \/ \E rr \in Answer' : rr.type = "CNAME" /\ ToLower(rr.data) = n
          \/ \E q \in {question'} \cup {e[1] : e \in ends'} :
               ToLower(q.name) = n
    BY <1>1, <1>2 DEF ResolverInv, AnswersFollowQuestion
  <2> QED
    BY <2>1, <2>2 DEF AnswersFollowQuestion
<1> QED
  BY <1>5, <1>6, <1>7, <1>8, <1>9, <1>10 DEF ResolverInv

\* What upstream answers is added; it says nothing about the store.
LEMMA RecurseKeeps ==
  ASSUME ResolverInv, Recurse \/ NoRecursion
  PROVE  ResolverInv'
<1>1. /\ phase = "merge" /\ phase' = "done"
      /\ zone' = zone /\ aliases' = aliases /\ rd' = rd /\ todo' = todo
      /\ question' = question /\ at' = at /\ unhandled' = unhandled
      /\ names' = names /\ ends' = ends
  BY DEF Recurse, NoRecursion, store, query
<1>2. PICK answer \in SUBSET Upstream, ns \in SUBSET Upstream,
           extra \in SUBSET Upstream :
        /\ Answer' = Answer \cup answer
        /\ Ns' = Ns \cup ns
        /\ Extra' = Extra \cup extra
        /\ cache' \subseteq cache \cup answer \cup ns \cup extra
  <2>1. CASE Recurse
    BY <2>1 DEF Recurse
  <2>2. CASE NoRecursion
    <3>1. /\ Answer' = Answer /\ Ns' = Ns /\ Extra' = Extra
          /\ cache' = cache
      BY <2>2 DEF NoRecursion, response
    <3> WITNESS {} \in SUBSET Upstream, {} \in SUBSET Upstream,
                {} \in SUBSET Upstream
    <3> QED
      BY <3>1
  <2> QED
    BY <2>1, <2>2
<1>3. ResolverTypes'
  BY <1>1, <1>2 DEF ResolverInv, ResolverTypes
<1>4. PlaceInv'
  BY <1>1 DEF ResolverInv, PlaceInv
<1>5. OriginInv'
  BY <1>1, <1>2 DEF ResolverInv, OriginInv
<1>6. EndsInv'
  BY <1>1, <1>2 DEF ResolverInv, EndsInv, EndInv
<1>7. GlueInv'
  BY <1>1, <1>2 DEF ResolverInv, GlueInv, Referrals
<1>8. AnswersFollowQuestion'
  BY <1>1, <1>2 DEF ResolverInv, AnswersFollowQuestion
<1> QED
  BY <1>3, <1>4, <1>5, <1>6, <1>7, <1>8 DEF ResolverInv

\* A new query, or the end of one.
LEMMA AskKeeps ==
  ASSUME ResolverInv, NEW questions \in Queries, NEW recurse \in BOOLEAN,
         Ask(questions, recurse)
  PROVE  ResolverInv'
<1>1. /\ questions \in Seq(QuestionType) /\ questions # <<>>
  BY QueryAssumption DEF QuestionType
<1>2. /\ phase = "idle" /\ phase' = "question"
      /\ question' = Head(questions) /\ todo' = Tail(questions)
      /\ rd' = recurse
      /\ at' = question'.name /\ names' = {ToLower(question'.name)}
      /\ zone' = zone /\ aliases' = aliases /\ cache' = cache
      /\ unhandled' = unhandled /\ ends' = ends
      /\ Answer' = Answer /\ Ns' = Ns /\ Extra' = Extra
  BY DEF Ask, store, response
<1>3. /\ question' \in QuestionType /\ todo' \in Seq(QuestionType)
      /\ at' \in DomainNames
  <2>1. question' \in QuestionType /\ todo' \in Seq(QuestionType)
    BY <1>1, <1>2
  <2> QED
    BY <1>2, <2>1 DEF QuestionType
<1>4. /\ Answer = {} /\ Ns = {} /\ Extra = {}
      /\ unhandled = {} /\ ends = {}
  BY <1>2 DEF ResolverInv, PlaceInv, response
<1>5. ResolverTypes'
  <2>1. ToLower(question'.name) \in DomainNames
    BY <1>2, <1>3, LowerName
  <2> QED
    BY <1>2, <1>3, <2>1 DEF ResolverInv, ResolverTypes
<1>6. PlaceInv'
  <2>1. Key' = ToLower(question'.name) /\ Key' \in names'
    BY <1>2 DEF Key
  <2> QED
    BY <1>2, <1>4, <2>1, LeadsNowhere DEF PlaceInv
<1>7. OriginInv' /\ EndsInv' /\ GlueInv'
  BY <1>2, <1>4 DEF OriginInv, EndsInv, GlueInv, Referrals
<1>8. AnswersFollowQuestion'
  BY <1>2, <1>4 DEF AnswersFollowQuestion
<1> QED
  BY <1>5, <1>6, <1>7, <1>8 DEF ResolverInv

\* The response is written: nothing of it is left to speak of.
LEMMA ReplyKeeps ==
  ASSUME ResolverInv, Reply
  PROVE  ResolverInv'
<1>1. ResolverTypes'
  BY DEF Reply, store, ResolverInv, ResolverTypes
<1>2. PlaceInv'
  BY DEF Reply, response, PlaceInv
<1>3. OriginInv' /\ EndsInv' /\ GlueInv' /\ AnswersFollowQuestion'
  BY DEF Reply, OriginInv, EndsInv, GlueInv, Referrals,
         AnswersFollowQuestion
<1> QED
  BY <1>1, <1>2, <1>3 DEF ResolverInv

\* The cache changes under a query, or nothing does.
LEMMA CacheKeeps ==
  ASSUME ResolverInv, cache' \subseteq Upstream,
         UNCHANGED <<store, query, phase, response>>
  PROVE  ResolverInv'
<1>1. /\ zone' = zone /\ aliases' = aliases /\ rd' = rd /\ todo' = todo
      /\ question' = question /\ at' = at /\ unhandled' = unhandled
      /\ names' = names /\ ends' = ends /\ phase' = phase
      /\ Answer' = Answer /\ Ns' = Ns /\ Extra' = Extra
  BY DEF store, query, response
<1>2. ResolverTypes' /\ PlaceInv'
  BY <1>1 DEF ResolverInv, ResolverTypes, PlaceInv, Key, response
<1>3. OriginInv' /\ EndsInv' /\ GlueInv' /\ AnswersFollowQuestion'
  BY <1>1 DEF ResolverInv, OriginInv, EndsInv, EndInv, GlueInv, Referrals,
              AnswersFollowQuestion
<1> QED
  BY <1>2, <1>3 DEF ResolverInv

\* A server that has just been started.
LEMMA InitResolver == Init => ResolverInv
<1> SUFFICES ASSUME Init PROVE ResolverInv
  OBVIOUS
<1>1. ResolverTypes
  <2>1. <<>> \in DomainNames
    BY DEF DomainNames
  <2>2. question \in QuestionType
    BY <2>1, TypeAssumption DEF Init, QuestionType
  <2>3. \A rr \in zone : rr.type = "CNAME" =>
          LET head == aliases[ToLower(rr.name)]
          IN /\ head \in zone /\ head.type = "CNAME"
             /\ ToLower(head.name) = ToLower(rr.name)
    BY DEF Init, ListHeads, CNAMEs
  <2>4. rd \in BOOLEAN /\ todo \in Seq(QuestionType)
    <3>1. rd = FALSE /\ todo = <<>>
      BY DEF Init
    <3>2. <<>> \in Seq(QuestionType)
      OBVIOUS
    <3> QED
      BY <3>1, <3>2
  <2> QED
    BY <2>1, <2>2, <2>3, <2>4 DEF Init, ResolverTypes
<1>2. PlaceInv
  BY DEF Init, PlaceInv, response
<1>3. OriginInv /\ EndsInv /\ GlueInv /\ AnswersFollowQuestion
  BY DEF Init, OriginInv, EndsInv, GlueInv, Referrals, AnswersFollowQuestion
<1> QED
  BY <1>1, <1>2, <1>3 DEF ResolverInv

---------------------------------------------------------------------------
(* The theorems.                                                           *)

\* What the store holds for the names and types of a message's questions, where
\* aliases lead, and what answers, referrals and the questions left over then
\* contain, for every store and every behaviour of the cache and of upstream.
THEOREM ResolverInductive == Spec => []ResolverInv
<1>1. ResolverInv /\ [Next]_vars => ResolverInv'
  <2> SUFFICES ASSUME ResolverInv, [Next]_vars PROVE ResolverInv'
    OBVIOUS
  <2>1. ASSUME NEW questions \in Queries, NEW recurse \in BOOLEAN,
               Ask(questions, recurse)
        PROVE  ResolverInv'
    BY <2>1, AskKeeps
  <2>2. CASE HandleSingleQuestion
    BY <2>2, AnswerPreciseKeeps, FollowCNAMEKeeps, AnswerFromCacheKeeps,
       DelegateKeeps, AnswerWildKeeps, GiveUpKeeps DEF HandleSingleQuestion
  <2>3. CASE Recurse \/ NoRecursion
    BY <2>3, RecurseKeeps
  <2>4. CASE Reply
    BY <2>4, ReplyKeeps
  <2>5. ASSUME NEW rr \in Upstream, Learn(rr) \/ Expire(rr)
        PROVE  ResolverInv'
    <3>1. cache' \subseteq Upstream
      BY <2>5 DEF Learn, Expire, ResolverInv, ResolverTypes
    <3> QED
      BY <2>5, <3>1, CacheKeeps DEF Learn, Expire
  <2>6. CASE UNCHANGED vars
    <3>1. cache' \subseteq Upstream
      BY <2>6 DEF vars, ResolverInv, ResolverTypes
    <3> QED
      BY <2>6, <3>1, CacheKeeps DEF vars
  <2> QED
    BY <2>1, <2>2, <2>3, <2>4, <2>5, <2>6 DEF Next, ProcessDNSQuery
<1> QED
  BY InitResolver, <1>1, PTL DEF Spec

\* Every record answered from here is about a name asked for or led to, whatever
\* the order of the questions and however the aliases run (dns.go:101-138).
THEOREM FollowsQuestion == Spec => []AnswersFollowQuestion
<1>1. ResolverInv => AnswersFollowQuestion
  BY DEF ResolverInv
<1> QED
  BY ResolverInductive, <1>1, PTL

\* The store's own records, the longest wildcard, or something from outside; and
\* no question is counted as handled without an answer (dns.go:107-118, 184-212,
\* 72-87).
THEOREM MostSpecific == Spec => []MostSpecificAnswer
<1>1. ResolverInv => MostSpecificAnswer
  <2> SUFFICES ASSUME ResolverInv, phase = "done", NEW e \in ends
               PROVE
      LET q     == e[1]
          name  == e[2]
          typed == {rr \in zone : rr.type = q.type}
          own   == {rr \in typed : ToLower(rr.name) = name}
          wild  == {rr \in typed : Covers(ToLower(rr.name), name)}
          best  == {rr \in wild : \A s \in wild : Len(s.name) <= Len(rr.name)}
          here  == {rr \in Answer : rr.type = q.type /\ ToLower(rr.name) = name}
      IN /\ IF own # {} THEN /\ own \subseteq here
                            /\ here \subseteq own \cup Upstream
                            /\ q \notin unhandled
            ELSE Answer \cap Upstream = {} /\ Ns = {} =>
                   here = {[rr EXCEPT !.name = name] : rr \in best}
         /\ q \notin unhandled => here # {}
    BY DEF MostSpecificAnswer
  <2> DEFINE q     == e[1]
             name  == e[2]
             typed == {rr \in zone : rr.type = q.type}
             own   == {rr \in typed : ToLower(rr.name) = name}
             wild  == {rr \in typed : Covers(ToLower(rr.name), name)}
             best  == {rr \in wild :
                         \A s \in wild : Len(s.name) <= Len(rr.name)}
             here  == {rr \in Answer : /\ rr.type = q.type
                                       /\ ToLower(rr.name) = name}
  <2>1. /\ EndInv(q, name) /\ OriginInv /\ zone \in Zones
        /\ q \in QuestionType /\ name \in DomainNames
    BY DEF ResolverInv, ResolverTypes, EndsInv
  <2>2. own = RecordsOf(zone, name, q.type)
    BY DEF RecordsOf
  <2>3. {[rr EXCEPT !.name = name] : rr \in best}
          = RenamedOf(zone, name, q.type)
    <3>1. best = BestOf(zone, name, q.type)
      BY DEF BestOf, WildOf
    <3> QED
      BY <3>1 DEF RenamedOf, Renamed
  <2>4. ASSUME NEW rr \in here
        PROVE  \/ rr \in Upstream \/ rr \in own
               \/ own = {} /\ rr \in RenamedOf(zone, name, q.type)
    <3>1. CASE rr \in zone
      BY <2>4, <3>1
    <3>2. CASE /\ ToLower(rr.name) = rr.name
               /\ RecordsOf(zone, rr.name, rr.type) = {}
               /\ rr \in RenamedOf(zone, rr.name, rr.type)
      BY <2>2, <2>4, <3>2
    <3> QED
      BY <2>1, <2>4, <3>1, <3>2 DEF OriginInv
  <2>5. \A rr \in RenamedOf(zone, name, q.type) :
          rr.type = q.type /\ ToLower(rr.name) = name
    <3>1. ASSUME NEW s \in BestOf(zone, name, q.type)
          PROVE  /\ Renamed(s, name).type = q.type
                 /\ Renamed(s, name).name = name
      <4>1. s \in zone /\ s.type = q.type
        BY <3>1 DEF BestOf, WildOf
      <4> QED
        BY <2>1, <4>1, Renaming
    <3>2. ToLower(name) = name
      BY <2>1 DEF EndInv
    <3> QED
      BY <3>1, <3>2 DEF RenamedOf
  <2>6. own # {} => /\ own \subseteq here
                    /\ here \subseteq own \cup Upstream
                    /\ q \notin unhandled
    <3>1. own # {} => own \subseteq Answer /\ q \notin unhandled
      BY <2>1, <2>2 DEF EndInv
    <3> QED
      BY <2>4, <3>1
  <2>7. own = {} /\ Answer \cap Upstream = {} /\ Ns = {}
          => here = RenamedOf(zone, name, q.type)
    <3>1. own = {} /\ Answer \cap Upstream = {} /\ Ns = {}
            => RenamedOf(zone, name, q.type) \subseteq Answer
      BY <2>1, <2>2 DEF EndInv
    <3> QED
      BY <2>4, <2>5, <3>1
  <2>8. q \notin unhandled => here # {}
    BY <2>1 DEF EndInv
  <2> QED
    BY <2>3, <2>6, <2>7, <2>8
<1> QED
  BY ResolverInductive, <1>1, PTL

\* A referral is to the store's name servers and carries the addresses it knows
\* for them, whatever else the message asked (dns.go:157-171,
\* dns_store.go:154-198).
THEOREM GlueIsAppended == Spec => []GlueAppended
<1>1. ResolverInv => GlueAppended
  <2> SUFFICES ASSUME ResolverInv, NEW rr \in Referrals
               PROVE
      LET server    == rr.data
          addresses == {s \in zone : s.type = "A"}
          own       == {s \in addresses : ToLower(s.name) = server}
          wild      == {s \in addresses : Covers(ToLower(s.name), server)}
      IN /\ rr \in zone /\ rr.type = "NS"
         /\ server = ToLower(server) =>
              IF own # {} THEN own \subseteq Extra
              ELSE {s \in wild : \A w \in wild : Len(w.name) <= Len(s.name)}
                     \subseteq Extra
    BY DEF GlueAppended
  <2> DEFINE server    == rr.data
             addresses == {s \in zone : s.type = "A"}
             own       == {s \in addresses : ToLower(s.name) = server}
             wild      == {s \in addresses : Covers(ToLower(s.name), server)}
             best      == {s \in wild :
                             \A w \in wild : Len(w.name) <= Len(s.name)}
  <2>1. /\ rr \in zone /\ rr.type = "NS"
        /\ GlueOf(zone, server) \subseteq Extra
    BY DEF ResolverInv, GlueInv
  <2>2. own = RecordsOf(zone, server, "A")
    BY DEF RecordsOf
  <2>3. best = BestOf(zone, server, "A")
    BY DEF BestOf, WildOf
  <2> QED
    BY <2>1, <2>2, <2>3 DEF GlueOf
<1> QED
  BY ResolverInductive, <1>1, PTL
=============================================================================
