------------------------------- MODULE Resolver -------------------------------
(***************************************************************************)
(* How a dns_server answers a query (dns/dns.go ProcessDNSQuery,           *)
(* HandleSingleQuestion, HandleRecursiveQuery; dns/dns_store.go            *)
(* getGlueRecords, getCacheRecords; dns/paged_dns.go is the same over      *)
(* pages).  One step is one call of HandleSingleQuestion: it answers the   *)
(* question, delegates it, gives it up, or calls itself with the target of *)
(* a CNAME.  The questions of a query are handled one after the other into *)
(* one response; those that could not be are then asked upstream together. *)
(*                                                                         *)
(* A name is the sequence of its labels, leftmost first; the label "A"     *)
(* stands for "a" in capitals.  The store is keyed by lower-cased names; a *)
(* record keeps the spelling it was added with.  The sections of a         *)
(* response are sets of records.  The store is read-locked while the       *)
(* questions of a query are handled; the cache may change between any two  *)
(* steps.                                                                  *)
(*                                                                         *)
(* External: the server behind 8.8.8.8, which may answer with any of       *)
(* Upstream or not at all.                                                 *)
(***************************************************************************)
EXTENDS Integers, Sequences, FiniteSets, Functions

CONSTANTS
  Labels,     \* what names are made of
  Types,      \* the types of records that are asked for
  Zones,      \* the stores considered: sets of records
  Queries,    \* the queries: sequences of questions [name, type]
  Upstream    \* the records the outside world may answer with

DomainNames == Seq(Labels)

\* The labels the code makes names with.
ASSUME LabelAssumption == {"a", "A", "*"} \subseteq Labels

\* The types the code treats in a way of their own.
ASSUME TypeAssumption == {"A", "CNAME", "NS"} \subseteq Types

\* What dns.NewRR parses: a name server and the target of an alias are names.
ASSUME RecordAssumption ==
  \A Z \in Zones : \A rr \in Z :
    /\ rr = [name |-> rr.name, type |-> rr.type, data |-> rr.data]
    /\ rr.name \in DomainNames
    /\ rr.type \in {"CNAME", "NS"} => rr.data \in DomainNames

\* A query asks something.
ASSUME QueryAssumption ==
  \A questions \in Queries :
    /\ questions \in Seq([name : DomainNames, type : Types])
    /\ questions # <<>>

VARIABLES
  zone,       \* s.store
  aliases,    \* s.store: the CNAME at the head of each name's list of them
  cache,      \* s.cache: the records that have not expired
  rd,         \* RecursionDesired
  todo,       \* the questions still to be handled
  question,   \* the question being handled
  at,         \* the name HandleSingleQuestion is called with
  unhandled,  \* unhandledQuestions
  phase,      \* "idle", "question", "merge", "done"
  Answer, Ns, Extra,  \* the response
  names,      \* history: the names HandleSingleQuestion was called with
  ends        \* history: <<question, name it ended with>>

store == <<zone, aliases>>
response == <<Answer, Ns, Extra>>
query == <<rd, todo, question, at, unhandled, names, ends>>
vars == <<store, cache, query, phase, response>>

\* strings.ToLower.
ToLower(name) == [i \in DOMAIN name |-> IF name[i] = "A" THEN "a" ELSE name[i]]

\* typeMap[t] of store.store[key]; the keys of the map are lower case.
Records(key, t) == {rr \in zone : ToLower(rr.name) = key /\ rr.type = t}

\* getCacheRecords.
GetCacheRecords(key, t) ==
  {rr \in cache : ToLower(rr.name) = key /\ rr.type = t}

\* "*." + rest after popLeftmostLabel has been applied k times.
Star(name, k) == <<"*">> \o SubSeq(name, k + 1, Len(name))

\* The loop over wildcards: the first that has records of the type.
StarMatch(name, t) ==
  LET hits == {k \in 1 .. Len(name) : Records(Star(name, k), t) # {}}
  IN IF hits = {} THEN {}
     ELSE Records(Star(name, CHOOSE k \in hits : \A j \in hits : k <= j), t)

\* Mutant: a wildcard is preferred to the name server's own address.
GetGlueRecordsStarFirst(nsName) ==
  IF StarMatch(nsName, "A") # {} THEN StarMatch(nsName, "A")
  ELSE Records(nsName, "A")

\* getGlueRecords: the name is looked up as it is spelled in the NS record.
GetGlueRecords(nsName) ==
  IF Records(nsName, "A") # {} THEN Records(nsName, "A")
  ELSE StarMatch(nsName, "A")

---------------------------------------------------------------------------
\* A query arrives: ProcessDNSQuery.
Ask(questions, recurse) ==
  /\ phase = "idle"
  /\ question' = Head(questions) /\ todo' = Tail(questions)
  /\ rd' = recurse
  /\ at' = question'.name /\ names' = {ToLower(question'.name)}
  /\ phase' = "question"
  /\ UNCHANGED <<store, cache, unhandled, ends, response>>

Key == ToLower(at)

Precise == Records(Key, question.type)

Canonical == IF question.type = "CNAME" THEN {} ELSE Records(Key, "CNAME")

Cached == GetCacheRecords(Key, question.type)

Delegations == Records(Key, "NS")

Wild == StarMatch(Key, question.type)

\* Mutant: of the questions not handled only the last is kept.
ReturnLast(handled) ==
  /\ unhandled' = IF handled THEN unhandled ELSE {question}
  /\ ends' = ends \cup {<<question, Key>>}
  /\ IF todo = <<>>
     THEN phase' = "merge" /\ UNCHANGED <<todo, question, at, names>>
     ELSE /\ question' = Head(todo) /\ todo' = Tail(todo)
          /\ at' = question'.name
          /\ names' = names \cup {ToLower(question'.name)}
          /\ UNCHANGED phase
  /\ UNCHANGED <<store, cache, rd>>

\* HandleSingleQuestion returns; the loop goes on with the next question.
Return(handled) ==
  /\ unhandled' = IF handled THEN unhandled ELSE unhandled \cup {question}
  /\ ends' = ends \cup {<<question, Key>>}
  /\ IF todo = <<>>
     THEN phase' = "merge" /\ UNCHANGED <<todo, question, at, names>>
     ELSE /\ question' = Head(todo) /\ todo' = Tail(todo)
          /\ at' = question'.name
          /\ names' = names \cup {ToLower(question'.name)}
          /\ UNCHANGED phase
  /\ UNCHANGED <<store, cache, rd>>

\* A precise match.
AnswerPrecise ==
  /\ phase = "question"
  /\ Precise # {}
  /\ Answer' = Answer \cup Precise
  /\ UNCHANGED <<Ns, Extra>>
  /\ Return(TRUE)

\* Mutant: the question is asked again for the alias itself.
FollowSameName ==
  /\ phase = "question"
  /\ Precise = {} /\ Canonical # {}
  /\ Answer' = Answer \cup {aliases[Key]}
  /\ UNCHANGED <<store, cache, query, phase, Ns, Extra>>

\* A CNAME: the first of the list, and the same question for its target.
FollowCNAME ==
  /\ phase = "question"
  /\ Precise = {} /\ Canonical # {}
  /\ Answer' = Answer \cup {aliases[Key]}
  /\ at' = aliases[Key].data
  /\ names' = names \cup {ToLower(at')}
  /\ UNCHANGED <<store, cache, rd, todo, question, unhandled, ends, phase, Ns,
                 Extra>>

NoLocalMatch == phase = "question" /\ Precise = {} /\ Canonical = {}

AnswerFromCache ==
  /\ NoLocalMatch
  /\ Cached # {}
  /\ Answer' = Answer \cup Cached
  /\ UNCHANGED <<Ns, Extra>>
  /\ Return(TRUE)

\* The border of the zone.
Delegate ==
  /\ NoLocalMatch /\ Cached = {}
  /\ Delegations # {}
  /\ Ns' = Ns \cup Delegations
  /\ Extra' = Extra \cup UNION {GetGlueRecords(rr.data) : rr \in Delegations}
  /\ UNCHANGED Answer
  /\ Return(FALSE)

\* Mutant: the owner keeps its star.
AnswerWildUnnamed ==
  /\ NoLocalMatch /\ Cached = {} /\ Delegations = {}
  /\ Wild # {}
  /\ Answer' = Answer \cup Wild
  /\ UNCHANGED <<Ns, Extra>>
  /\ Return(TRUE)

\* A wildcard match is given the name asked for.
AnswerWild ==
  /\ NoLocalMatch /\ Cached = {} /\ Delegations = {}
  /\ Wild # {}
  /\ Answer' = Answer \cup {[rr EXCEPT !.name = Key] : rr \in Wild}
  /\ UNCHANGED <<Ns, Extra>>
  /\ Return(TRUE)

GiveUp ==
  /\ NoLocalMatch /\ Cached = {} /\ Delegations = {} /\ Wild = {}
  /\ UNCHANGED response
  /\ Return(FALSE)

\* The unhandled questions as they were asked go upstream if recursion is
\* desired: the three sections of the answer are merged and cached, but for
\* records of the root; a failure changes nothing.
Recurse ==
  /\ phase = "merge"
  /\ rd /\ unhandled # {}
  /\ \E answer, ns, extra \in SUBSET Upstream :
       /\ Answer' = Answer \cup answer
       /\ Ns' = Ns \cup ns
       /\ Extra' = Extra \cup extra
       /\ cache' = cache \cup
            {rr \in answer \cup ns \cup extra : rr.name # <<>>}
  /\ phase' = "done"
  /\ UNCHANGED <<store, query>>

NoRecursion ==
  /\ phase = "merge"
  /\ ~rd \/ unhandled = {}
  /\ phase' = "done"
  /\ UNCHANGED <<store, cache, query, response>>

\* The response is written; the handler is ready for the next query.
Reply ==
  /\ phase = "done"
  /\ phase' = "idle"
  /\ Answer' = {} /\ Ns' = {} /\ Extra' = {}
  /\ unhandled' = {} /\ names' = {} /\ ends' = {}
  /\ UNCHANGED <<store, cache, rd, todo, question, at>>

\* Another handler, or /addcache, caches a record.
Learn(rr) ==
  /\ rr \notin cache
  /\ cache' = cache \cup {rr}
  /\ UNCHANGED <<store, query, phase, response>>

\* A cached record's time is over.
Expire(rr) ==
  /\ rr \in cache
  /\ cache' = cache \ {rr}
  /\ UNCHANGED <<store, query, phase, response>>

\* The records whose owners have an alias, and their lists' heads.
CNAMEs == {rr \in zone : rr.type = "CNAME"}

ListHeads == {head \in [{ToLower(rr.name) : rr \in CNAMEs} -> CNAMEs] :
                \A n \in DOMAIN head : ToLower(head[n].name) = n}

Init ==
  /\ zone \in Zones
  /\ aliases \in ListHeads
  /\ cache = {}
  /\ rd = FALSE /\ todo = <<>> /\ question = [name |-> <<>>, type |-> "A"]
  /\ at = <<>> /\ unhandled = {} /\ names = {} /\ ends = {}
  /\ phase = "idle"
  /\ Answer = {} /\ Ns = {} /\ Extra = {}

HandleSingleQuestion ==
  \/ AnswerPrecise \/ FollowCNAME \/ AnswerFromCache \/ Delegate \/ AnswerWild
  \/ GiveUp

ProcessDNSQuery == HandleSingleQuestion \/ Recurse \/ NoRecursion

Next ==
  \/ \E questions \in Queries, recurse \in BOOLEAN : Ask(questions, recurse)
  \/ ProcessDNSQuery
  \/ Reply
  \/ \E rr \in Upstream : Learn(rr) \/ Expire(rr)

Spec == Init /\ [][Next]_vars

\* The goroutine that handles a query runs.
LiveSpec == Spec /\ WF_vars(ProcessDNSQuery)

---------------------------------------------------------------------------
\* Every record answered from here is about a name asked for or about a name
\* that CNAMEs in the answer lead to; the owner of a wildcard match has been
\* rewritten (dns.go:121-137 and 203).
AnswersFollowQuestion ==
  /\ \A rr \in Answer \ Upstream : ToLower(rr.name) \in names
  /\ \A n \in names :
       \/ \E rr \in Answer : rr.type = "CNAME" /\ ToLower(rr.data) = n
       \/ \E q \in {question} \cup {e[1] : e \in ends} : ToLower(q.name) = n

\* A wildcard is a suffix of the name, one or more labels shorter, under "*".
Covers(star, name) ==
  /\ star # <<>> /\ Head(star) = "*"
  /\ Len(star) <= Len(name)
  /\ Tail(star) = SubSeq(name, Len(name) - Len(star) + 2, Len(name))

\* RFC 1034 4.3.2 as the code reads it (dns.go:107-118 and 184-212), stated over
\* the whole store instead of as a search, for each question of the query.  The
\* last name it leads to is answered by all its own records of the type and no
\* others of the store, whatever the cache holds and whatever the other
\* questions bring in, and the question is not sent upstream; if it has none,
\* and neither cache, referral nor upstream came in, by all records of the
\* longest wildcard that covers it.  A question that is not sent upstream has an
\* answer (dns.go:72-87).
MostSpecificAnswer ==
  phase = "done" =>
    \A e \in ends :
      LET q == e[1]
          name  == e[2]
          typed == {rr \in zone : rr.type = q.type}
          own   == {rr \in typed : ToLower(rr.name) = name}
          wild  == {rr \in typed : Covers(ToLower(rr.name), name)}
          best  == {rr \in wild : \A s \in wild : Len(s.name) <= Len(rr.name)}
          here  == {rr \in Answer : rr.type = q.type /\ ToLower(rr.name) = name}
      IN /\ IF own # {} THEN /\ own \subseteq here
                            /\ here \subseteq own \cup Upstream
                            /\ q \notin unhandled
            ELSE Answer \cap Upstream = {} /\ Ns = {} =>
                   here = {[rr EXCEPT !.name = name] : rr \in best}
         /\ q \notin unhandled => here # {}

\* The aliases of the store lead on for ever from some name.
Looping ==
  \E S \in SUBSET DOMAIN aliases :
    S # {} /\ \A n \in S : ToLower(aliases[n].data) \in S

\* A query is answered unless CNAMEs run in a circle (dns.go:133).
AnsweredUnlessLoop == phase = "question" /\ ~Looping ~> phase = "done"

\* The referrals this server has made itself, as far as they can be told from
\* what upstream has sent.
Referrals == IF phase = "done" THEN Ns \ Upstream ELSE Ns

\* A referral is to the name servers of the store, and one to a name server that
\* this server knows comes with all its addresses: those under its own name, or
\* else the nearest wildcard's, as a query for it would be answered
\* (dns.go:157-171, dns_store.go:154-185).  Only a name server spelled in
\* capitals is looked up in vain: the keys are lower case and its name is not
\* lower-cased (dns_store.go:159).
GlueAppended ==
  \A rr \in Referrals :
    LET server    == rr.data
        addresses == {s \in zone : s.type = "A"}
        own       == {s \in addresses : ToLower(s.name) = server}
        wild      == {s \in addresses : Covers(ToLower(s.name), server)}
    IN /\ rr \in zone /\ rr.type = "NS"
       /\ server = ToLower(server) =>
            IF own # {} THEN own \subseteq Extra
            ELSE {s \in wild : \A w \in wild : Len(w.name) <= Len(s.name)}
                   \subseteq Extra
=============================================================================
