------------------------------- MODULE HashQuery -------------------------------
(***************************************************************************)
(* How the hash server answers DNS queries (dns/hash_server/               *)
(* hash_server.go, serveHashServerUDPAPI and what it calls): its cache,    *)
(* then one goroutine per cluster that the questions hash to, each trying  *)
(* the cluster's members in order of preference, then, if an answer is     *)
(* missing, one goroutine per cluster for all the questions.  Queries run  *)
(* concurrently and share the cache and what is known of the members.      *)
(*                                                                         *)
(* A question is a name (one record type).  Holds[c] are the questions the *)
(* members of cluster c answer: a name may be answered by a wildcard       *)
(* record, which lives where its own name hashes to.  Spelled are the      *)
(* questions spelled as the records are; the answer to another spelling    *)
(* has a different owner name.  Of a message only the answer section is    *)
(* kept.                                                                   *)
(*                                                                         *)
(* PUT /addcluster replaces the records of the members and store.lookup,   *)
(* and fills the new ring member by member, without a lock, while queries  *)
(* go on.  The list here names the same clusters as the one before it;     *)
(* Migration models a list with another one.                               *)
(*                                                                         *)
(* Two fields stand for time: `dead' lists the members whose aliveSince is *)
(* in the future, earliest first, and Revive lets the earliest pass.       *)
(***************************************************************************)
EXTENDS Integers, Sequences, FiniteSets, Functions

CONSTANTS
  Queries,      \* concurrent query handlers
  Clusters, Members,  \* cluster -> its members (store.clusters)
  Names,        \* questions
  AskSets,      \* query handler -> the sets of questions it may be asked
  Table,        \* question -> cluster (store.lookup.LocateKey), external
  Holds, Spelled,
  MaxFailures   \* bound: members going down and datagrams lost

Servers == UNION {Members[c] : c \in Clusters}

ASSUME MemberAssumption ==
  /\ \A c \in Clusters : Members[c] # {} /\ IsFiniteSet(Members[c])
  /\ \A c, d \in Clusters : c # d => Members[c] \cap Members[d] = {}
  /\ Table \in [Names -> Clusters]
  /\ Spelled \subseteq Names

VARIABLES
  running,   \* the process has not panicked
  up,        \* members that are reachable
  dead,      \* members with aliveSince in the future, in that order
  cache,     \* names with valid records in store.cache
  missing,   \* the clusters still to be added to store.lookup
  phase,     \* query -> "idle", "direct", "broadcast", "replied"
  ask,       \* query -> its questions
  placed,    \* query -> question -> the cluster it is sent to
  source,    \* query -> where its reply came from
  busy,      \* query -> clusters whose goroutine is running
  left,      \* query -> cluster -> members that goroutine has still to try
  outdated,  \* the queries whose lists hold replaced records of members
  hasAll,    \* query -> hasAllAnswers
  answer,    \* query -> the names answered in its message
  steady,    \* history: query -> members that never failed since it began
  failures   \* counter for the bound

ringVars == <<missing, placed, outdated>>
queryVars == <<phase, ask, source, busy, left, hasAll, answer>>
vars == <<running, up, dead, cache, ringVars, queryVars, steady, failures>>

\* rand.Shuffle: any order.
Shuffles(S) == Bijection(1..Cardinality(S), S)

\* The half second of s is over before that of t.
Earlier(s, t) ==
  \E i, j \in DOMAIN dead : i < j /\ dead[i] = s /\ dead[j] = t

\* The dead are sorted by the time they come back.
InOrder(S) ==
  {o \in Shuffles(S) : \A i, j \in DOMAIN o : i < j => Earlier(o[i], o[j])}

\* The members of a cluster that are not alive.
Late(c) == Members[c] \cap Range(dead)

\* getPreferredServerIPsInOrder: the living in any order, then the dead.
Preferred(c) == {alive \o waiting : alive \in Shuffles(Members[c] \ Late(c)),
                                    waiting \in InOrder(Late(c))}

\* Orders for the goroutines of several clusters at once.
Choices(S) ==
  {f \in [Clusters -> {<<>>} \cup UNION {Preferred(c) : c \in S}] :
     \A c \in Clusters : f[c] \in IF c \in S THEN Preferred(c) ELSE {<<>>}}

\* store.lookup.LocateKey: while the ring is being filled, any of its members.
Located(q) == IF missing = {} THEN {Table[q]} ELSE Clusters \ missing

QuestionsFor(h, c) == {q \in ask[h] : placed[h][q] = c}

---------------------------------------------------------------------------
\* A query that the cache cannot answer whole: locate, batch, one goroutine per
\* batch.
AskClusters(h, qs) ==
  /\ running /\ phase[h] = "idle"
  /\ ~(qs \subseteq cache)
  /\ \E at \in [qs -> Clusters] :
       /\ \A q \in qs : at[q] \in Located(q)
       /\ placed' = [placed EXCEPT ![h] = at]
       /\ busy' = [busy EXCEPT ![h] = Range(at)]
       /\ \E f \in Choices(Range(at)) : left' = [left EXCEPT ![h] = f]
  /\ ask' = [ask EXCEPT ![h] = qs]
  /\ phase' = [phase EXCEPT ![h] = "direct"]
  /\ outdated' = outdated \ {h}
  /\ hasAll' = [hasAll EXCEPT ![h] = TRUE]
  /\ answer' = [answer EXCEPT ![h] = {}]
  /\ steady' = [steady EXCEPT ![h] = up]
  /\ UNCHANGED <<running, up, dead, cache, missing, source, failures>>

\* LocateKey of an empty ring is nil, and the handler's panic ends the process.
AskEmptyRing(h, qs) ==
  /\ running /\ phase[h] = "idle"
  /\ ~(qs \subseteq cache)
  /\ missing = Clusters
  /\ running' = FALSE
  /\ UNCHANGED <<up, dead, cache, ringVars, queryVars, steady, failures>>

\* queryCache: every question is answered from the cache.
AskCache(h, qs) ==
  /\ running /\ phase[h] = "idle"
  /\ qs \subseteq cache
  /\ ask' = [ask EXCEPT ![h] = qs]
  /\ answer' = [answer EXCEPT ![h] = qs]
  /\ source' = [source EXCEPT ![h] = "cache"]
  /\ phase' = [phase EXCEPT ![h] = "replied"]
  /\ UNCHANGED <<ringVars, running, up, dead, cache, busy, left, hasAll,
                 steady, failures>>

---------------------------------------------------------------------------
(* sendDNSMsgUntilSuccess, in the goroutine of query h for cluster c.      *)

Trying(h, c) == running /\ c \in busy[h] /\ left[h][c] # <<>>

\* The member does not answer in time: it is marked not alive, the next one is
\* tried.  The datagram to a reachable member may be lost.
TryFails(h, c) ==
  /\ Trying(h, c)
  /\ LET s == Head(left[h][c]) IN
     /\ s \in up => failures < MaxFailures
     /\ failures' = IF s \in up THEN failures + 1 ELSE failures
     /\ dead' = IF h \in outdated THEN dead
                ELSE Append(SelectSeq(dead, LAMBDA d : d # s), s)
     /\ left' = [left EXCEPT ![h][c] = Tail(@)]
     /\ steady' = [steady EXCEPT ![h] = @ \ {s}]
  /\ UNCHANGED <<ringVars, running, up, cache, phase, ask, source, busy,
                 hasAll, answer>>

\* The member answers: no further one is tried.
Reached(h, c) ==
  /\ Trying(h, c)
  /\ Head(left[h][c]) \in up
  /\ busy' = [busy EXCEPT ![h] = @ \ {c}]
  /\ left' = [left EXCEPT ![h][c] = <<>>]

Depleted(h, c) == running /\ c \in busy[h] /\ left[h][c] = <<>>

---------------------------------------------------------------------------
(* tryDirectQuery.                                                         *)

\* Mutant: an incomplete answer is merged like a complete one.
DirectMergesAll(h, c) ==
  /\ phase[h] = "direct"
  /\ Reached(h, c)
  /\ answer' = [answer EXCEPT ![h] = @ \cup (QuestionsFor(h, c) \cap Holds[c])]
  /\ UNCHANGED <<ringVars, running, up, dead, cache, phase, ask, source,
                 hasAll, steady, failures>>

\* Mutant: the answer is held against all questions, not those of the batch.
DirectComparesAll(h, c) ==
  /\ phase[h] = "direct"
  /\ Reached(h, c)
  /\ IF ask[h] \subseteq Holds[c] \cap Spelled
     THEN /\ answer' = [answer EXCEPT ![h] = @ \cup QuestionsFor(h, c)]
          /\ UNCHANGED hasAll
     ELSE /\ hasAll' = [hasAll EXCEPT ![h] = FALSE]
          /\ UNCHANGED answer
  /\ UNCHANGED <<ringVars, running, up, dead, cache, phase, ask, source,
                 steady, failures>>

\* A cluster has answered: its answer is merged if it covers the whole batch.
DirectAnswer(h, c) ==
  /\ phase[h] = "direct"
  /\ Reached(h, c)
  /\ IF QuestionsFor(h, c) \subseteq Holds[c] \cap Spelled
     THEN /\ answer' = [answer EXCEPT ![h] = @ \cup QuestionsFor(h, c)]
          /\ UNCHANGED hasAll
     ELSE /\ hasAll' = [hasAll EXCEPT ![h] = FALSE]
          /\ UNCHANGED answer
  /\ UNCHANGED <<ringVars, running, up, dead, cache, phase, ask, source,
                 steady, failures>>

\* No member could be reached.
DirectError(h, c) ==
  /\ phase[h] = "direct"
  /\ Depleted(h, c)
  /\ busy' = [busy EXCEPT ![h] = @ \ {c}]
  /\ hasAll' = [hasAll EXCEPT ![h] = FALSE]
  /\ UNCHANGED <<ringVars, running, up, dead, cache, phase, ask, source, left,
                 answer, steady, failures>>

\* wg.Wait returns and all answers are there: reply, and cache them.
DirectReply(h) ==
  /\ running /\ phase[h] = "direct" /\ busy[h] = {}
  /\ hasAll[h]
  /\ phase' = [phase EXCEPT ![h] = "replied"]
  /\ source' = [source EXCEPT ![h] = "direct"]
  /\ cache' = cache \cup answer[h]
  /\ UNCHANGED <<ringVars, running, up, dead, ask, busy, left, hasAll, answer,
                 steady, failures>>

---------------------------------------------------------------------------
(* tryBroadcastAndMerge.                                                   *)

\* Mutant: the lists the direct query has used up are not made anew.
BroadcastReusesLists(h) ==
  /\ running /\ phase[h] = "direct" /\ busy[h] = {}
  /\ ~hasAll[h]
  /\ phase' = [phase EXCEPT ![h] = "broadcast"]
  /\ busy' = [busy EXCEPT ![h] = Clusters]
  /\ answer' = [answer EXCEPT ![h] = {}]
  /\ UNCHANGED <<ringVars, running, up, dead, cache, ask, source, left, hasAll,
                 steady, failures>>

\* Not all answers are there: a new message, and a goroutine per cluster.
Broadcast(h) ==
  /\ running /\ phase[h] = "direct" /\ busy[h] = {}
  /\ ~hasAll[h]
  /\ phase' = [phase EXCEPT ![h] = "broadcast"]
  /\ busy' = [busy EXCEPT ![h] = Clusters]
  /\ \E f \in Choices(Clusters) : left' = [left EXCEPT ![h] = f]
  /\ outdated' = outdated \ {h}
  /\ answer' = [answer EXCEPT ![h] = {}]
  /\ UNCHANGED <<running, up, dead, cache, missing, placed, ask, source,
                 hasAll, steady, failures>>

\* A cluster has answered: err is nil, and nothing is merged.
BroadcastAnswer(h, c) ==
  /\ phase[h] = "broadcast"
  /\ Reached(h, c)
  /\ UNCHANGED <<ringVars, running, up, dead, cache, phase, ask, source,
                 hasAll, answer, steady, failures>>

\* No member could be reached: the message to merge is nil, and the panic of a
\* goroutine ends the process.
BroadcastError(h, c) ==
  /\ phase[h] = "broadcast"
  /\ Depleted(h, c)
  /\ running' = FALSE
  /\ UNCHANGED <<ringVars, up, dead, cache, queryVars, steady, failures>>

\* wg.Wait returns: reply what has been merged, and cache it.
BroadcastReply(h) ==
  /\ running /\ phase[h] = "broadcast" /\ busy[h] = {}
  /\ phase' = [phase EXCEPT ![h] = "replied"]
  /\ source' = [source EXCEPT ![h] = "broadcast"]
  /\ cache' = cache \cup answer[h]
  /\ UNCHANGED <<ringVars, running, up, dead, ask, busy, left, hasAll, answer,
                 steady, failures>>

---------------------------------------------------------------------------
(* The rest of the world, while the process lives.                         *)

\* The handler is free for another query.
Return(h) ==
  /\ running /\ phase[h] = "replied"
  /\ phase' = [phase EXCEPT ![h] = "idle"]
  /\ ask' = [ask EXCEPT ![h] = {}]
  /\ placed' = [placed EXCEPT ![h] = <<>>]
  /\ outdated' = outdated \ {h}
  /\ source' = [source EXCEPT ![h] = "none"]
  /\ hasAll' = [hasAll EXCEPT ![h] = TRUE]
  /\ answer' = [answer EXCEPT ![h] = {}]
  /\ steady' = [steady EXCEPT ![h] = {}]
  /\ UNCHANGED <<running, up, dead, cache, missing, busy, left, failures>>

\* A member goes down, or comes back.
MemberDown(s) ==
  /\ running /\ s \in up
  /\ failures < MaxFailures
  /\ failures' = failures + 1
  /\ up' = up \ {s}
  /\ steady' = [h \in Queries |-> steady[h] \ {s}]
  /\ UNCHANGED <<ringVars, running, dead, cache, queryVars>>

MemberUp(s) ==
  /\ running /\ s \in Servers \ up
  /\ up' = up \cup {s}
  /\ UNCHANGED <<ringVars, running, dead, cache, queryVars, steady, failures>>

\* The half second of the earliest dead member is over.
Revive ==
  /\ running /\ dead # <<>>
  /\ dead' = Tail(dead)
  /\ UNCHANGED <<ringVars, running, up, cache, queryVars, steady, failures>>

\* Cached records expire or are evicted.
Forget(n) ==
  /\ running /\ n \in cache
  /\ cache' = cache \ {n}
  /\ UNCHANGED <<ringVars, running, up, dead, queryVars, steady, failures>>

\* PUT /addcluster: the members' records and the ring are made anew (one
\* request at a time).
NewRing ==
  /\ running /\ missing = {}
  /\ dead' = <<>>
  /\ outdated' = {h \in Queries : busy[h] # {}}
  /\ missing' = Clusters
  /\ UNCHANGED <<running, up, cache, placed, queryVars, steady, failures>>

AddToRing(c) ==
  /\ running /\ c \in missing
  /\ missing' = missing \ {c}
  /\ UNCHANGED <<running, up, dead, cache, placed, outdated, queryVars, steady,
                 failures>>

Init ==
  /\ running = TRUE
  /\ up = Servers /\ dead = <<>>
  /\ cache = {} /\ missing = {}
  /\ phase = [h \in Queries |-> "idle"]
  /\ ask = [h \in Queries |-> {}]
  /\ placed = [h \in Queries |-> <<>>]
  /\ outdated = {}
  /\ source = [h \in Queries |-> "none"]
  /\ busy = [h \in Queries |-> {}]
  /\ left = [h \in Queries |-> [c \in Clusters |-> <<>>]]
  /\ hasAll = [h \in Queries |-> TRUE]
  /\ answer = [h \in Queries |-> {}]
  /\ steady = [h \in Queries |-> {}]
  /\ failures = 0

Handle(h) ==
  \/ \E c \in Clusters : \/ TryFails(h, c)
                         \/ DirectAnswer(h, c) \/ DirectError(h, c)
                         \/ BroadcastAnswer(h, c) \/ BroadcastError(h, c)
  \/ DirectReply(h) \/ Broadcast(h) \/ BroadcastReply(h)

Next ==
  \/ \E h \in Queries : \/ \E qs \in AskSets[h] : \/ AskClusters(h, qs)
                                                 \/ AskEmptyRing(h, qs)
                                                 \/ AskCache(h, qs)
                        \/ Handle(h)
                        \/ Return(h)
  \/ \E s \in Servers : MemberDown(s) \/ MemberUp(s)
  \/ Revive
  \/ \E n \in Names : Forget(n)
  \/ NewRing \/ \E c \in Clusters : AddToRing(c)

Spec == Init /\ [][Next]_vars

---------------------------------------------------------------------------
\* A reply from the cache or from the direct query answers every question, in
\* whatever order and with whatever result the goroutines end, and however the
\* questions are spread over clusters (hash_server.go:375-448 and 549-569).
RepliesComplete ==
  \A h \in Queries :
    phase[h] = "replied" /\ source[h] \in {"cache", "direct"} =>
      ask[h] \subseteq answer[h]

\* Failover: the broadcast is not reached for questions that the clusters they
\* were sent to can answer while one member of each answers throughout, though
\* what is known of the members is stale, shared with other queries and
\* replaced while they are tried (hash_server.go:296-312, 354-372 and 484-511).
Failover ==
  \A h \in Queries :
    phase[h] = "broadcast"
    /\ (\A q \in ask[h] : q \in Holds[placed[h][q]] \cap Spelled)
    => \E q \in ask[h] : Members[placed[h][q]] \cap steady[h] = {}

\* The hash server dies of an unreachable cluster, or of a query that meets a
\* ring no cluster has been added to yet, and of nothing less: while one member
\* of each cluster answers a query throughout, the broadcast does not meet the
\* nil message (hash_server.go:308-312, 366-372 and 459-475).
PanicsOnlyUnreachable ==
  ~running =>
    \/ missing = Clusters
    \/ \E h \in Queries, c \in Clusters :
         phase[h] = "broadcast" /\ Members[c] \cap steady[h] = {}
=============================================================================
