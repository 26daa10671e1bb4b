--------------------------- MODULE HashQueryProofs ---------------------------
(***************************************************************************)
(* The safety of HashQuery for any number of concurrent queries, clusters, *)
(* members and questions.  The members a query never saw failing are still *)
(* in the lists of its goroutines (ListsInv), which is why the list that   *)
(* depletes belongs to a cluster without one; and a batch that fails       *)
(* leaves a reason behind (DirectInv).                                     *)
(***************************************************************************)
EXTENDS HashQuery, FiniteSetTheorems, TLAPS

\* Why the direct query of h cannot answer all: a question that the members of
\* the cluster it was sent to do not answer, or that no member of it answers
\* throughout.
Reason(h, q) ==
  \/ q \notin Holds[placed[h][q]] \cap Spelled
  \/ Members[placed[h][q]] \cap steady[h] = {}

TypeInv ==
  /\ running \in BOOLEAN
  /\ phase \in [Queries -> {"idle", "direct", "broadcast", "replied"}]
  /\ DOMAIN ask = Queries /\ DOMAIN placed = Queries /\ DOMAIN left = Queries
  /\ source \in [Queries -> {"none", "cache", "direct", "broadcast"}]
  /\ busy \in [Queries -> SUBSET Clusters]
  /\ hasAll \in [Queries -> BOOLEAN]
  /\ DOMAIN answer = Queries /\ DOMAIN steady = Queries
  /\ \A h \in Queries :
       /\ left[h] \in [Clusters -> Seq(Servers)]
       /\ phase[h] \in {"direct", "broadcast"} =>
            placed[h] \in [ask[h] -> Clusters]
       /\ phase[h] = "direct" => busy[h] \subseteq Range(placed[h])
       /\ phase[h] \in {"idle", "replied"} => busy[h] = {}

\* A member that has not failed since the query began is still to be tried by
\* every goroutine of its cluster that runs.
ListsInv ==
  \A h \in Queries : \A c \in busy[h] :
    Members[c] \cap steady[h] \subseteq Range(left[h][c])

\* What has become of the questions of a query.
DirectInv ==
  \A h \in Queries :
    /\ phase[h] = "direct" =>
         \A q \in ask[h] :
           placed[h][q] \in busy[h] \/ q \in answer[h] \/ ~hasAll[h]
    /\ phase[h] = "broadcast" \/ (phase[h] = "direct" /\ ~hasAll[h]) =>
         \E q \in ask[h] : Reason(h, q)

QueryInv ==
  TypeInv /\ ListsInv /\ DirectInv /\ RepliesComplete /\ PanicsOnlyUnreachable

\* Any order of a finite set lists all of it.
LEMMA ShufflesList ==
  ASSUME NEW S, IsFiniteSet(S), NEW o \in Shuffles(S)
  PROVE  o \in Seq(S) /\ Range(o) = S
<1>1. Cardinality(S) \in Nat
  BY FS_CardinalityType
<1>2. /\ o \in [1..Cardinality(S) -> S]
      /\ \A t \in S : \E i \in 1..Cardinality(S) : o[i] = t
  BY DEF Shuffles, Bijection, Injection, Surjection
<1>3. o \in Seq(S)
  BY <1>1, <1>2
<1> QED
  BY <1>1, <1>2, <1>3 DEF Range

\* Two lists, one behind the other.
LEMMA RangeOfConcat ==
  ASSUME NEW S, NEW s \in Seq(S), NEW t \in Seq(S)
  PROVE  s \o t \in Seq(S) /\ Range(s \o t) = Range(s) \cup Range(t)
<1> DEFINE u == s \o t
<1>1. /\ u \in Seq(S) /\ DOMAIN u = 1 .. Len(s) + Len(t)
      /\ DOMAIN s = 1 .. Len(s) /\ DOMAIN t = 1 .. Len(t)
      /\ Len(s) \in Nat /\ Len(t) \in Nat
      /\ \A i \in 1 .. Len(s) : u[i] = s[i]
      /\ \A i \in 1 .. Len(t) : u[Len(s) + i] = t[i]
  OBVIOUS
<1>2. ASSUME NEW i \in DOMAIN u PROVE u[i] \in Range(s) \cup Range(t)
  <2>1. CASE i <= Len(s)
    BY <1>1, <2>1 DEF Range
  <2>2. CASE i > Len(s)
    <3>1. i - Len(s) \in 1 .. Len(t) /\ Len(s) + (i - Len(s)) = i
      BY <1>1, <2>2
    <3>2. u[i] = t[i - Len(s)]
      BY <1>1, <3>1
    <3> QED
      BY <1>1, <3>1, <3>2 DEF Range
  <2> QED
    BY <1>1, <2>1, <2>2
<1>3. Range(s) \subseteq Range(u)
  BY <1>1 DEF Range
<1>4. ASSUME NEW i \in 1 .. Len(t) PROVE t[i] \in Range(u)
  <2>1. Len(s) + i \in DOMAIN u /\ u[Len(s) + i] = t[i]
    BY <1>1
  <2> QED
    BY <2>1 DEF Range
<1> HIDE DEF u
<1>5. Range(u) \subseteq Range(s) \cup Range(t)
  BY <1>2 DEF Range
<1>6. Range(t) \subseteq Range(u)
  BY <1>1, <1>4 DEF Range
<1>7. Range(u) = Range(s) \cup Range(t)
  BY <1>3, <1>5, <1>6
<1> QED
  BY <1>1, <1>7 DEF u

\* The lists of one set in front of those of another.
Joined(A, B) == {alive \o waiting : alive \in A, waiting \in B}

\* (so the two parts of a preference list can be told apart)
LEMMA JoinedOf ==
  ASSUME NEW A, NEW B, NEW f \in Joined(A, B)
  PROVE  \E alive \in A, waiting \in B : f = alive \o waiting
BY DEF Joined

\* getPreferredServerIPsInOrder lists every member, whatever is known of them
\* (hash_server.go:484-511).
LEMMA PreferredListsAll ==
  ASSUME NEW c \in Clusters, NEW f \in Preferred(c)
  PROVE  f \in Seq(Servers) /\ Range(f) = Members[c]
<1>1. PICK alive \in Shuffles(Members[c] \ Late(c)),
           waiting \in InOrder(Late(c)) : f = alive \o waiting
  <2>1. Preferred(c) = Joined(Shuffles(Members[c] \ Late(c)),
                              InOrder(Late(c)))
    BY DEF Preferred, Joined
  <2> QED
    BY <2>1, JoinedOf
<1>2. IsFiniteSet(Members[c] \ Late(c)) /\ IsFiniteSet(Late(c))
  BY MemberAssumption, FS_Subset DEF Late
<1>3. /\ alive \in Seq(Members[c] \ Late(c))
      /\ Range(alive) = Members[c] \ Late(c)
      /\ waiting \in Seq(Late(c)) /\ Range(waiting) = Late(c)
  BY <1>2, ShufflesList DEF InOrder
<1>4. Members[c] \subseteq Servers
  BY DEF Servers
<1>5. alive \in Seq(Servers) /\ waiting \in Seq(Servers)
  BY <1>3, <1>4 DEF Late
<1>6. f \in Seq(Servers) /\ Range(f) = Range(alive) \cup Range(waiting)
  BY <1>1, <1>5, RangeOfConcat
<1>7. (Members[c] \ Late(c)) \cup Late(c) = Members[c]
  BY DEF Late
<1> QED
  BY <1>3, <1>6, <1>7

\* Trying the head of a list takes only that member off it
\* (hash_server.go:358-370).
LEMMA RestOfList ==
  ASSUME NEW S, NEW s \in Seq(S), s # <<>>
  PROVE  Tail(s) \in Seq(S) /\ Range(s) \ {Head(s)} \subseteq Range(Tail(s))
<1>1. /\ Tail(s) \in Seq(S) /\ Len(s) \in Nat /\ Len(s) > 0
      /\ Len(Tail(s)) = Len(s) - 1
      /\ \A i \in 1 .. Len(s) - 1 : Tail(s)[i] = s[i + 1]
      /\ DOMAIN s = 1 .. Len(s) /\ DOMAIN Tail(s) = 1 .. Len(s) - 1
  OBVIOUS
<1>2. ASSUME NEW i \in DOMAIN s, s[i] # Head(s)
      PROVE  s[i] \in Range(Tail(s))
  <2>1. i # 1
    BY <1>1, <1>2
  <2>2. i - 1 \in DOMAIN Tail(s) /\ Tail(s)[i - 1] = s[i]
    BY <1>1, <2>1
  <2> QED
    BY <2>2 DEF Range
<1> QED
  BY <1>1, <1>2 DEF Range

\* The lists the goroutines of the clusters S start with.
LEMMA ChoicesListAll ==
  ASSUME NEW S \in SUBSET Clusters, NEW f \in Choices(S)
  PROVE  /\ f \in [Clusters -> Seq(Servers)]
         /\ \A c \in S : Range(f[c]) = Members[c]
<1>1. \A c \in Clusters :
        f[c] \in IF c \in S THEN Preferred(c) ELSE {<<>>}
  BY DEF Choices
<1>2. DOMAIN f = Clusters /\ f = [c \in DOMAIN f |-> f[c]]
  BY DEF Choices
<1>3. ASSUME NEW c \in Clusters PROVE f[c] \in Seq(Servers)
  <2>1. CASE c \in S
    BY <1>1, <2>1, PreferredListsAll
  <2>2. CASE c \notin S
    <3>1. f[c] = <<>> /\ <<>> \in Seq(Servers)
      BY <1>1, <2>2
    <3> QED
      BY <3>1
  <2> QED
    BY <2>1, <2>2
<1> QED
  BY <1>1, <1>2, <1>3, PreferredListsAll

\* A query goes out to the clusters of its questions (hash_server.go:639-665).
LEMMA AskClustersKeeps ==
  ASSUME QueryInv, NEW h \in Queries, NEW qs \in AskSets[h], AskClusters(h, qs)
  PROVE  QueryInv'
<1> USE DEF QueryInv
<1>a. PICK at \in [qs -> Clusters] :
        /\ placed' = [placed EXCEPT ![h] = at]
        /\ busy' = [busy EXCEPT ![h] = Range(at)]
        /\ \E f \in Choices(Range(at)) : left' = [left EXCEPT ![h] = f]
  BY DEF AskClusters
<1>b. PICK f \in Choices(Range(at)) : left' = [left EXCEPT ![h] = f]
  BY <1>a
<1>c. Range(at) \in SUBSET Clusters /\ \A q \in qs : at[q] \in Range(at)
  BY DEF Range
<1>d. /\ f \in [Clusters -> Seq(Servers)]
      /\ \A c \in Range(at) : Range(f[c]) = Members[c]
  BY <1>c, ChoicesListAll
<1>e. /\ running' /\ ask' = [ask EXCEPT ![h] = qs]
      /\ phase' = [phase EXCEPT ![h] = "direct"]
      /\ hasAll' = [hasAll EXCEPT ![h] = TRUE]
      /\ answer' = [answer EXCEPT ![h] = {}]
      /\ steady' = [steady EXCEPT ![h] = up]
      /\ UNCHANGED <<running, source>>
  BY DEF AskClusters
<1>1. TypeInv'
  <2>1. ASSUME NEW k \in Queries
        PROVE  /\ left'[k] \in [Clusters -> Seq(Servers)]
               /\ phase'[k] \in {"direct", "broadcast"} =>
                    placed'[k] \in [ask'[k] -> Clusters]
               /\ phase'[k] = "direct" => busy'[k] \subseteq Range(placed'[k])
               /\ phase'[k] \in {"idle", "replied"} => busy'[k] = {}
    <3>1. CASE k = h
      BY <1>a, <1>b, <1>c, <1>d, <1>e, <3>1 DEF TypeInv
    <3>2. CASE k # h
      BY <1>a, <1>b, <1>e, <3>2 DEF TypeInv
    <3> QED
      BY <3>1, <3>2
  <2> QED
    BY <1>a, <1>b, <1>c, <1>e, <2>1 DEF TypeInv
<1>2. ListsInv'
  BY <1>a, <1>b, <1>d DEF TypeInv, ListsInv, AskClusters
<1>3. DirectInv'
  <2>1. ASSUME NEW k \in Queries
        PROVE  /\ phase'[k] = "direct" =>
                    \A q \in ask'[k] :
                      \/ placed'[k][q] \in busy'[k]
                      \/ q \in answer'[k] \/ ~hasAll'[k]
               /\ \/ phase'[k] = "broadcast"
                  \/ phase'[k] = "direct" /\ ~hasAll'[k]
                  => \E q \in ask'[k] : Reason(k, q)'
    <3>1. CASE k = h
      BY <1>a, <1>b, <1>c, <1>e, <3>1 DEF TypeInv
    <3>2. CASE k # h
      BY <1>a, <1>b, <1>e, <3>2 DEF TypeInv, DirectInv, Reason
    <3> QED
      BY <3>1, <3>2
  <2> QED
    BY <2>1 DEF DirectInv
<1>4. RepliesComplete'
  BY DEF QueryInv, TypeInv, RepliesComplete, AskClusters
<1>5. PanicsOnlyUnreachable'
  BY DEF QueryInv, TypeInv, PanicsOnlyUnreachable, AskClusters
<1> QED
  BY <1>1, <1>2, <1>3, <1>4, <1>5 DEF QueryInv

\* A query that the cache answers whole (hash_server.go:549-569).
LEMMA AskCacheKeeps ==
  ASSUME QueryInv, NEW h \in Queries, NEW qs \in AskSets[h], AskCache(h, qs)
  PROVE  QueryInv'
<1>1. TypeInv'
  BY DEF QueryInv, TypeInv, AskCache, ringVars
<1>2. ListsInv'
  BY DEF QueryInv, TypeInv, ListsInv, AskCache, ringVars
<1>3. DirectInv'
  BY DEF QueryInv, TypeInv, DirectInv, AskCache, ringVars, Reason
<1>4. RepliesComplete'
  BY DEF QueryInv, TypeInv, RepliesComplete, AskCache, ringVars
<1>5. PanicsOnlyUnreachable'
  BY DEF QueryInv, TypeInv, PanicsOnlyUnreachable, AskCache, ringVars
<1> QED
  BY <1>1, <1>2, <1>3, <1>4, <1>5 DEF QueryInv

\* A member does not answer in time: the next one is tried
\* (hash_server.go:360-370).
LEMMA TryFailsKeeps ==
  ASSUME QueryInv, NEW h \in Queries, NEW c \in Clusters, TryFails(h, c)
  PROVE  QueryInv'
<1> USE DEF QueryInv
<1>a. /\ left[h] \in [Clusters -> Seq(Servers)] /\ left[h][c] # <<>>
      /\ left' = [left EXCEPT ![h] = [@ EXCEPT ![c] = Tail(left[h][c])]]
      /\ steady' = [steady EXCEPT ![h] = @ \ {Head(left[h][c])}]
      /\ UNCHANGED <<running, missing, phase, ask, placed, source, busy,
                     hasAll, answer>>
  BY DEF TypeInv, TryFails, Trying, ringVars
<1>b. /\ Tail(left[h][c]) \in Seq(Servers)
      /\ Range(left[h][c]) \ {Head(left[h][c])}
           \subseteq Range(Tail(left[h][c]))
  BY <1>a, RestOfList
<1>c. \A k \in Queries : steady'[k] \subseteq steady[k]
  BY <1>a DEF TypeInv
<1>1. TypeInv'
  BY <1>a, <1>b DEF TypeInv
<1>2. ListsInv'
  <2>1. ASSUME NEW k \in Queries, NEW d \in busy[k]
        PROVE  Members[d] \cap steady'[k] \subseteq Range(left'[k][d])
    <3>1. CASE k = h /\ d = c
      BY <1>a, <1>b, <3>1 DEF TypeInv, ListsInv
    <3>2. CASE k # h \/ d # c
      <4>1. left'[k][d] = left[k][d]
        BY <1>a, <3>2 DEF TypeInv
      <4> QED
        BY <1>c, <4>1 DEF ListsInv
    <3> QED
      BY <3>1, <3>2
  <2> QED
    BY <1>a, <2>1 DEF ListsInv
<1>3. DirectInv'
  <2>1. ASSUME NEW k \in Queries, NEW q \in ask[k], Reason(k, q)
        PROVE  Reason(k, q)'
    BY <1>a, <1>c, <2>1 DEF Reason
  <2> QED
    BY <1>a, <2>1 DEF DirectInv
<1>4. RepliesComplete'
  BY DEF QueryInv, TypeInv, RepliesComplete, TryFails, Trying, ringVars
<1>5. PanicsOnlyUnreachable'
  BY DEF QueryInv, TypeInv, PanicsOnlyUnreachable, TryFails, Trying, ringVars
<1> QED
  BY <1>1, <1>2, <1>3, <1>4, <1>5 DEF QueryInv

\* A cluster has answered its batch, wholly or not (hash_server.go:384-443).
LEMMA DirectAnswerKeeps ==
  ASSUME QueryInv, NEW h \in Queries, NEW c \in Clusters, DirectAnswer(h, c)
  PROVE  QueryInv'
<1> USE DEF QueryInv
<1>a. /\ phase[h] = "direct" /\ c \in busy[h]
      /\ busy' = [busy EXCEPT ![h] = @ \ {c}]
      /\ left' = [left EXCEPT ![h] = [@ EXCEPT ![c] = <<>>]]
      /\ UNCHANGED <<running, missing, phase, ask, placed, source, steady>>
  BY DEF DirectAnswer, Reached, Trying, ringVars
<1>b. IF QuestionsFor(h, c) \subseteq Holds[c] \cap Spelled
      THEN /\ answer' = [answer EXCEPT ![h] = @ \cup QuestionsFor(h, c)]
           /\ UNCHANGED hasAll
      ELSE /\ hasAll' = [hasAll EXCEPT ![h] = FALSE]
           /\ UNCHANGED answer
  BY DEF DirectAnswer
<1>c. \A q \in ask[h] : placed[h][q] = c <=> q \in QuestionsFor(h, c)
  BY DEF QuestionsFor
<1>d. left' \in [Queries -> [Clusters -> Seq(Servers)]]
  <2>1. <<>> \in Seq(Servers)
    OBVIOUS
  <2> QED
    BY <1>a, <2>1 DEF TypeInv
<1>1. TypeInv'
  BY <1>a, <1>b, <1>d DEF TypeInv
<1>2. ListsInv'
  BY <1>a DEF TypeInv, ListsInv
<1>3. DirectInv'
  <2>1. ASSUME NEW k \in Queries, NEW q
        PROVE  Reason(k, q)' <=> Reason(k, q)
    BY <1>a DEF Reason
  <2>2. CASE QuestionsFor(h, c) \subseteq Holds[c] \cap Spelled
    BY <1>a, <1>b, <1>c, <2>1, <2>2 DEF TypeInv, DirectInv
  <2>3. CASE ~(QuestionsFor(h, c) \subseteq Holds[c] \cap Spelled)
    <3>1. PICK q \in QuestionsFor(h, c) : q \notin Holds[c] \cap Spelled
      BY <2>3
    <3>2. q \in ask[h] /\ Reason(h, q)
      BY <3>1 DEF QuestionsFor, Reason
    <3> QED
      BY <1>a, <1>b, <2>1, <2>3, <3>2 DEF TypeInv, DirectInv
  <2> QED
    BY <2>2, <2>3
<1>4. RepliesComplete'
  BY <1>a, <1>b DEF TypeInv, RepliesComplete
<1>5. PanicsOnlyUnreachable'
  BY <1>a DEF DirectAnswer, Reached, Trying, PanicsOnlyUnreachable
<1> QED
  BY <1>1, <1>2, <1>3, <1>4, <1>5 DEF QueryInv

\* No member of the cluster of a batch was reached (hash_server.go:392-396).
LEMMA DirectErrorKeeps ==
  ASSUME QueryInv, NEW h \in Queries, NEW c \in Clusters, DirectError(h, c)
  PROVE  QueryInv'
<1> USE DEF QueryInv
<1>a. /\ phase[h] = "direct" /\ c \in busy[h] /\ left[h][c] = <<>>
      /\ busy' = [busy EXCEPT ![h] = @ \ {c}]
      /\ hasAll' = [hasAll EXCEPT ![h] = FALSE]
      /\ UNCHANGED <<running, missing, phase, ask, placed, source, left, answer,
                     steady>>
  BY DEF DirectError, Depleted, ringVars
<1>b. Range(left[h][c]) = {}
  BY <1>a DEF Range
<1>c. Members[c] \cap steady[h] = {}
  BY <1>a, <1>b DEF ListsInv
<1>d. PICK q \in ask[h] : placed[h][q] = c
  BY <1>a DEF TypeInv, Range
<1>1. TypeInv'
  BY DEF QueryInv, TypeInv, DirectError, Depleted, ringVars
<1>2. ListsInv'
  BY DEF QueryInv, TypeInv, ListsInv, DirectError, Depleted, ringVars
<1>3. DirectInv'
  <2>1. ASSUME NEW k \in Queries, NEW r
        PROVE  Reason(k, r)' <=> Reason(k, r)
    BY <1>a DEF Reason
  <2>2. Reason(h, q)
    BY <1>c, <1>d DEF Reason
  <2> QED
    BY <1>a, <2>1, <2>2 DEF TypeInv, DirectInv
<1>4. RepliesComplete'
  BY DEF QueryInv, TypeInv, RepliesComplete, DirectError, Depleted, ringVars
<1>5. PanicsOnlyUnreachable'
  BY DEF QueryInv, TypeInv, PanicsOnlyUnreachable, DirectError, Depleted,
         ringVars
<1> QED
  BY <1>1, <1>2, <1>3, <1>4, <1>5 DEF QueryInv

\* All answers are there (hash_server.go:661-675).
LEMMA DirectReplyKeeps ==
  ASSUME QueryInv, NEW h \in Queries, DirectReply(h)
  PROVE  QueryInv'
<1>1. TypeInv'
  BY DEF QueryInv, TypeInv, DirectReply, ringVars
<1>2. ListsInv'
  BY DEF QueryInv, TypeInv, ListsInv, DirectReply, ringVars
<1>3. DirectInv'
  BY DEF QueryInv, TypeInv, DirectInv, DirectReply, ringVars, Reason
<1>4. RepliesComplete'
  <2>1. /\ phase[h] = "direct" /\ busy[h] = {} /\ hasAll[h]
        /\ phase' = [phase EXCEPT ![h] = "replied"]
        /\ source' = [source EXCEPT ![h] = "direct"]
        /\ UNCHANGED <<ask, answer>>
    BY DEF DirectReply
  <2>2. ask[h] \subseteq answer[h]
    BY <2>1 DEF QueryInv, DirectInv
  <2> QED
    BY <2>1, <2>2 DEF QueryInv, TypeInv, RepliesComplete
<1>5. PanicsOnlyUnreachable'
  BY DEF QueryInv, TypeInv, PanicsOnlyUnreachable, DirectReply, ringVars
<1> QED
  BY <1>1, <1>2, <1>3, <1>4, <1>5 DEF QueryInv

\* Not all answers are there: all clusters are asked
\* (hash_server.go:451-467).
LEMMA BroadcastKeeps ==
  ASSUME QueryInv, NEW h \in Queries, Broadcast(h)
  PROVE  QueryInv'
<1> USE DEF QueryInv
<1>a. PICK f \in Choices(Clusters) : left' = [left EXCEPT ![h] = f]
  BY DEF Broadcast
<1>b. /\ f \in [Clusters -> Seq(Servers)]
      /\ \A c \in Clusters : Range(f[c]) = Members[c]
  BY ChoicesListAll
<1>c. /\ phase[h] = "direct" /\ busy[h] = {} /\ ~hasAll[h]
      /\ phase' = [phase EXCEPT ![h] = "broadcast"]
      /\ busy' = [busy EXCEPT ![h] = Clusters]
      /\ answer' = [answer EXCEPT ![h] = {}]
      /\ UNCHANGED <<running, missing, placed, ask, source, hasAll, steady>>
  BY DEF Broadcast
<1>1. TypeInv'
  <2>1. left' \in [Queries -> [Clusters -> Seq(Servers)]]
    BY <1>a, <1>b DEF TypeInv
  <2> QED
    BY <1>c, <2>1 DEF TypeInv
<1>2. ListsInv'
  BY <1>a, <1>b, <1>c DEF TypeInv, ListsInv
<1>3. DirectInv'
  BY DEF QueryInv, TypeInv, DirectInv, Broadcast, Reason
<1>4. RepliesComplete'
  BY DEF QueryInv, TypeInv, RepliesComplete, Broadcast
<1>5. PanicsOnlyUnreachable'
  BY DEF QueryInv, TypeInv, PanicsOnlyUnreachable, Broadcast
<1> QED
  BY <1>1, <1>2, <1>3, <1>4, <1>5 DEF QueryInv

\* A cluster has answered the broadcast (hash_server.go:468-477).
LEMMA BroadcastAnswerKeeps ==
  ASSUME QueryInv, NEW h \in Queries, NEW c \in Clusters, BroadcastAnswer(h, c)
  PROVE  QueryInv'
<1>1. TypeInv'
  BY DEF QueryInv, TypeInv, BroadcastAnswer, Reached, Trying, ringVars
<1>2. ListsInv'
  BY DEF QueryInv, TypeInv, ListsInv, BroadcastAnswer, Reached, Trying,
         ringVars
<1>3. DirectInv'
  BY DEF QueryInv, TypeInv, DirectInv, BroadcastAnswer, Reached, Trying,
         ringVars, Reason
<1>4. RepliesComplete'
  BY DEF QueryInv, TypeInv, RepliesComplete, BroadcastAnswer, Reached, Trying,
         ringVars
<1>5. PanicsOnlyUnreachable'
  BY DEF QueryInv, TypeInv, PanicsOnlyUnreachable, BroadcastAnswer, Reached,
         Trying, ringVars
<1> QED
  BY <1>1, <1>2, <1>3, <1>4, <1>5 DEF QueryInv

\* The broadcast reached no member of a cluster: the process dies
\* (hash_server.go:470-475).
LEMMA BroadcastErrorKeeps ==
  ASSUME QueryInv, NEW h \in Queries, NEW c \in Clusters, BroadcastError(h, c)
  PROVE  QueryInv'
<1> USE DEF QueryInv
<1>a. /\ phase[h] = "broadcast" /\ c \in busy[h] /\ left[h][c] = <<>>
  BY DEF BroadcastError, Depleted
<1>b. Members[c] \cap steady[h] = {}
  BY <1>a DEF ListsInv, Range
<1>1. TypeInv'
  BY DEF QueryInv, TypeInv, BroadcastError, Depleted, ringVars, queryVars
<1>2. ListsInv'
  BY DEF QueryInv, TypeInv, ListsInv, BroadcastError, Depleted, ringVars,
         queryVars
<1>3. DirectInv'
  BY DEF QueryInv, TypeInv, DirectInv, BroadcastError, Depleted, ringVars,
         queryVars, Reason
<1>4. RepliesComplete'
  BY DEF QueryInv, TypeInv, RepliesComplete, BroadcastError, Depleted,
         ringVars, queryVars
<1>5. PanicsOnlyUnreachable'
  BY <1>a, <1>b DEF BroadcastError, PanicsOnlyUnreachable, queryVars
<1> QED
  BY <1>1, <1>2, <1>3, <1>4, <1>5 DEF QueryInv

\* What the broadcast has merged is sent (hash_server.go:677-691).
LEMMA BroadcastReplyKeeps ==
  ASSUME QueryInv, NEW h \in Queries, BroadcastReply(h)
  PROVE  QueryInv'
<1>1. TypeInv'
  BY DEF QueryInv, TypeInv, BroadcastReply, ringVars
<1>2. ListsInv'
  BY DEF QueryInv, TypeInv, ListsInv, BroadcastReply, ringVars
<1>3. DirectInv'
  BY DEF QueryInv, TypeInv, DirectInv, BroadcastReply, ringVars, Reason
<1>4. RepliesComplete'
  BY DEF QueryInv, TypeInv, RepliesComplete, BroadcastReply, ringVars
<1>5. PanicsOnlyUnreachable'
  BY DEF QueryInv, TypeInv, PanicsOnlyUnreachable, BroadcastReply, ringVars
<1> QED
  BY <1>1, <1>2, <1>3, <1>4, <1>5 DEF QueryInv

\* A handler is free for another query (hash_server.go:619-638).
LEMMA ReturnKeeps ==
  ASSUME QueryInv, NEW h \in Queries, Return(h)
  PROVE  QueryInv'
<1>1. TypeInv'
  BY DEF QueryInv, TypeInv, Return
<1>2. ListsInv'
  BY DEF QueryInv, TypeInv, ListsInv, Return
<1>3. DirectInv'
  BY DEF QueryInv, TypeInv, DirectInv, Return, Reason
<1>4. RepliesComplete'
  BY DEF QueryInv, TypeInv, RepliesComplete, Return
<1>5. PanicsOnlyUnreachable'
  BY DEF QueryInv, TypeInv, PanicsOnlyUnreachable, Return
<1> QED
  BY <1>1, <1>2, <1>3, <1>4, <1>5 DEF QueryInv

\* A member goes down: no query may count on it.
LEMMA MemberDownKeeps ==
  ASSUME QueryInv, NEW s \in Servers, MemberDown(s)
  PROVE  QueryInv'
<1>1. TypeInv'
  BY DEF QueryInv, TypeInv, MemberDown, ringVars, queryVars
<1>2. ListsInv'
  BY DEF QueryInv, TypeInv, ListsInv, MemberDown, ringVars, queryVars
<1>3. DirectInv'
  BY DEF QueryInv, TypeInv, DirectInv, MemberDown, ringVars, queryVars, Reason
<1>4. RepliesComplete'
  BY DEF QueryInv, TypeInv, RepliesComplete, MemberDown, ringVars, queryVars
<1>5. PanicsOnlyUnreachable'
  BY DEF QueryInv, TypeInv, PanicsOnlyUnreachable, MemberDown, ringVars,
         queryVars
<1> QED
  BY <1>1, <1>2, <1>3, <1>4, <1>5 DEF QueryInv

\* What leaves every query alone: the world, and the query that meets an empty
\* ring.
LEMMA OthersKeep ==
  ASSUME QueryInv,
         UNCHANGED <<phase, ask, placed, source, busy, left, hasAll, answer,
                     steady>>,
         \/ running /\ running'
         \/ running' = FALSE /\ missing' = Clusters
         \/ UNCHANGED <<running, missing>>
  PROVE  QueryInv'
<1>1. TypeInv'
  BY DEF QueryInv, TypeInv
<1>2. ListsInv'
  BY DEF QueryInv, ListsInv
<1>3. DirectInv'
  BY DEF QueryInv, DirectInv, Reason
<1>4. RepliesComplete'
  BY DEF QueryInv, RepliesComplete
<1>5. PanicsOnlyUnreachable'
  BY DEF QueryInv, PanicsOnlyUnreachable
<1> QED
  BY <1>1, <1>2, <1>3, <1>4, <1>5 DEF QueryInv

\* No query is running.
LEMMA QueryInvInit == Init => QueryInv
<1> SUFFICES ASSUME Init PROVE QueryInv
  OBVIOUS
<1>1. TypeInv
  <2>1. [c \in Clusters |-> <<>>] \in [Clusters -> Seq(Servers)]
    OBVIOUS
  <2> QED
    BY <2>1 DEF Init, TypeInv
<1> QED
  BY <1>1 DEF Init, QueryInv, ListsInv, DirectInv, RepliesComplete,
              PanicsOnlyUnreachable

\* The step lemmas together: no step of a query, of another query or of
\* PUT /addcluster breaks the invariant.
LEMMA QueryInvStep == QueryInv /\ [Next]_vars => QueryInv'
<1> SUFFICES ASSUME QueryInv, [Next]_vars PROVE QueryInv'
  OBVIOUS
<1>1. ASSUME NEW h \in Queries, NEW qs \in AskSets[h],
             \/ AskClusters(h, qs) \/ AskEmptyRing(h, qs) \/ AskCache(h, qs)
      PROVE  QueryInv'
  <2>1. CASE AskEmptyRing(h, qs)
    BY <2>1, OthersKeep DEF AskEmptyRing, ringVars, queryVars
  <2> QED
    BY <1>1, <2>1, AskClustersKeeps, AskCacheKeeps
<1>2. ASSUME NEW h \in Queries, Handle(h) \/ Return(h)
      PROVE  QueryInv'
  <2>1. ASSUME NEW c \in Clusters,
               \/ TryFails(h, c) \/ DirectAnswer(h, c) \/ DirectError(h, c)
               \/ BroadcastAnswer(h, c) \/ BroadcastError(h, c)
        PROVE  QueryInv'
    BY <2>1, TryFailsKeeps, DirectAnswerKeeps, DirectErrorKeeps,
       BroadcastAnswerKeeps, BroadcastErrorKeeps
  <2> QED
    BY <1>2, <2>1, DirectReplyKeeps, BroadcastKeeps, BroadcastReplyKeeps,
       ReturnKeeps DEF Handle
<1>3. ASSUME NEW s \in Servers, MemberDown(s) \/ MemberUp(s)
      PROVE  QueryInv'
  <2>1. CASE MemberUp(s)
    BY <2>1, OthersKeep DEF MemberUp, ringVars, queryVars
  <2> QED
    BY <1>3, <2>1, MemberDownKeeps
<1>4. CASE Revive
  BY <1>4, OthersKeep DEF Revive, ringVars, queryVars
<1>5. ASSUME NEW n \in Names, Forget(n)
      PROVE  QueryInv'
  BY <1>5, OthersKeep DEF Forget, ringVars, queryVars
<1>6. CASE NewRing
  BY <1>6, OthersKeep DEF NewRing, queryVars, QueryInv, PanicsOnlyUnreachable
<1>7. ASSUME NEW c \in Clusters, AddToRing(c)
      PROVE  QueryInv'
  BY <1>7, OthersKeep DEF AddToRing, queryVars
<1>8. CASE UNCHANGED vars
  BY <1>8, OthersKeep DEF vars, ringVars, queryVars
<1> QED
  BY <1>1, <1>2, <1>3, <1>4, <1>5, <1>6, <1>7, <1>8 DEF Next

---------------------------------------------------------------------------
\* The inductive invariant of the hash server's queries, whatever other queries
\* and PUT /addcluster do meanwhile (hash_server.go:354-691).
THEOREM QueryInductive == Spec => []QueryInv
BY QueryInvInit, QueryInvStep, PTL DEF Spec

\* A reply from the cache or from the direct query answers every question: the
\* flag hasAllAnswers and the batches account for all of them
\* (hash_server.go:375-448 and 549-569).
THEOREM CompleteReplies == Spec => []RepliesComplete
<1>1. QueryInv => RepliesComplete
  BY DEF QueryInv
<1> QED
  BY <1>1, QueryInductive, PTL

\* The broadcast is not reached while one member of each cluster asked answers
\* throughout and holds the records: the lists of members are whole, though the
\* aliveSince they are sorted by is shared and stale
\* (hash_server.go:296-312, 354-372 and 484-511).
THEOREM FailsOver == Spec => []Failover
<1>1. QueryInv => Failover
  BY DEF QueryInv, DirectInv, Reason, Failover
<1> QED
  BY <1>1, QueryInductive, PTL

\* The process dies only of a ring without members or of a cluster none of whose
\* members answered throughout the query (hash_server.go:308-312 and 470-475).
THEOREM DiesOnlyUnreachable == Spec => []PanicsOnlyUnreachable
<1>1. QueryInv => PanicsOnlyUnreachable
  BY DEF QueryInv
<1> QED
  BY <1>1, QueryInductive, PTL
=============================================================================
