--------------------------- MODULE MigrationProofs ---------------------------
(***************************************************************************)
(* The safety of Migration for any number of clusters, names and requests, *)
(* and for any number of attempts, restarts and failures.                  *)
(*                                                                         *)
(* That a quiet migration copies exactly what it should is the claim with  *)
(* the longest way to it: what the new cluster has, stored or proposed, is *)
(* at every moment of the retrieval what the goroutines' counters have     *)
(* passed in the order the keys were copied in (QuietInv).  This needs     *)
(* that nothing was there when the retrieval began (FreshInv), that no     *)
(* second old cluster has records of the same name (HomeInv), and that a   *)
(* delete is no record (DeletesInv).                                       *)
(***************************************************************************)
EXTENDS Migration, FiniteSetTheorems, TLAPS

\* A request that has not been forwarded has left nothing anywhere.
UnsentInv ==
  \A r \in Requests : req[r] \in {"none", "admitted", "refused"} =>
    \A c \in Clusters : store[c][r] = 0 /\ pending[c][r] = 0

\* A delete is not a record.
DeletesInv == \A c \in Clusters, d \in Deletes : store[c][d] = 0

\* An acknowledged add that no client deletes is where it was forwarded to,
\* or on its way through raft there, unless raft dropped it.
AckedInv ==
  \A r \in Requests \ (Deletes \cup dropped) :
    req[r] = "acked" /\ (\A d \in Deletes : NameOf[d] # NameOf[r]) =>
      store[placed[r]][r] + pending[placed[r]][r] > 0

\* Where migrateDNS is before its first retrieval.
Beginning == attempts <= 1 /\ mpc \in {"idle", "disable", "config"}

\* Its first retrieval, and what follows it, while no write overtakes it.
Quiet == quiet /\ mpc \in {"retrieve", "switch", "ring", "enable", "done"}

\* Before the first retrieval the new cluster has nothing, and no cluster's
\* first node has been asked for a record.
FreshInv ==
  /\ attempts = 0 <=> mpc = "idle"
  /\ Beginning =>
       /\ table = Before /\ missing = {}
       /\ \A r \in Requests : store[New][r] = 0 /\ pending[New][r] = 0
       /\ \A c \in Old : domainNames[c] = <<>> /\ counter[c] = 0
       /\ finished = {}

\* A name's records are in one old cluster.
HomeInv ==
  Beginning \/ Quiet =>
    \A c \in Old, r \in Requests :
      store[c][r] > 0 \/ (Beginning /\ pending[c][r] > 0) =>
        c = Before[NameOf[r]]

\* The goroutine for cluster c has taken the records of a name, when the keys
\* were copied in order o.
Taken(c, o, name) == \E i \in 1 .. counter[c] : o[i] = name

\* What a quiet migration has copied from the old cluster c.
CopiedFrom(c, o) ==
  /\ counter[c] <= Cardinality(Keys(c))
  /\ c \in finished => counter[c] = Cardinality(Keys(c))
  /\ domainNames[c] = <<>> \/ (counter[c] > 0 /\ domainNames[c] = o)
  /\ \A r \in Requests : Before[NameOf[r]] = c =>
       store[New][r] + pending[New][r] =
         IF After[NameOf[r]] = New /\ Taken(c, o, NameOf[r])
         THEN store[c][r] ELSE 0

QuietInv ==
  Quiet => /\ mpc # "retrieve" => finished = Old
           /\ \A c \in Old : \E o \in Orders(Keys(c)) : CopiedFrom(c, o)

ClientInv == UnsentInv /\ DeletesInv /\ OnlyOwnNames /\ AckedInv

MigrationInv == TypeOK /\ ClientInv /\ FreshInv /\ HomeInv /\ QuietInv

\* An order of the keys of a map lists each of them once (Go's range).
LEMMA OrdersList ==
  ASSUME NEW S \in SUBSET Names, NEW o \in Orders(S)
  PROVE  /\ Cardinality(S) \in Nat
         /\ o \in Seq(Names) /\ Len(o) = Cardinality(S)
         /\ \A i \in 1 .. Cardinality(S) : o[i] \in S
         /\ \A i, j \in 1 .. Cardinality(S) : o[i] = o[j] => i = j
         /\ \A t \in S : \E i \in 1 .. Cardinality(S) : o[i] = t
<1>1. Cardinality(S) \in Nat
  BY PlacementAssumption, FS_Subset, FS_CardinalityType
<1>2. /\ o \in [1 .. Cardinality(S) -> S]
      /\ \A i, j \in 1 .. Cardinality(S) : o[i] = o[j] => i = j
      /\ \A t \in S : \E i \in 1 .. Cardinality(S) : o[i] = t
  BY DEF Orders, Bijection, Injection, Surjection, IsInjective
<1>3. o \in Seq(Names) /\ Len(o) = Cardinality(S)
  BY <1>1, <1>2
<1> QED
  BY <1>1, <1>2, <1>3

\* The keys of a map are names.
LEMMA KeysAreNames == ASSUME NEW c PROVE Keys(c) \in SUBSET Names
BY PlacementAssumption DEF Keys

\* Steps that leave the old clusters' stores, what the new cluster has got and
\* the goroutines alone leave QuietInv alone: a first node may lose its copy of
\* the keys.
LEMMA QuietKept ==
  ASSUME QuietInv,
         Quiet' => Quiet /\ (mpc' # "retrieve" => mpc # "retrieve"
                                                  \/ finished = Old),
         UNCHANGED <<counter, finished>>,
         \A c \in Old : /\ store'[c] = store[c]
                        /\ domainNames'[c] \in {domainNames[c], <<>>},
         \A r \in Requests :
           store'[New][r] + pending'[New][r] = store[New][r] + pending[New][r]
  PROVE  QuietInv'
<1> SUFFICES ASSUME Quiet'
             PROVE  /\ mpc' # "retrieve" => finished' = Old
                    /\ \A c \in Old : \E o \in Orders(Keys(c)') :
                         CopiedFrom(c, o)'
  BY DEF QuietInv
<1>1. ASSUME NEW c \in Old
      PROVE  Keys(c)' = Keys(c)
  BY DEF Keys
<1>2. ASSUME NEW c \in Old, NEW o, CopiedFrom(c, o)
      PROVE  CopiedFrom(c, o)'
  BY <1>1, <1>2 DEF CopiedFrom, Taken
<1> QED
  BY <1>1, <1>2 DEF QuietInv

\* A name is sent to a cluster, whatever the ring lacks.
LEMMA LocatedInClusters ==
  ASSUME TypeOK, NEW name \in Names
  PROVE  Located(name) \subseteq Clusters
BY PlacementAssumption DEF TypeOK, Located, Clusters

\* A request arrives at a cluster.
LEMMA ArriveTypes ==
  ASSUME TypeOK, NEW c \in Clusters, NEW r \in Requests, Arrive(c, r)
  PROVE  /\ pending' \in [Clusters -> [Requests -> Nat]]
         /\ placed' \in [Requests -> Clusters] /\ quiet' \in BOOLEAN
         /\ dropped' \subseteq Requests
<1>1. pending[c][r] + 1 \in Nat
  BY DEF TypeOK
<1>2. pending' \in [Clusters -> [Requests -> Nat]]
  BY <1>1 DEF Arrive, TypeOK
<1>3. placed' \in [Requests -> Clusters]
  BY DEF Arrive, TypeOK
<1> QED
  BY <1>2, <1>3 DEF Arrive, TypeOK

\* Every step keeps the types.
LEMMA TypesKept ==
  ASSUME TypeOK, [Next]_vars
  PROVE  TypeOK'
<1>1. ASSUME NEW r \in Requests, Admit(r)
      PROVE  TypeOK'
  BY <1>1
     DEF Admit, TypeOK, hashVars, dataVars, memberVars, migVars, history,
         faultVars
<1>2. ASSUME NEW r \in Requests, Forward(r)
      PROVE  TypeOK'
  <2>1. Located(NameOf[r]) \subseteq Clusters
    BY PlacementAssumption, LocatedInClusters
  <2>2. /\ pending' \in [Clusters -> [Requests -> Nat]]
        /\ placed' \in [Requests -> Clusters] /\ quiet' \in BOOLEAN
        /\ dropped' \subseteq Requests
    BY <1>2, <2>1, ArriveTypes DEF Forward, TypeOK, history
  <2>3. req' \in [Requests ->
                   {"none", "admitted", "refused", "acked", "failed"}]
    BY <1>2 DEF Forward, TypeOK
  <2>4. UNCHANGED <<hashVars, store, memberVars, migVars, hashRestarts,
                    memberRestarts>>
        /\ failures' \in Nat
    BY <1>2 DEF Forward, TypeOK, faultVars
  <2> QED
    BY <2>2, <2>3, <2>4 DEF TypeOK, hashVars, memberVars, migVars
<1>3. ASSUME NEW r \in Requests, ForwardFails(r)
      PROVE  TypeOK'
  <2>1. Located(NameOf[r]) \subseteq Clusters
    BY PlacementAssumption, LocatedInClusters
  <2>2. /\ pending' \in [Clusters -> [Requests -> Nat]]
        /\ placed' \in [Requests -> Clusters] /\ quiet' \in BOOLEAN
        /\ dropped' \subseteq Requests
    BY <1>3, <2>1, ArriveTypes DEF ForwardFails, TypeOK, history
  <2>3. req' \in [Requests ->
                   {"none", "admitted", "refused", "acked", "failed"}]
    BY <1>3 DEF ForwardFails, TypeOK
  <2>4. UNCHANGED <<hashVars, store, memberVars, migVars, hashRestarts,
                    memberRestarts>>
        /\ failures' \in Nat
    BY <1>3 DEF ForwardFails, TypeOK, faultVars
  <2> QED
    BY <2>2, <2>3, <2>4 DEF TypeOK, hashVars, memberVars, migVars
<1>4. ASSUME NEW r \in Requests, ForwardNowhere(r)
      PROVE  TypeOK'
  BY <1>4
     DEF ForwardNowhere, TypeOK, hashVars, dataVars, memberVars, migVars,
         history, faultVars
<1>5. ASSUME NEW c \in Clusters, NEW r \in Requests, ApplyProposal(c, r)
      PROVE  TypeOK'
  <2>1. Applied(c, r) \in [Requests -> Nat]
    BY DEF Applied, TypeOK
  <2>2. /\ store' \in [Clusters -> [Requests -> Nat]]
        /\ quiet' \in BOOLEAN
    BY <1>5, <2>1 DEF ApplyProposal, TypeOK
  <2>3. pending' \in [Clusters -> [Requests -> Nat]]
    BY <1>5 DEF ApplyProposal, TypeOK
  <2>4. UNCHANGED <<hashVars, req, memberVars, migVars, placed, dropped,
                    faultVars>>
    BY <1>5 DEF ApplyProposal
  <2> QED
    BY <2>2, <2>3, <2>4 DEF TypeOK, hashVars, memberVars, migVars, faultVars
<1>6. ASSUME NEW c \in Clusters, NEW r \in Requests, DropProposal(c, r)
      PROVE  TypeOK'
  <2>1. pending' \in [Clusters -> [Requests -> Nat]]
    BY <1>6 DEF DropProposal, TypeOK
  <2>2. /\ failures' \in Nat /\ dropped' \subseteq Requests /\ quiet' = FALSE
        /\ UNCHANGED <<hashVars, req, store, memberVars, migVars, placed,
                       hashRestarts, memberRestarts>>
    BY <1>6 DEF DropProposal, TypeOK
  <2> QED
    BY <2>1, <2>2 DEF TypeOK, hashVars, memberVars, migVars
<1>7. CASE StartMigration
  BY <1>7
     DEF StartMigration, TypeOK, hashVars, dataVars, memberVars, migVars,
         history, faultVars
<1>8. CASE DisableWrites
  BY <1>8
     DEF DisableWrites, TypeOK, hashVars, dataVars, memberVars, migVars,
         history, faultVars
<1>9. ASSUME NEW c \in Old, SendToCluster(c)
      PROVE  TypeOK'
  BY <1>9
     DEF SendToCluster, TypeOK, hashVars, dataVars, memberVars, migVars,
         history, faultVars
<1>10. CASE StartRetrieval
  BY <1>10
     DEF StartRetrieval, TypeOK, hashVars, dataVars, memberVars, migVars,
         history, faultVars
<1>11. ASSUME NEW c \in Old, GetRecord(c)
       PROVE  TypeOK'
  <2>1. /\ counter[c] \in Nat /\ domainNames[c] \in Seq(Names)
        /\ Keys(c) \in SUBSET Names
    BY KeysAreNames DEF TypeOK
  <2>2. /\ pending' \in [Clusters -> [Requests -> Nat]]
        /\ domainNames' \in [Old -> Seq(Names)]
        /\ wedged' \subseteq Old /\ counter' \in [Old -> Nat]
        /\ finished' \subseteq Old /\ mpc' \in {mpc, "fatal"}
    <3>1. CASE counter[c] >= Cardinality(Keys(c))
      BY <1>11, <3>1 DEF GetRecord, TypeOK
    <3>2. CASE ~(counter[c] >= Cardinality(Keys(c)))
      <4>1. PICK copy \in IF counter[c] = 0 THEN Orders(Keys(c)) ELSE {<<>>} :
              LET names   == domainNames[c] \o copy
                  inRange == counter[c] < Len(names)
              IN
              /\ domainNames' = [domainNames EXCEPT ![c] = names]
              /\ wedged' = IF inRange /\ c \notin configured
                           THEN wedged \cup {c} ELSE wedged
              /\ IF inRange /\ c \in configured
                 THEN TakeRecords(c, names[counter[c] + 1]) /\ UNCHANGED mpc
                 ELSE mpc' = "fatal" /\ UNCHANGED <<pending, counter>>
              /\ UNCHANGED finished
        BY <1>11, <3>2 DEF GetRecord
      <4>2. copy \in Seq(Names)
        <5>1. CASE counter[c] = 0
          BY <2>1, <5>1, OrdersList
        <5>2. CASE counter[c] # 0
          <6>1. copy = <<>>
            BY <5>2
          <6> QED
            BY <6>1
        <5> QED
          BY <5>1, <5>2
      <4>3. domainNames[c] \o copy \in Seq(Names)
        BY <2>1, <4>2
      <4>4. CASE UNCHANGED <<pending, counter>>
        BY <4>1, <4>3, <4>4 DEF TypeOK
      <4>5. ASSUME NEW name, TakeRecords(c, name)
            PROVE  /\ pending' \in [Clusters -> [Requests -> Nat]]
                   /\ counter' \in [Old -> Nat]
        BY <4>5 DEF TakeRecords, TypeOK, Clusters
      <4> QED
        BY <4>1, <4>3, <4>4, <4>5 DEF TypeOK
    <3> QED
      BY <3>1, <3>2
  <2> QED
    BY <1>11, <2>2 DEF GetRecord, TypeOK, hashVars, history, faultVars
<1>12. CASE EndRetrieval
  BY <1>12
     DEF EndRetrieval, TypeOK, hashVars, dataVars, memberVars, migVars,
         history, faultVars
<1>13. CASE SwitchHashServer
  BY <1>13
     DEF SwitchHashServer, TypeOK, hashVars, dataVars, memberVars, migVars,
         history, faultVars
<1>14. ASSUME NEW c \in Clusters, AddToRing(c)
       PROVE  TypeOK'
  BY <1>14
     DEF AddToRing, TypeOK, hashVars, dataVars, memberVars, migVars, history,
         faultVars
<1>15. CASE Switched
  BY <1>15
     DEF Switched, TypeOK, hashVars, dataVars, memberVars, migVars, history,
         faultVars
<1>16. CASE EnableWrites
  BY <1>16
     DEF EnableWrites, TypeOK, hashVars, dataVars, memberVars, migVars,
         history, faultVars
<1>17. CASE RequestFails
  BY <1>17
     DEF RequestFails, TypeOK, hashVars, dataVars, memberVars, migVars,
         history, faultVars
<1>18. CASE HashServerRestart
  BY <1>18
     DEF HashServerRestart, TypeOK, hashVars, dataVars, memberVars, migVars,
         history, faultVars
<1>19. ASSUME NEW c \in Old, MemberRestart(c)
       PROVE  TypeOK'
  BY <1>19
     DEF MemberRestart, TypeOK, hashVars, dataVars, memberVars, migVars,
         history, faultVars
<1>20. CASE UNCHANGED vars
  BY <1>20
     DEF vars, TypeOK, hashVars, dataVars, memberVars, migVars, history,
         faultVars
<1> QED
  BY <1>1, <1>2, <1>3, <1>4, <1>5, <1>6, <1>7, <1>8, <1>9, <1>10, <1>11, <1>12,
     <1>13, <1>14, <1>15, <1>16, <1>17, <1>18, <1>19, <1>20
     DEF Next, ClientStep, ClusterStep, MigrationStep

---------------------------------------------------------------------------
(* What clients can count on.                                              *)

\* Requests, stores and proposals are as they were.
LEMMA ClientKept ==
  ASSUME ClientInv, UNCHANGED <<req, store, pending, placed, dropped>>
  PROVE  ClientInv'
BY DEF ClientInv, UnsentInv, DeletesInv, OnlyOwnNames, AckedInv

\* The request that is in the hash server reaches a cluster (hash_server.go
\* forwards it once).
LEMMA ArriveClient ==
  ASSUME TypeOK, ClientInv, NEW c \in Clusters, NEW r \in Requests,
         req[r] = "admitted", Arrive(c, r), UNCHANGED store,
         req' = [req EXCEPT ![r] = "acked"]
         \/ req' = [req EXCEPT ![r] = "failed"]
  PROVE  ClientInv'
<1>1. /\ pending' \in [Clusters -> [Requests -> Nat]]
      /\ pending'[c][r] = pending[c][r] + 1
      /\ \A d \in Clusters, q \in Requests :
           d # c \/ q # r => pending'[d][q] = pending[d][q]
  BY ArriveTypes DEF Arrive, TypeOK
<1>2. /\ placed' \in [Requests -> Clusters]
      /\ \A q \in Requests : placed'[q] = IF q = r THEN c ELSE placed[q]
      /\ UNCHANGED <<store, dropped>>
  BY DEF Arrive, TypeOK
<1>3. /\ \A q \in Requests : q # r => req'[q] = req[q]
      /\ req'[r] \in {"acked", "failed"}
  BY DEF TypeOK
<1>4. \A d \in Clusters : store[d][r] = 0 /\ pending[d][r] = 0
  BY DEF ClientInv, UnsentInv
<1>5. New \in Clusters /\ \A d \in Clusters, q \in Requests :
                            store[d][q] \in Nat /\ pending[d][q] \in Nat
  BY DEF Clusters, TypeOK
<1>6. UnsentInv'
  <2>1. ASSUME NEW q \in Requests, NEW d \in Clusters,
               req'[q] \in {"none", "admitted", "refused"}
        PROVE  store'[d][q] = 0 /\ pending'[d][q] = 0
    <3>1. q # r /\ req'[q] = req[q]
      BY <1>3, <2>1
    <3>2. store[d][q] = 0 /\ pending[d][q] = 0
      BY <2>1, <3>1 DEF ClientInv, UnsentInv
    <3> QED
      BY <1>1, <1>2, <3>1, <3>2
  <2> QED
    BY <2>1 DEF UnsentInv
<1>7. DeletesInv'
  <2>1. DeletesInv
    BY DEF ClientInv
  <2> QED
    BY <1>2, <2>1 DEF DeletesInv
<1>8. OnlyOwnNames'
  BY <1>1, <1>2, <1>4, <1>5 DEF ClientInv, OnlyOwnNames
<1>9. AckedInv'
  <2>1. ASSUME NEW q \in Requests, q \notin Deletes \cup dropped,
               req'[q] = "acked", \A d \in Deletes : NameOf[d] # NameOf[q]
        PROVE  store[placed'[q]][q] + pending'[placed'[q]][q] > 0
    <3>1. CASE q = r
      BY <1>1, <1>2, <1>5, <3>1
    <3>2. CASE q # r
      <4>1. /\ placed'[q] = placed[q] /\ placed[q] \in Clusters
            /\ pending'[placed[q]][q] = pending[placed[q]][q]
            /\ store[placed[q]][q] + pending[placed[q]][q] > 0
        BY <1>1, <1>2, <1>3, <2>1, <3>2 DEF ClientInv, AckedInv, TypeOK
      <4> QED
        BY <4>1
    <3> QED
      BY <3>1, <3>2
  <2> QED
    BY <1>2, <2>1 DEF AckedInv
<1> QED
  BY <1>6, <1>7, <1>8, <1>9 DEF ClientInv

\* migrateDNS proposes to the new cluster the records of one name, if the new
\* cluster will own it: nothing disappears, and nothing that has not been sent
\* appears (dns.go:357-382).
LEMMA TakeClient ==
  ASSUME TypeOK, ClientInv, NEW c \in Old, NEW name, TakeRecords(c, name),
         UNCHANGED <<req, store, placed, dropped>>
  PROVE  ClientInv'
<1>1. /\ c \in Clusters /\ New \in Clusters
      /\ \A d \in Clusters, q \in Requests :
           store[d][q] \in Nat /\ pending[d][q] \in Nat
  BY DEF Clusters, TypeOK
<1>2. /\ \A q \in Requests :
           pending'[New][q] =
             IF ShouldMigrate(name) /\ NameOf[q] = name
             THEN pending[New][q] + store[c][q] ELSE pending[New][q]
      /\ \A d \in Clusters : d # New => pending'[d] = pending[d]
  BY <1>1 DEF TakeRecords, TypeOK
<1>3. UnsentInv'
  BY <1>1, <1>2 DEF ClientInv, UnsentInv
<1>4. DeletesInv'
  BY DEF ClientInv, DeletesInv
<1>5. OnlyOwnNames'
  BY <1>1, <1>2 DEF ClientInv, OnlyOwnNames, ShouldMigrate
<1>6. AckedInv'
  <2>1. \A d \in Clusters, q \in Requests :
          pending'[d][q] \in Nat /\ pending'[d][q] >= pending[d][q]
    BY <1>1, <1>2
  <2>2. ASSUME NEW q \in Requests,
               store[placed[q]][q] + pending[placed[q]][q] > 0
        PROVE  store[placed[q]][q] + pending'[placed[q]][q] > 0
    BY <1>1, <2>1, <2>2 DEF TypeOK
  <2> QED
    BY <2>2 DEF ClientInv, AckedInv
<1> QED
  BY <1>3, <1>4, <1>5, <1>6 DEF ClientInv

\* A proposal is applied: an add moves from the proposals to the store, a delete
\* removes the records of its own name only.
LEMMA ApplyClient ==
  ASSUME TypeOK, ClientInv, NEW c \in Clusters, NEW r \in Requests,
         ApplyProposal(c, r)
  PROVE  ClientInv'
<1>1. /\ pending[c][r] > 0
      /\ pending' = [pending EXCEPT ![c][r] = @ - 1]
      /\ store' = [store EXCEPT ![c] = Applied(c, r)]
      /\ UNCHANGED <<req, placed, dropped>>
  BY DEF ApplyProposal
<1>2. New \in Clusters /\ \A d \in Clusters, q \in Requests :
                            store[d][q] \in Nat /\ pending[d][q] \in Nat
  BY DEF Clusters, TypeOK
<1>3. /\ pending'[c][r] = pending[c][r] - 1
      /\ \A d \in Clusters, q \in Requests :
           d # c \/ q # r => pending'[d][q] = pending[d][q]
      /\ \A d \in Clusters : d # c => store'[d] = store[d]
  BY <1>1 DEF TypeOK
<1>4. \A q \in Requests :
        store'[c][q] = IF r \in Deletes
                       THEN IF NameOf[q] = NameOf[r] THEN 0 ELSE store[c][q]
                       ELSE IF q = r THEN store[c][q] + 1 ELSE store[c][q]
  BY <1>1 DEF Applied, TypeOK
<1>5. UnsentInv'
  BY <1>1, <1>2, <1>3, <1>4 DEF ClientInv, UnsentInv
<1>6. DeletesInv'
  BY <1>2, <1>3, <1>4, PlacementAssumption DEF ClientInv, DeletesInv
<1>7. OnlyOwnNames'
  <2>1. ASSUME NEW q \in Requests
        PROVE  store'[New][q] + pending'[New][q] > 0
                 => store[New][q] + pending[New][q] > 0
    BY <1>1, <1>2, <1>3, <1>4
  <2> QED
    BY <1>1, <2>1 DEF ClientInv, OnlyOwnNames
<1>8. AckedInv'
  <2>1. ASSUME NEW q \in Requests, NEW d \in Clusters,
               q \notin Deletes, \A e \in Deletes : NameOf[e] # NameOf[q],
               store[d][q] + pending[d][q] > 0
        PROVE  store'[d][q] + pending'[d][q] > 0
    BY <1>1, <1>2, <1>3, <1>4, <2>1
  <2> QED
    BY <1>1, <2>1 DEF ClientInv, AckedInv, TypeOK
<1> QED
  BY <1>5, <1>6, <1>7, <1>8 DEF ClientInv

\* No step of a client, a cluster, migrateDNS or a failure takes an acknowledged
\* record away, or brings the new cluster a record of another's name.
LEMMA ClientInvKept ==
  ASSUME TypeOK, ClientInv, [Next]_vars
  PROVE  ClientInv'
<1>1. ASSUME NEW r \in Requests, Admit(r)
      PROVE  ClientInv'
  BY <1>1
     DEF Admit, TypeOK, dataVars, history, ClientInv, UnsentInv, DeletesInv,
         OnlyOwnNames, AckedInv
<1>2. ASSUME NEW r \in Requests, Forward(r)
      PROVE  ClientInv'
  <2>1. Located(NameOf[r]) \subseteq Clusters
    BY PlacementAssumption, LocatedInClusters
  <2> QED
    BY <1>2, <2>1, ArriveClient DEF Forward
<1>3. ASSUME NEW r \in Requests, ForwardFails(r)
      PROVE  ClientInv'
  <2>1. Located(NameOf[r]) \subseteq Clusters
    BY PlacementAssumption, LocatedInClusters
  <2>2. CASE UNCHANGED <<pending, history>>
    BY <1>3, <2>2 DEF ForwardFails, TypeOK, history,
       ClientInv, UnsentInv, DeletesInv, OnlyOwnNames, AckedInv
  <2>3. ASSUME NEW c \in Located(NameOf[r]), Arrive(c, r)
        PROVE  ClientInv'
    BY <1>3, <2>1, <2>3, ArriveClient DEF ForwardFails
  <2> QED
    BY <1>3, <2>2, <2>3 DEF ForwardFails
<1>4. ASSUME NEW r \in Requests, ForwardNowhere(r)
      PROVE  ClientInv'
  BY <1>4
     DEF ForwardNowhere, TypeOK, dataVars, history, ClientInv, UnsentInv,
         DeletesInv, OnlyOwnNames, AckedInv
<1>5. ASSUME NEW c \in Clusters, NEW r \in Requests, ApplyProposal(c, r)
      PROVE  ClientInv'
  BY <1>5, ApplyClient
<1>6. ASSUME NEW c \in Clusters, NEW r \in Requests, DropProposal(c, r)
      PROVE  ClientInv'
  <2>1. /\ pending[c][r] > 0 /\ pending'[c][r] = pending[c][r] - 1
        /\ \A d \in Clusters, q \in Requests :
             d # c \/ q # r => pending'[d][q] = pending[d][q]
        /\ UNCHANGED <<req, store, placed>> /\ dropped' = dropped \cup {r}
    BY <1>6 DEF DropProposal, TypeOK
  <2>2. New \in Clusters /\ \A d \in Clusters, q \in Requests :
                              store[d][q] \in Nat /\ pending[d][q] \in Nat
    BY DEF Clusters, TypeOK
  <2>3. UnsentInv' /\ DeletesInv'
    BY <2>1, <2>2 DEF ClientInv, UnsentInv, DeletesInv
  <2>4. OnlyOwnNames'
    BY <2>1, <2>2 DEF ClientInv, OnlyOwnNames
  <2>5. AckedInv'
    BY <2>1 DEF ClientInv, AckedInv, TypeOK
  <2> QED
    BY <2>3, <2>4, <2>5 DEF ClientInv
<1>7. CASE StartMigration
  BY <1>7, ClientKept DEF StartMigration, dataVars, history
<1>8. CASE DisableWrites
  BY <1>8, ClientKept DEF DisableWrites, dataVars, history
<1>9. ASSUME NEW c \in Old, SendToCluster(c)
      PROVE  ClientInv'
  BY <1>9, ClientKept DEF SendToCluster, dataVars, history
<1>10. CASE StartRetrieval
  BY <1>10, ClientKept DEF StartRetrieval, dataVars, history
<1>11. ASSUME NEW c \in Old, GetRecord(c)
       PROVE  ClientInv'
  <2>1. /\ UNCHANGED <<req, store, placed, dropped>>
        /\ UNCHANGED pending \/ \E name : TakeRecords(c, name)
    BY <1>11 DEF GetRecord, history
  <2> QED
    BY <2>1, ClientKept, TakeClient
<1>12. CASE EndRetrieval
  BY <1>12, ClientKept DEF EndRetrieval, dataVars, history
<1>13. CASE SwitchHashServer
  BY <1>13, ClientKept DEF SwitchHashServer, dataVars, history
<1>14. ASSUME NEW c \in Clusters, AddToRing(c)
       PROVE  ClientInv'
  BY <1>14, ClientKept DEF AddToRing, dataVars, history
<1>15. CASE Switched
  BY <1>15, ClientKept DEF Switched, dataVars, history
<1>16. CASE EnableWrites
  BY <1>16, ClientKept DEF EnableWrites, dataVars, history
<1>17. CASE RequestFails
  BY <1>17, ClientKept DEF RequestFails, dataVars, history
<1>18. CASE HashServerRestart
  BY <1>18
     DEF HashServerRestart, TypeOK, dataVars, history, ClientInv, UnsentInv,
         DeletesInv, OnlyOwnNames, AckedInv
<1>19. ASSUME NEW c \in Old, MemberRestart(c)
       PROVE  ClientInv'
  BY <1>19, ClientKept DEF MemberRestart, dataVars, history
<1>20. CASE UNCHANGED vars
  BY <1>20, ClientKept DEF vars, dataVars, history
<1> QED
  BY <1>1, <1>2, <1>3, <1>4, <1>5, <1>6, <1>7, <1>8, <1>9, <1>10, <1>11, <1>12,
     <1>13, <1>14, <1>15, <1>16, <1>17, <1>18, <1>19, <1>20
     DEF Next, ClientStep, ClusterStep, MigrationStep

---------------------------------------------------------------------------
(* The way to a quiet migration's copy.                                    *)

\* Until the first retrieval the new cluster has nothing.
LEMMA FreshKept ==
  ASSUME TypeOK, FreshInv, [Next]_vars
  PROVE  FreshInv'
<1>1. ASSUME NEW r \in Requests, Admit(r)
      PROVE  FreshInv'
  BY <1>1, PlacementAssumption
     DEF Admit, FreshInv, Beginning, TypeOK, Clusters, hashVars, dataVars,
         memberVars, migVars, history, faultVars
<1>2. ASSUME NEW r \in Requests, Forward(r)
      PROVE  FreshInv'
  <2>1. ASSUME Beginning, NEW c \in Located(NameOf[r]), Arrive(c, r)
        PROVE  pending'[New] = pending[New]
    <3>1. c = Before[NameOf[r]]
      BY <2>1 DEF FreshInv, Located
    <3>2. c # New /\ New \in Clusters
      BY <3>1, PlacementAssumption DEF Clusters
    <3> QED
      BY <2>1, <3>2 DEF Arrive, TypeOK
  <2>2. UNCHANGED <<hashVars, store, memberVars, migVars>>
        /\ (Beginning => pending'[New] = pending[New])
    BY <1>2, <2>1 DEF Forward
  <2> QED
    BY <2>2 DEF FreshInv, Beginning, hashVars, memberVars, migVars
<1>3. ASSUME NEW r \in Requests, ForwardFails(r)
      PROVE  FreshInv'
  <2>1. ASSUME Beginning, NEW c \in Located(NameOf[r]), Arrive(c, r)
        PROVE  pending'[New] = pending[New]
    <3>1. c = Before[NameOf[r]]
      BY <2>1 DEF FreshInv, Located
    <3>2. c # New /\ New \in Clusters
      BY <3>1, PlacementAssumption DEF Clusters
    <3> QED
      BY <2>1, <3>2 DEF Arrive, TypeOK
  <2>2. UNCHANGED <<hashVars, store, memberVars, migVars>>
        /\ (Beginning => pending'[New] = pending[New])
    BY <1>3, <2>1 DEF ForwardFails
  <2> QED
    BY <2>2 DEF FreshInv, Beginning, hashVars, memberVars, migVars
<1>4. ASSUME NEW r \in Requests, ForwardNowhere(r)
      PROVE  FreshInv'
  BY <1>4, PlacementAssumption
     DEF ForwardNowhere, FreshInv, Beginning, TypeOK, Clusters, hashVars,
         dataVars, memberVars, migVars, history, faultVars
<1>5. ASSUME NEW c \in Clusters, NEW r \in Requests, ApplyProposal(c, r)
      PROVE  FreshInv'
  BY <1>5, PlacementAssumption
     DEF ApplyProposal, Applied, FreshInv, Beginning, TypeOK, Clusters,
         hashVars, dataVars, memberVars, migVars, history, faultVars
<1>6. ASSUME NEW c \in Clusters, NEW r \in Requests, DropProposal(c, r)
      PROVE  FreshInv'
  BY <1>6, PlacementAssumption
     DEF DropProposal, FreshInv, Beginning, TypeOK, Clusters, hashVars,
         dataVars, memberVars, migVars, history, faultVars
<1>7. CASE StartMigration
  BY <1>7, PlacementAssumption
     DEF StartMigration, FreshInv, Beginning, TypeOK, Clusters, hashVars,
         dataVars, memberVars, migVars, history, faultVars
<1>8. CASE DisableWrites
  BY <1>8, PlacementAssumption
     DEF DisableWrites, FreshInv, Beginning, TypeOK, Clusters, hashVars,
         dataVars, memberVars, migVars, history, faultVars
<1>9. ASSUME NEW c \in Old, SendToCluster(c)
      PROVE  FreshInv'
  BY <1>9, PlacementAssumption
     DEF SendToCluster, FreshInv, Beginning, TypeOK, Clusters, hashVars,
         dataVars, memberVars, migVars, history, faultVars
<1>10. CASE StartRetrieval
  BY <1>10, PlacementAssumption
     DEF StartRetrieval, FreshInv, Beginning, TypeOK, Clusters, hashVars,
         dataVars, memberVars, migVars, history, faultVars
<1>11. ASSUME NEW c \in Old, GetRecord(c)
       PROVE  FreshInv'
  BY <1>11, PlacementAssumption
     DEF GetRecord, FreshInv, Beginning, TypeOK, Clusters, hashVars, dataVars,
         memberVars, migVars, history, faultVars
<1>12. CASE EndRetrieval
  BY <1>12, PlacementAssumption
     DEF EndRetrieval, FreshInv, Beginning, TypeOK, Clusters, hashVars,
         dataVars, memberVars, migVars, history, faultVars
<1>13. CASE SwitchHashServer
  BY <1>13, PlacementAssumption
     DEF SwitchHashServer, FreshInv, Beginning, TypeOK, Clusters, hashVars,
         dataVars, memberVars, migVars, history, faultVars
<1>14. ASSUME NEW c \in Clusters, AddToRing(c)
       PROVE  FreshInv'
  BY <1>14, PlacementAssumption
     DEF AddToRing, FreshInv, Beginning, TypeOK, Clusters, hashVars, dataVars,
         memberVars, migVars, history, faultVars
<1>15. CASE Switched
  BY <1>15, PlacementAssumption
     DEF Switched, FreshInv, Beginning, TypeOK, Clusters, hashVars, dataVars,
         memberVars, migVars, history, faultVars
<1>16. CASE EnableWrites
  BY <1>16, PlacementAssumption
     DEF EnableWrites, FreshInv, Beginning, TypeOK, Clusters, hashVars,
         dataVars, memberVars, migVars, history, faultVars
<1>17. CASE RequestFails
  BY <1>17, PlacementAssumption
     DEF RequestFails, FreshInv, Beginning, TypeOK, Clusters, hashVars,
         dataVars, memberVars, migVars, history, faultVars
<1>18. CASE HashServerRestart
  BY <1>18, PlacementAssumption
     DEF HashServerRestart, FreshInv, Beginning, TypeOK, Clusters, hashVars,
         dataVars, memberVars, migVars, history, faultVars
<1>19. ASSUME NEW c \in Old, MemberRestart(c)
       PROVE  FreshInv'
  BY <1>19, PlacementAssumption
     DEF MemberRestart, FreshInv, Beginning, TypeOK, Clusters, hashVars,
         dataVars, memberVars, migVars, history, faultVars
<1>20. CASE UNCHANGED vars
  BY <1>20, PlacementAssumption
     DEF vars, FreshInv, Beginning, TypeOK, Clusters, hashVars, dataVars,
         memberVars, migVars, history, faultVars
<1> QED
  BY <1>1, <1>2, <1>3, <1>4, <1>5, <1>6, <1>7, <1>8, <1>9, <1>10, <1>11, <1>12,
     <1>13, <1>14, <1>15, <1>16, <1>17, <1>18, <1>19, <1>20
     DEF Next, ClientStep, ClusterStep, MigrationStep

\* Before the first retrieval the hash server still has its first ring, and so
\* forwards a write to the cluster that is to have the records of its name.
LEMMA ArrivesHome ==
  ASSUME TypeOK, FreshInv,
         NEW r \in Requests, NEW c \in Located(NameOf[r]), Arrive(c, r)
  PROVE  /\ ~Quiet'
         /\ Beginning => \A e \in Old, q \in Requests :
              pending'[e][q] > 0 => pending[e][q] > 0
                                    \/ e = Before[NameOf[q]]
<1>1. ~Quiet'
  BY DEF Arrive, Quiet
<1>2. ASSUME Beginning PROVE c = Before[NameOf[r]]
  <2>1. table = Before /\ missing = {}
    BY <1>2 DEF FreshInv
  <2> QED
    BY <2>1 DEF Located
<1>3. pending' = [pending EXCEPT ![c][r] = @ + 1]
  BY DEF Arrive
<1>4. ASSUME NEW e \in Old, NEW q \in Requests, ~(e = c /\ q = r)
      PROVE  pending'[e][q] = pending[e][q]
  <2>1. e \in Clusters /\ pending \in [Clusters -> [Requests -> Nat]]
    BY DEF TypeOK, Clusters
  <2> QED
    BY <1>3, <1>4, <2>1
<1>5. ASSUME Beginning, NEW e \in Old, NEW q \in Requests,
             pending'[e][q] > 0
      PROVE  pending[e][q] > 0 \/ e = Before[NameOf[q]]
  BY <1>2, <1>4, <1>5
<1> QED
  BY <1>1, <1>5

\* No second old cluster gets records of a name.
LEMMA HomeKept ==
  ASSUME TypeOK, FreshInv, HomeInv, [Next]_vars
  PROVE  HomeInv'
<1>1. ASSUME NEW r \in Requests, Admit(r)
      PROVE  HomeInv'
  BY <1>1
     DEF Admit, HomeInv, FreshInv, Beginning, Quiet, TypeOK, hashVars,
         dataVars, memberVars, migVars, history, faultVars
<1>2. ASSUME NEW r \in Requests, Forward(r)
      PROVE  HomeInv'
  <2>1. ASSUME NEW c \in Located(NameOf[r]), Arrive(c, r)
        PROVE  /\ ~Quiet'
               /\ Beginning => \A e \in Old, q \in Requests :
                    pending'[e][q] > 0 => pending[e][q] > 0
                                          \/ e = Before[NameOf[q]]
    BY <2>1, ArrivesHome
  <2>2. /\ UNCHANGED <<store, migVars>>
        /\ \/ UNCHANGED <<pending, quiet>>
           \/ \E c \in Located(NameOf[r]) : Arrive(c, r)
    BY <1>2 DEF Forward, history
  <2> QED
    BY <2>1, <2>2 DEF HomeInv, Beginning, Quiet, migVars
<1>3. ASSUME NEW r \in Requests, ForwardFails(r)
      PROVE  HomeInv'
  <2>1. ASSUME NEW c \in Located(NameOf[r]), Arrive(c, r)
        PROVE  /\ ~Quiet'
               /\ Beginning => \A e \in Old, q \in Requests :
                    pending'[e][q] > 0 => pending[e][q] > 0
                                          \/ e = Before[NameOf[q]]
    BY <2>1, ArrivesHome
  <2>2. /\ UNCHANGED <<store, migVars>>
        /\ \/ UNCHANGED <<pending, quiet>>
           \/ \E c \in Located(NameOf[r]) : Arrive(c, r)
    BY <1>3 DEF ForwardFails, history
  <2> QED
    BY <2>1, <2>2 DEF HomeInv, Beginning, Quiet, migVars
<1>4. ASSUME NEW r \in Requests, ForwardNowhere(r)
      PROVE  HomeInv'
  BY <1>4
     DEF ForwardNowhere, HomeInv, FreshInv, Beginning, Quiet, TypeOK, hashVars,
         dataVars, memberVars, migVars, history, faultVars
<1>5. ASSUME NEW c \in Clusters, NEW r \in Requests, ApplyProposal(c, r)
      PROVE  HomeInv'
  <2>1. ASSUME NEW e \in Old, NEW q \in Requests, Beginning \/ Quiet',
               store'[e][q] > 0 \/ (Beginning /\ pending'[e][q] > 0)
        PROVE  store[e][q] > 0 \/ (Beginning /\ pending[e][q] > 0)
    <3>1. CASE e = c
      <4>1. Beginning /\ pending[c][r] > 0 /\ c # New
        BY <1>5, <2>1, <3>1, PlacementAssumption
           DEF ApplyProposal, Quiet
      <4>2. /\ store'[c] = Applied(c, r)
            /\ pending'[c][q] = IF q = r THEN pending[c][r] - 1
                                ELSE pending[c][q]
        BY <1>5 DEF ApplyProposal, TypeOK
      <4>3. Applied(c, r)[q] \in {0, store[c][q]} \/ q = r
        BY <1>5 DEF Applied, TypeOK
      <4>4. CASE q = r
        BY <3>1, <4>1, <4>4
      <4>5. CASE q # r
        <5>1. store'[c][q] > 0 => store[c][q] > 0
          BY <4>2, <4>3, <4>5
        <5>2. pending'[c][q] > 0 => pending[c][q] > 0
          BY <4>2, <4>5
        <5> QED
          BY <2>1, <3>1, <5>1, <5>2
      <4> QED
        BY <4>4, <4>5
    <3>2. CASE e # c
      BY <1>5, <2>1, <3>2 DEF ApplyProposal, TypeOK, Clusters
    <3> QED
      BY <3>1, <3>2
  <2>2. (Beginning' => Beginning) /\ (Quiet' => Quiet)
    BY <1>5 DEF ApplyProposal, Beginning, Quiet, migVars
  <2>3. Beginning <=> Beginning'
    BY <1>5 DEF ApplyProposal, Beginning, migVars
  <2> QED
    BY <2>1, <2>2, <2>3 DEF HomeInv
<1>6. ASSUME NEW c \in Clusters, NEW r \in Requests, DropProposal(c, r)
      PROVE  HomeInv'
  BY <1>6
     DEF DropProposal, HomeInv, FreshInv, Beginning, Quiet, TypeOK, hashVars,
         dataVars, memberVars, migVars, history, faultVars
<1>7. CASE StartMigration
  BY <1>7
     DEF StartMigration, HomeInv, FreshInv, Beginning, Quiet, TypeOK, hashVars,
         dataVars, memberVars, migVars, history, faultVars
<1>8. CASE DisableWrites
  BY <1>8
     DEF DisableWrites, HomeInv, FreshInv, Beginning, Quiet, TypeOK, hashVars,
         dataVars, memberVars, migVars, history, faultVars
<1>9. ASSUME NEW c \in Old, SendToCluster(c)
      PROVE  HomeInv'
  BY <1>9
     DEF SendToCluster, HomeInv, FreshInv, Beginning, Quiet, TypeOK, hashVars,
         dataVars, memberVars, migVars, history, faultVars
<1>10. CASE StartRetrieval
  BY <1>10
     DEF StartRetrieval, HomeInv, FreshInv, Beginning, Quiet, TypeOK, hashVars,
         dataVars, memberVars, migVars, history, faultVars
<1>11. ASSUME NEW c \in Old, GetRecord(c)
       PROVE  HomeInv'
  BY <1>11
     DEF GetRecord, TakeRecords, HomeInv, FreshInv, Beginning, Quiet, TypeOK,
         hashVars, dataVars, memberVars, migVars, history, faultVars
<1>12. CASE EndRetrieval
  BY <1>12
     DEF EndRetrieval, HomeInv, FreshInv, Beginning, Quiet, TypeOK, hashVars,
         dataVars, memberVars, migVars, history, faultVars
<1>13. CASE SwitchHashServer
  BY <1>13
     DEF SwitchHashServer, HomeInv, FreshInv, Beginning, Quiet, TypeOK,
         hashVars, dataVars, memberVars, migVars, history, faultVars
<1>14. ASSUME NEW c \in Clusters, AddToRing(c)
       PROVE  HomeInv'
  BY <1>14
     DEF AddToRing, HomeInv, FreshInv, Beginning, Quiet, TypeOK, hashVars,
         dataVars, memberVars, migVars, history, faultVars
<1>15. CASE Switched
  BY <1>15
     DEF Switched, HomeInv, FreshInv, Beginning, Quiet, TypeOK, hashVars,
         dataVars, memberVars, migVars, history, faultVars
<1>16. CASE EnableWrites
  BY <1>16
     DEF EnableWrites, HomeInv, FreshInv, Beginning, Quiet, TypeOK, hashVars,
         dataVars, memberVars, migVars, history, faultVars
<1>17. CASE RequestFails
  BY <1>17
     DEF RequestFails, HomeInv, FreshInv, Beginning, Quiet, TypeOK, hashVars,
         dataVars, memberVars, migVars, history, faultVars
<1>18. CASE HashServerRestart
  BY <1>18
     DEF HashServerRestart, HomeInv, FreshInv, Beginning, Quiet, TypeOK,
         hashVars, dataVars, memberVars, migVars, history, faultVars
<1>19. ASSUME NEW c \in Old, MemberRestart(c)
       PROVE  HomeInv'
  BY <1>19
     DEF MemberRestart, HomeInv, FreshInv, Beginning, Quiet, TypeOK, hashVars,
         dataVars, memberVars, migVars, history, faultVars
<1>20. CASE UNCHANGED vars
  BY <1>20
     DEF vars, HomeInv, FreshInv, Beginning, Quiet, TypeOK, hashVars, dataVars,
         memberVars, migVars, history, faultVars
<1> QED
  BY <1>1, <1>2, <1>3, <1>4, <1>5, <1>6, <1>7, <1>8, <1>9, <1>10, <1>11, <1>12,
     <1>13, <1>14, <1>15, <1>16, <1>17, <1>18, <1>19, <1>20
     DEF Next, ClientStep, ClusterStep, MigrationStep

\* The keys of a map can be copied in some order.
LEMMA OrderExists ==
  ASSUME NEW S \in SUBSET Names
  PROVE  \E o : o \in Orders(S)
<1>1. ExistsBijection(1 .. Cardinality(S), S)
  BY PlacementAssumption, FS_Subset, FS_CardinalityType
<1> QED
  BY <1>1 DEF ExistsBijection, Orders

\* The retrieval begins with nothing copied.
LEMMA RetrievalBegins ==
  ASSUME TypeOK, FreshInv, StartRetrieval
  PROVE  QuietInv'
<1> SUFFICES ASSUME Quiet', NEW c \in Old
             PROVE  \E o \in Orders(Keys(c)') : CopiedFrom(c, o)'
  BY DEF QuietInv, StartRetrieval
<1>1. Beginning
  <2>1. quiet'
    BY DEF Quiet
  <2>2. attempts = 1 /\ mpc = "config"
    BY <2>1 DEF StartRetrieval
  <2> QED
    BY <2>2 DEF Beginning
<1>2. /\ \A r \in Requests : store'[New][r] = 0 /\ pending'[New][r] = 0
      /\ domainNames'[c] = <<>> /\ counter'[c] = 0 /\ finished' = {}
  BY <1>1 DEF StartRetrieval, FreshInv, dataVars, memberVars
<1>3. Keys(c)' = Keys(c) /\ Keys(c) \in SUBSET Names
  BY KeysAreNames DEF StartRetrieval, dataVars, Keys
<1>4. PICK o : o \in Orders(Keys(c))
  BY <1>3, OrderExists
<1>5. Cardinality(Keys(c)) \in Nat
  BY <1>3, <1>4, OrdersList
<1>6. CopiedFrom(c, o)'
  BY <1>2, <1>3, <1>5 DEF CopiedFrom, Taken
<1> QED
  BY <1>3, <1>4, <1>6

\* The goroutine of cluster c has its counter moved on, past one name: that
\* name's records, and no others, come to the new cluster.
LEMMA RecordsTaken ==
  ASSUME TypeOK, HomeInv, QuietInv, Quiet, NEW c \in Old,
         NEW o \in Orders(Keys(c)), CopiedFrom(c, o),
         counter[c] < Cardinality(Keys(c)),
         TakeRecords(c, o[counter[c] + 1]),
         domainNames' = [domainNames EXCEPT ![c] = o],
         UNCHANGED <<store, finished, mpc, quiet>>
  PROVE  QuietInv'
<1> DEFINE name == o[counter[c] + 1]
<1>1. Keys(c) \in SUBSET Names
  BY KeysAreNames
<1>2. /\ Cardinality(Keys(c)) \in Nat
      /\ \A i \in 1 .. Cardinality(Keys(c)) : o[i] \in Keys(c)
      /\ \A i, j \in 1 .. Cardinality(Keys(c)) : o[i] = o[j] => i = j
  BY <1>1, OrdersList
<1>3. counter[c] \in Nat /\ counter[c] + 1 \in 1 .. Cardinality(Keys(c))
  BY <1>2 DEF TypeOK
<1>4. /\ counter' = [counter EXCEPT ![c] = @ + 1]
      /\ \A r \in Requests :
           pending'[New][r] =
             IF After[name] = New /\ NameOf[r] = name
             THEN pending[New][r] + store[c][r] ELSE pending[New][r]
  BY DEF TakeRecords, ShouldMigrate, TypeOK, Clusters
<1>5. Before[name] = c
  <2>1. name \in Keys(c)
    BY <1>2, <1>3
  <2> QED
    BY <2>1 DEF Keys, HomeInv
<1>6. \A r \in Requests : /\ store[New][r] \in Nat /\ pending[New][r] \in Nat
                          /\ store[c][r] \in Nat
  BY DEF TypeOK, Clusters
<1> HIDE DEF name
<1>7. \A d \in Old : Keys(d)' = Keys(d)
  BY DEF Keys
<1>8. CopiedFrom(c, o)'
  <2>1. ASSUME NEW n
        PROVE  Taken(c, o, n)' <=> Taken(c, o, n) \/ n = name
    <3>1. counter'[c] = counter[c] + 1
      BY <1>4 DEF TypeOK
    <3>2. \A i : i \in 1 .. counter'[c] <=>
                   i \in 1 .. counter[c] \/ i = counter[c] + 1
      BY <1>3, <3>1
    <3> QED
      BY <3>2 DEF Taken, name
  <2>2. ~Taken(c, o, name)
    BY <1>2, <1>3 DEF Taken, name
  <2>3. ASSUME NEW r \in Requests, Before[NameOf[r]] = c
        PROVE  store'[New][r] + pending'[New][r] =
                 IF After[NameOf[r]] = New /\ Taken(c, o, NameOf[r])'
                 THEN store'[c][r] ELSE 0
    <3>1. store[New][r] + pending[New][r] =
            IF After[NameOf[r]] = New /\ Taken(c, o, NameOf[r])
            THEN store[c][r] ELSE 0
      BY <2>3 DEF CopiedFrom
    <3>2. CASE NameOf[r] = name
      BY <1>4, <1>6, <2>1, <2>2, <3>1, <3>2
    <3>3. CASE NameOf[r] # name
      BY <1>4, <1>6, <2>1, <3>1, <3>3
    <3> QED
      BY <3>2, <3>3
  <2>4. counter'[c] = counter[c] + 1 /\ domainNames'[c] = o
    BY <1>4 DEF TypeOK
  <2>5. c \notin finished
    BY <1>2, <1>3 DEF CopiedFrom
  <2> QED
    BY <1>3, <1>7, <2>3, <2>4, <2>5 DEF CopiedFrom
<1>9. ASSUME NEW d \in Old, d # c, NEW p, CopiedFrom(d, p)
      PROVE  CopiedFrom(d, p)'
  <2>1. counter'[d] = counter[d] /\ domainNames'[d] = domainNames[d]
    BY <1>4, <1>9 DEF TypeOK
  <2>2. ASSUME NEW r \in Requests, Before[NameOf[r]] = d
        PROVE  pending'[New][r] = pending[New][r]
    BY <1>4, <1>5, <1>9, <2>2
  <2> QED
    BY <1>7, <1>9, <2>1, <2>2 DEF CopiedFrom, Taken
<1> QED
  BY <1>7, <1>8, <1>9 DEF QuietInv, Quiet

\* GET /getrecord (httpapi.go:226-286) and what the goroutine does with the
\* answer (dns.go:337-382).
LEMMA GetRecordQuiet ==
  ASSUME TypeOK, HomeInv, QuietInv, NEW c \in Old, GetRecord(c)
  PROVE  QuietInv'
<1> SUFFICES ASSUME Quiet' PROVE QuietInv'
  BY DEF QuietInv
<1>1. /\ mpc = "retrieve" /\ c \notin finished
      /\ UNCHANGED <<store, quiet>>
  BY DEF GetRecord, history
<1>2. Quiet /\ mpc' = "retrieve"
  BY <1>1 DEF GetRecord, Quiet
<1>3. Keys(c) \in SUBSET Names /\ counter[c] \in Nat
  BY KeysAreNames DEF TypeOK
<1>4. PICK o \in Orders(Keys(c)) : CopiedFrom(c, o)
  BY <1>2 DEF QuietInv
<1>5. Cardinality(Keys(c)) \in Nat /\ o \in Seq(Names)
      /\ Len(o) = Cardinality(Keys(c))
  BY <1>3, OrdersList
<1>6. CASE counter[c] >= Cardinality(Keys(c))
  <2>1. /\ finished' = finished \cup {c}
        /\ UNCHANGED <<pending, domainNames, counter>>
    BY <1>6 DEF GetRecord
  <2>2. \A d \in Old : Keys(d)' = Keys(d)
    BY <1>1 DEF Keys
  <2>3. counter[c] = Cardinality(Keys(c))
    BY <1>3, <1>4, <1>5, <1>6 DEF CopiedFrom
  <2>4. ASSUME NEW d \in Old, NEW p \in Orders(Keys(d)), CopiedFrom(d, p)
        PROVE  CopiedFrom(d, p)'
    BY <1>1, <2>1, <2>2, <2>3, <2>4 DEF CopiedFrom, Taken
  <2> QED
    BY <1>2, <2>2, <2>4 DEF QuietInv
<1>7. CASE counter[c] < Cardinality(Keys(c))
  <2>1. PICK copy \in IF counter[c] = 0 THEN Orders(Keys(c)) ELSE {<<>>} :
          /\ domainNames' = [domainNames EXCEPT ![c] = domainNames[c] \o copy]
          /\ IF /\ counter[c] < Len(domainNames[c] \o copy)
                /\ c \in configured
             THEN TakeRecords(c, (domainNames[c] \o copy)[counter[c] + 1])
             ELSE mpc' = "fatal"
          /\ UNCHANGED finished
    <3>1. ~(counter[c] >= Cardinality(Keys(c)))
      BY <1>3, <1>5, <1>7
    <3> QED
      BY <3>1 DEF GetRecord
  <2>2. /\ counter[c] < Len(domainNames[c] \o copy)
        /\ TakeRecords(c, (domainNames[c] \o copy)[counter[c] + 1])
    BY <1>2, <2>1
  <2>3. CASE counter[c] = 0
    <3>1. copy \in Orders(Keys(c)) /\ domainNames[c] = <<>>
      BY <1>4, <2>1, <2>3 DEF CopiedFrom
    <3>2. domainNames[c] \o copy = copy
      BY <1>3, <3>1, OrdersList
    <3>3. CopiedFrom(c, copy)
      BY <1>4, <2>3, <3>1 DEF CopiedFrom, Taken
    <3> QED
      BY <1>1, <1>2, <1>7, <2>1, <2>2, <3>1, <3>2, <3>3, RecordsTaken
  <2>4. CASE counter[c] # 0
    <3>1. copy = <<>>
      BY <2>1, <2>4
    <3>2. domainNames[c] = o
      <4>1. CASE domainNames[c] = <<>>
        <5>1. Len(domainNames[c] \o copy) = 0
          BY <3>1, <4>1
        <5> QED
          BY <1>3, <2>2, <5>1
      <4> QED
        BY <1>4, <4>1 DEF CopiedFrom
    <3>3. domainNames[c] \o copy = o
      BY <1>5, <3>1, <3>2
    <3> QED
      BY <1>1, <1>2, <1>4, <1>7, <2>1, <2>2, <3>3, RecordsTaken
  <2> QED
    BY <2>3, <2>4
<1> QED
  BY <1>3, <1>5, <1>6, <1>7

\* In a quiet migration a proposal that arrives at the new cluster is an add.
LEMMA ApplyQuiet ==
  ASSUME TypeOK, DeletesInv, QuietInv, NEW c \in Clusters, NEW r \in Requests,
         ApplyProposal(c, r)
  PROVE  QuietInv'
<1> SUFFICES ASSUME Quiet' PROVE QuietInv'
  BY DEF QuietInv
<1>1. /\ Quiet /\ c = New
      /\ UNCHANGED <<mpc, counter, finished, domainNames>>
  BY DEF ApplyProposal, Quiet, migVars, memberVars
<1>2. /\ pending[New][r] > 0
      /\ pending' = [pending EXCEPT ![New][r] = @ - 1]
      /\ store' = [store EXCEPT ![New] = Applied(New, r)]
  BY <1>1 DEF ApplyProposal
<1>3. /\ New \in Clusters /\ New \notin Old /\ Old \subseteq Clusters
      /\ \A q \in Requests : store[New][q] \in Nat /\ pending[New][q] \in Nat
  BY PlacementAssumption DEF Clusters, TypeOK
<1>4. r \notin Deletes
  <2>1. SUFFICES ASSUME r \in Deletes PROVE FALSE
    OBVIOUS
  <2>2. Before[NameOf[r]] \in Old
    BY PlacementAssumption
  <2>3. PICK o : CopiedFrom(Before[NameOf[r]], o)
    BY <1>1, <2>2 DEF QuietInv
  <2>4. store[New][r] + pending[New][r] = 0
    BY <1>3, <2>1, <2>2, <2>3 DEF CopiedFrom, DeletesInv
  <2> QED
    BY <1>2, <1>3, <2>4
<1>5. \A q \in Requests :
        /\ store'[New][q] = IF q = r THEN store[New][q] + 1 ELSE store[New][q]
        /\ pending'[New][q] =
             IF q = r THEN pending[New][q] - 1 ELSE pending[New][q]
  BY <1>2, <1>3, <1>4 DEF Applied, TypeOK
<1>6. \A d \in Old : store'[d] = store[d]
  BY <1>2, <1>3
<1>7. \A q \in Requests :
        store'[New][q] + pending'[New][q] = store[New][q] + pending[New][q]
  BY <1>3, <1>5
<1> QED
  BY <1>1, <1>6, <1>7, QuietKept

\* What a quiet migration has copied stays what its counters say.
LEMMA QuietInvKept ==
  ASSUME TypeOK, DeletesInv, FreshInv, HomeInv, QuietInv, [Next]_vars
  PROVE  QuietInv'
<1>1. ASSUME NEW r \in Requests, Admit(r)
      PROVE  QuietInv'
  BY <1>1, QuietKept
     DEF Admit, Quiet, QuietInv, hashVars, dataVars, memberVars, migVars,
         history, faultVars
<1>2. ASSUME NEW r \in Requests, Forward(r)
      PROVE  QuietInv'
  <2>1. ASSUME NEW c \in Located(NameOf[r]), Arrive(c, r)
        PROVE  ~Quiet'
    BY <2>1 DEF Arrive, Quiet
  <2>2. /\ UNCHANGED <<store, memberVars, migVars>>
        /\ \/ UNCHANGED <<pending, quiet>>
           \/ \E c \in Located(NameOf[r]) : Arrive(c, r)
    BY <1>2 DEF Forward, history
  <2>3. CASE UNCHANGED <<pending, quiet>>
    BY <2>2, <2>3, QuietKept DEF Quiet, memberVars, migVars
  <2> QED
    BY <2>1, <2>2, <2>3 DEF QuietInv
<1>3. ASSUME NEW r \in Requests, ForwardFails(r)
      PROVE  QuietInv'
  <2>1. ASSUME NEW c \in Located(NameOf[r]), Arrive(c, r)
        PROVE  ~Quiet'
    BY <2>1 DEF Arrive, Quiet
  <2>2. /\ UNCHANGED <<store, memberVars, migVars>>
        /\ \/ UNCHANGED <<pending, quiet>>
           \/ \E c \in Located(NameOf[r]) : Arrive(c, r)
    BY <1>3 DEF ForwardFails, history
  <2>3. CASE UNCHANGED <<pending, quiet>>
    BY <2>2, <2>3, QuietKept DEF Quiet, memberVars, migVars
  <2> QED
    BY <2>1, <2>2, <2>3 DEF QuietInv
<1>4. ASSUME NEW r \in Requests, ForwardNowhere(r)
      PROVE  QuietInv'
  BY <1>4, QuietKept
     DEF ForwardNowhere, Quiet, QuietInv, hashVars, dataVars, memberVars,
         migVars, history, faultVars
<1>5. ASSUME NEW c \in Clusters, NEW r \in Requests, ApplyProposal(c, r)
      PROVE  QuietInv'
  BY <1>5, ApplyQuiet
<1>6. ASSUME NEW c \in Clusters, NEW r \in Requests, DropProposal(c, r)
      PROVE  QuietInv'
  BY <1>6 DEF DropProposal, QuietInv, Quiet
<1>7. CASE StartMigration
  BY <1>7 DEF StartMigration, QuietInv, Quiet
<1>8. CASE DisableWrites
  BY <1>8 DEF DisableWrites, QuietInv, Quiet
<1>9. ASSUME NEW c \in Old, SendToCluster(c)
      PROVE  QuietInv'
  BY <1>9, QuietKept
     DEF SendToCluster, Quiet, QuietInv, hashVars, dataVars, memberVars,
         migVars, history, faultVars
<1>10. CASE StartRetrieval
  BY <1>10, RetrievalBegins
<1>11. ASSUME NEW c \in Old, GetRecord(c)
       PROVE  QuietInv'
  BY <1>11, GetRecordQuiet
<1>12. CASE EndRetrieval
  BY <1>12, QuietKept
     DEF EndRetrieval, Quiet, QuietInv, hashVars, dataVars, memberVars,
         migVars, history, faultVars
<1>13. CASE SwitchHashServer
  BY <1>13, QuietKept
     DEF SwitchHashServer, Quiet, QuietInv, hashVars, dataVars, memberVars,
         migVars, history, faultVars
<1>14. ASSUME NEW c \in Clusters, AddToRing(c)
       PROVE  QuietInv'
  BY <1>14, QuietKept
     DEF AddToRing, Quiet, QuietInv, hashVars, dataVars, memberVars, migVars,
         history, faultVars
<1>15. CASE Switched
  BY <1>15, QuietKept
     DEF Switched, Quiet, QuietInv, hashVars, dataVars, memberVars, migVars,
         history, faultVars
<1>16. CASE EnableWrites
  BY <1>16, QuietKept
     DEF EnableWrites, Quiet, QuietInv, hashVars, dataVars, memberVars,
         migVars, history, faultVars
<1>17. CASE RequestFails
  BY <1>17 DEF RequestFails, QuietInv, Quiet
<1>18. CASE HashServerRestart
  BY <1>18, QuietKept
     DEF HashServerRestart, Quiet, QuietInv, hashVars, dataVars, memberVars,
         migVars, history, faultVars
<1>19. ASSUME NEW c \in Old, MemberRestart(c)
       PROVE  QuietInv'
  BY <1>19, QuietKept
     DEF MemberRestart, Quiet, TypeOK, dataVars, migVars, history
<1>20. CASE UNCHANGED vars
  BY <1>20, QuietKept
     DEF vars, Quiet, QuietInv, hashVars, dataVars, memberVars, migVars,
         history, faultVars
<1> QED
  BY <1>1, <1>2, <1>3, <1>4, <1>5, <1>6, <1>7, <1>8, <1>9, <1>10, <1>11, <1>12,
     <1>13, <1>14, <1>15, <1>16, <1>17, <1>18, <1>19, <1>20
     DEF Next, ClientStep, ClusterStep, MigrationStep

---------------------------------------------------------------------------
\* The invariant before the first write and the first attempt.
LEMMA MigrationInvInit == Init => MigrationInv
<1> SUFFICES ASSUME Init PROVE MigrationInv
  OBVIOUS
<1>1. TypeOK
  <2>1. placed \in [Requests -> Clusters]
    BY PlacementAssumption DEF Init, Clusters
  <2>2. /\ store \in [Clusters -> [Requests -> Nat]]
        /\ pending \in [Clusters -> [Requests -> Nat]]
    BY DEF Init, None
  <2>3. counter \in [Old -> Nat] /\ domainNames \in [Old -> Seq(Names)]
    BY DEF Init
  <2>4. /\ writeEnabled \in BOOLEAN /\ table \in {Before, After}
        /\ req \in [Requests ->
                    {"none", "admitted", "refused", "acked", "failed"}]
        /\ missing \subseteq Clusters /\ quiet \in BOOLEAN
    BY DEF Init
  <2>5. /\ configured \subseteq Old /\ wedged \subseteq Old
        /\ told \subseteq Old /\ finished \subseteq Old
        /\ dropped \subseteq Requests
    BY DEF Init
  <2>6. /\ mpc = "idle" /\ attempts = 0
        /\ hashRestarts = 0 /\ memberRestarts = 0 /\ failures = 0
    BY DEF Init
  <2>7. {attempts, hashRestarts, memberRestarts, failures} \subseteq Nat
    BY <2>6
  <2> QED
    BY <2>1, <2>2, <2>3, <2>4, <2>5, <2>6, <2>7 DEF TypeOK
<1>2. \A c \in Clusters, r \in Requests : store[c][r] = 0 /\ pending[c][r] = 0
  BY DEF Init, None
<1>3. New \in Clusters /\ Old \subseteq Clusters
  BY DEF Clusters
<1>4. ClientInv
  BY <1>2, <1>3, PlacementAssumption
     DEF Init, ClientInv, UnsentInv, DeletesInv, OnlyOwnNames, AckedInv
<1>5. FreshInv
  BY <1>2, <1>3 DEF Init, FreshInv
<1>6. HomeInv /\ QuietInv
  BY <1>2, <1>3 DEF Init, HomeInv, QuietInv, Quiet
<1> QED
  BY <1>1, <1>4, <1>5, <1>6 DEF MigrationInv

\* The step lemmas together: no step of a client, a cluster, the hash server or
\* migrateDNS breaks the invariant.
LEMMA MigrationInvStep == MigrationInv /\ [Next]_vars => MigrationInv'
BY TypesKept, ClientInvKept, FreshKept, HomeKept, QuietInvKept
   DEF MigrationInv, ClientInv

\* The inductive invariant of a migration and of the clients that write while it
\* runs (dns.go:323-470, httpapi.go:226-361, hash_server.go:153-348).
THEOREM MigrationInductive == Spec => []MigrationInv
BY MigrationInvInit, MigrationInvStep, PTL DEF Spec

\* Type correctness.
THEOREM MigrationTypes == Spec => []TypeOK
<1>1. MigrationInv => TypeOK
  BY DEF MigrationInv
<1> QED
  BY <1>1, MigrationInductive, PTL

\* migrateDNS brings the new cluster only the names it will own, in every
\* attempt and after every failure (shouldMigrate, httpapi.go:24-28).
THEOREM MovesOnlyOwnNames == Spec => []OnlyOwnNames
<1>1. MigrationInv => OnlyOwnNames
  BY DEF MigrationInv, ClientInv
<1> QED
  BY <1>1, MigrationInductive, PTL

\* No step of a migration or a restart takes an acknowledged record out of the
\* cluster it was forwarded to (dns.go:323-401, httpapi.go:24-28).
THEOREM AckedIsFound == Spec => []FoundUnlessMoved
<1>1. MigrationInv => FoundUnlessMoved
  BY DEF MigrationInv, ClientInv, AckedInv, FoundUnlessMoved
<1> QED
  BY <1>1, MigrationInductive, PTL

\* A first migration that no write overtakes copies the names that move exactly:
\* the counter of the goroutine, the copy of the keys and the live length of the
\* map agree, whatever is restarted (dns.go:323-401, httpapi.go:226-286).
THEOREM QuietIsExact == Spec => []QuietMigrationExact
<1>1. MigrationInv => QuietMigrationExact
  <2> SUFFICES ASSUME MigrationInv, mpc = "done", quiet, pending[New] = None,
                      NEW r \in Requests, After[NameOf[r]] = New
               PROVE  store[New][r] = store[Before[NameOf[r]]][r]
    BY DEF QuietMigrationExact
  <2> DEFINE c == Before[NameOf[r]]
  <2>1. c \in Old /\ c \in Clusters /\ New \in Clusters
    BY PlacementAssumption DEF Clusters
  <2>2. Quiet /\ finished = Old
    BY DEF MigrationInv, QuietInv, Quiet
  <2>3. PICK o \in Orders(Keys(c)) : CopiedFrom(c, o)
    BY <2>1, <2>2 DEF MigrationInv, QuietInv
  <2>4. counter[c] = Cardinality(Keys(c)) /\ Keys(c) \in SUBSET Names
    BY <2>1, <2>2, <2>3, KeysAreNames DEF CopiedFrom
  <2>5. pending[New][r] = 0 /\ store[New][r] \in Nat /\ store[c][r] \in Nat
    BY <2>1 DEF None, MigrationInv, TypeOK
  <2>6. store[New][r] = IF Taken(c, o, NameOf[r]) THEN store[c][r] ELSE 0
    BY <2>3, <2>5 DEF CopiedFrom
  <2>7. CASE store[c][r] > 0
    <3>1. NameOf[r] \in Keys(c)
      BY <2>7 DEF Keys
    <3>2. Taken(c, o, NameOf[r])
      BY <2>3, <2>4, <3>1, OrdersList DEF Taken
    <3> QED
      BY <2>6, <3>2
  <2> QED
    BY <2>5, <2>6, <2>7
<1> QED
  BY <1>1, MigrationInductive, PTL
==============================================================================
