------------------------------ MODULE Migration ------------------------------
(***************************************************************************)
(* Adding a cluster (dns/dns.go migrateDNS, dns/httpapi.go /addcluster and *)
(* /getrecord, dns/hash_server/hash_server.go /add, /delete, /addcluster,  *)
(* /disablewrite, /enablewrite): the new cluster's first node fetches from *)
(* Members[0] of every old cluster the records of the names it will own,   *)
(* while clients write through the hash server.                            *)
(*                                                                         *)
(* A client request adds one record or deletes a name's records.  A        *)
(* cluster is its Members[0]: store is what that node has applied, pending *)
(* what has been proposed in the cluster and not reached it yet (the HTTP  *)
(* handlers answer 204 before the proposal is committed).                  *)
(*                                                                         *)
(* External: consistent hashing.  Before and After are the placements it   *)
(* computes for the old and the new cluster list; changing the number of   *)
(* partitions may move any name.  A ring that lacks members yet places a   *)
(* name at any member it has.                                              *)
(***************************************************************************)
EXTENDS Integers, Sequences, FiniteSets, Functions

CONSTANTS
  Old,            \* tokens of the old clusters
  New,            \* token of the new cluster
  Names,          \* domain names
  Requests,       \* client requests
  Deletes,        \* those that delete
  NameOf,         \* request -> name
  Before, After,  \* name -> cluster, by the old and by the new cluster list
  MaxAttempts,    \* bound: times migrateDNS is started
  MaxHashRestarts,   \* bound: restarts of the hash server
  MaxMemberRestarts, \* bound: restarts of the old clusters' Members[0]
  MaxFailures        \* bound: requests that fail and proposals that raft drops

Clusters == Old \cup {New}

\* There are finitely many domain names: their length is bounded.
ASSUME PlacementAssumption ==
  /\ IsFiniteSet(Names)
  /\ New \notin Old
  /\ Deletes \subseteq Requests
  /\ NameOf \in [Requests -> Names]
  /\ Before \in [Names -> Old]
  /\ After \in [Names -> Clusters]

VARIABLES
  writeEnabled,  \* hash server: store.writeEnabled
  table,         \* hash server: the placement of store.lookup
  missing,       \* hash server: the clusters still to be added to store.lookup
  req,           \* request -> how far the hash server is with it
  store,         \* cluster -> request -> copies of its record
  pending,       \* cluster -> request -> proposals that have not arrived
  configured,    \* old clusters whose Members[0] has store.lookup
  domainNames,   \* old cluster -> the closure's list
  wedged,        \* old clusters whose Members[0] holds a lock for ever
  mpc,           \* where migrateDNS is
  told,          \* clusters it has sent the new list to
  counter,       \* old cluster -> next index its goroutine asks for
  finished,      \* old clusters that have answered "Done"
  placed,        \* history: request -> the cluster it was forwarded to
  dropped,       \* history: the requests raft dropped somewhere
  quiet,         \* history: no write reached an old cluster since retrieval
                 \* began
  attempts, hashRestarts, memberRestarts, failures   \* counters for the bounds

hashVars == <<writeEnabled, table, missing>>
history == <<placed, dropped, quiet>>
dataVars == <<store, pending>>
memberVars == <<configured, domainNames, wedged>>
migVars == <<mpc, told, counter, finished, attempts>>
faultVars == <<hashRestarts, memberRestarts, failures>>
vars == <<hashVars, req, dataVars, memberVars, migVars, history, faultVars>>

None == [r \in Requests |-> 0]

\* The keys of store.store.
Keys(c) == {NameOf[r] : r \in {q \in Requests : store[c][q] > 0}}

\* The possible results of ranging over a map with these keys.
Orders(S) == Bijection(1..Cardinality(S), S)

---------------------------------------------------------------------------
(* Clients, through the hash server, and the clusters' raft groups.        *)

\* /add and /delete: the test of writeEnabled at the top of the handler.
Admit(r) ==
  /\ req[r] = "none"
  /\ req' = [req EXCEPT ![r] = IF writeEnabled THEN "admitted" ELSE "refused"]
  /\ UNCHANGED <<hashVars, dataVars, memberVars, migVars, history, faultVars>>

\* store.lookup.LocateKey and store.clusters: where a name may be sent now.
Located(name) == IF missing = {} THEN {table[name]} ELSE Clusters \ missing

\* The cluster's node has the request and proposes it.
Arrive(c, r) ==
  /\ pending' = [pending EXCEPT ![c][r] = @ + 1]
  /\ placed' = [placed EXCEPT ![r] = c]
  /\ quiet' = FALSE
  /\ UNCHANGED dropped

\* The rest of it: locate the cluster, forward, pass on the 204.
Forward(r) ==
  /\ req[r] = "admitted"
  /\ \E c \in Located(NameOf[r]) : Arrive(c, r)
  /\ req' = [req EXCEPT ![r] = "acked"]
  /\ UNCHANGED <<hashVars, store, memberVars, migVars, faultVars>>

\* Forwarding fails, before the node had the request or after: the handler
\* panics on the nil response, net/http recovers, the client gets no answer.
ForwardFails(r) ==
  /\ req[r] = "admitted"
  /\ failures < MaxFailures
  /\ failures' = failures + 1
  /\ req' = [req EXCEPT ![r] = "failed"]
  /\ \/ UNCHANGED <<pending, history>>
     \/ \E c \in Located(NameOf[r]) : Arrive(c, r)
  /\ UNCHANGED <<hashVars, store, memberVars, migVars, hashRestarts,
                 memberRestarts>>

\* The ring is empty: the handler panics on the nil member.
ForwardNowhere(r) ==
  /\ req[r] = "admitted"
  /\ Located(NameOf[r]) = {}
  /\ req' = [req EXCEPT ![r] = "failed"]
  /\ UNCHANGED <<hashVars, dataVars, memberVars, migVars, history, faultVars>>

\* Mutant: a delete forgets the name and drops every record of its cluster.
AppliedToAll(c, r) ==
  IF r \in Deletes THEN None ELSE [store[c] EXCEPT ![r] = @ + 1]

\* A proposal is committed and applied: insertRR appends whatever is there
\* already, a delete drops the name's records.
Applied(c, r) ==
  IF r \in Deletes
  THEN [q \in Requests |-> IF NameOf[q] = NameOf[r] THEN 0 ELSE store[c][q]]
  ELSE [store[c] EXCEPT ![r] = @ + 1]

\* Mutant: an entry is applied though nobody proposed it.
ApplyUnproposed(c, r) ==
  /\ pending' = [pending EXCEPT ![c][r] = @ - 1]
  /\ store' = [store EXCEPT ![c] = Applied(c, r)]
  /\ quiet' = (quiet /\ c = New)
  /\ UNCHANGED <<hashVars, req, memberVars, migVars, placed, dropped,
                 faultVars>>

\* The write lock of Members[0] is needed.
ApplyProposal(c, r) ==
  /\ c \notin wedged
  /\ pending[c][r] > 0
  /\ pending' = [pending EXCEPT ![c][r] = @ - 1]
  /\ store' = [store EXCEPT ![c] = Applied(c, r)]
  /\ quiet' = (quiet /\ c = New)
  /\ UNCHANGED <<hashVars, req, memberVars, migVars, placed, dropped,
                 faultVars>>

\* Raft drops a proposal; the error of node.Propose is ignored.
DropProposal(c, r) ==
  /\ pending[c][r] > 0
  /\ failures < MaxFailures
  /\ failures' = failures + 1
  /\ pending' = [pending EXCEPT ![c][r] = @ - 1]
  /\ dropped' = dropped \cup {r}
  /\ quiet' = FALSE
  /\ UNCHANGED <<hashVars, req, store, memberVars, migVars, placed, hashRestarts,
                 memberRestarts>>

---------------------------------------------------------------------------
(* migrateDNS.                                                             *)

\* It is started: getClusterInfo returns the hash server's config file, which
\* lists the old clusters.
StartMigration ==
  /\ mpc \in {"idle", "fatal"}
  /\ attempts < MaxAttempts
  /\ attempts' = attempts + 1
  /\ mpc' = "disable"
  /\ told' = {} /\ counter' = [c \in Old |-> 0] /\ finished' = {}
  /\ UNCHANGED <<hashVars, req, dataVars, memberVars, history, faultVars>>

\* disableWrites, and updateConfig.
DisableWrites ==
  /\ mpc = "disable"
  /\ writeEnabled' = FALSE
  /\ mpc' = "config"
  /\ UNCHANGED <<table, missing, req, dataVars, memberVars, told, counter, finished,
                 attempts, history, faultVars>>

\* sendClusterInfo to Members[0] of an old cluster: its /addcluster, which takes
\* the write lock and so never answers when that is held for ever.
SendToCluster(c) ==
  /\ mpc = "config"
  /\ c \in Old \ told
  /\ c \notin wedged
  /\ told' = told \cup {c}
  /\ configured' = configured \cup {c}
  /\ UNCHANGED <<hashVars, req, dataVars, domainNames, wedged, mpc, counter,
                 finished, attempts, history, faultVars>>

StartRetrieval ==
  /\ mpc = "config"
  /\ told = Old
  /\ mpc' = "retrieve"
  /\ quiet' = /\ attempts = 1
              /\ \A r \in Requests : req[r] # "admitted"
              /\ \A c \in Old : pending[c] = None
  /\ UNCHANGED <<hashVars, req, dataVars, memberVars, told, counter, finished,
                 attempts, placed, dropped, faultVars>>

\* Mutant: every name moves.
MigrateAll(name) == name \in Names

\* shouldMigrate.
ShouldMigrate(name) == After[name] = New

\* Mutant: the goroutine skips every other index.
TakeAndSkip(c, name) ==
  /\ counter' = [counter EXCEPT ![c] = @ + 2]
  /\ pending' = [pending EXCEPT ![New] = [r \in Requests |->
        IF ShouldMigrate(name) /\ NameOf[r] = name
        THEN @[r] + store[c][r] ELSE @[r]]]

\* The answer to GET /getrecord is the records of one name; the goroutine
\* proposes them to the new cluster.
TakeRecords(c, name) ==
  /\ counter' = [counter EXCEPT ![c] = @ + 1]
  /\ pending' = [pending EXCEPT ![New] = [r \in Requests |->
        IF ShouldMigrate(name) /\ NameOf[r] = name
        THEN @[r] + store[c][r] ELSE @[r]]]

\* GET /getrecord with the goroutine's counter.  "Done" is decided by the
\* present size of the map, the name by a copy of its keys made at index 0.  A
\* handler that panics is an error to the goroutine, which is fatal; with no
\* lookup it panics in shouldMigrate, holding the store's read lock.
GetRecord(c) ==
  /\ mpc = "retrieve"
  /\ c \in Old \ finished
  /\ IF counter[c] >= Cardinality(Keys(c))
     THEN /\ finished' = finished \cup {c}
          /\ UNCHANGED <<pending, domainNames, wedged, counter, mpc>>
     ELSE \E copy \in IF counter[c] = 0 THEN Orders(Keys(c)) ELSE {<<>>} :
          LET names   == domainNames[c] \o copy
              inRange == counter[c] < Len(names)
          IN
          /\ domainNames' = [domainNames EXCEPT ![c] = names]
          /\ wedged' = IF inRange /\ c \notin configured
                       THEN wedged \cup {c} ELSE wedged
          /\ IF inRange /\ c \in configured
             THEN TakeRecords(c, names[counter[c] + 1]) /\ UNCHANGED mpc
             ELSE mpc' = "fatal" /\ UNCHANGED <<pending, counter>>
          /\ UNCHANGED finished
  /\ UNCHANGED <<hashVars, req, store, configured, told, attempts, history,
                 faultVars>>

\* Mutant: the wait counts the new cluster too.
EndRetrievalOfAll ==
  /\ mpc = "retrieve"
  /\ finished = Clusters
  /\ mpc' = "switch"
  /\ UNCHANGED <<hashVars, req, dataVars, memberVars, told, counter, finished,
                 attempts, history, faultVars>>

\* All goroutines are done: wg.Wait returns.
EndRetrieval ==
  /\ mpc = "retrieve"
  /\ finished = Old
  /\ mpc' = "switch"
  /\ UNCHANGED <<hashVars, req, dataVars, memberVars, told, counter, finished,
                 attempts, history, faultVars>>

\* The hash server's /addcluster refuses while writes are disabled.
AddClusterAccepted == writeEnabled

\* sendClusterInfo to the hash server; a refusal is fatal.  Its /addcluster
\* replaces store.clusters and, without a lock, store.lookup: the new ring is
\* empty and filled cluster by cluster, in the order of a map.
SwitchHashServer ==
  /\ mpc = "switch"
  /\ IF AddClusterAccepted
     THEN table' = After /\ missing' = Clusters /\ mpc' = "ring"
     ELSE mpc' = "fatal" /\ UNCHANGED <<table, missing>>
  /\ UNCHANGED <<writeEnabled, req, dataVars, memberVars, told, counter,
                 finished, attempts, history, faultVars>>

\* store.lookup.Add
AddToRing(c) ==
  /\ c \in missing
  /\ missing' = missing \ {c}
  /\ UNCHANGED <<writeEnabled, table, req, dataVars, memberVars, migVars, history,
                 faultVars>>

\* The hash server answers.
Switched ==
  /\ mpc = "ring"
  /\ missing = {}
  /\ mpc' = "enable"
  /\ UNCHANGED <<hashVars, req, dataVars, memberVars, told, counter, finished,
                 attempts, history, faultVars>>

\* startGarbageCollect does nothing; enableWrites.
EnableWrites ==
  /\ mpc = "enable"
  /\ writeEnabled' = TRUE
  /\ mpc' = "done"
  /\ UNCHANGED <<table, missing, req, dataVars, memberVars, told, counter, finished,
                 attempts, history, faultVars>>

---------------------------------------------------------------------------
(* Failures.                                                               *)

\* Any request of migrateDNS fails: log.Fatal.
RequestFails ==
  /\ mpc \in {"disable", "config", "retrieve", "switch", "ring", "enable"}
  /\ failures < MaxFailures
  /\ failures' = failures + 1
  /\ mpc' = "fatal"
  /\ UNCHANGED <<hashVars, req, dataVars, memberVars, told, counter, finished,
                 attempts, history, hashRestarts, memberRestarts>>

\* The hash server is restarted: it reads its config file, which no request
\* has changed, and starts with writes enabled; requests in it are lost, the
\* /addcluster of migrateDNS too.
HashServerRestart ==
  /\ hashRestarts < MaxHashRestarts
  /\ hashRestarts' = hashRestarts + 1
  /\ writeEnabled' = TRUE
  /\ table' = Before /\ missing' = {}
  /\ req' = [r \in Requests |->
               IF req[r] = "admitted" THEN "failed" ELSE req[r]]
  /\ mpc' = IF mpc = "ring" THEN "fatal" ELSE mpc
  /\ UNCHANGED <<dataVars, memberVars, told, counter, finished, attempts, history,
                 memberRestarts, failures>>

\* Members[0] of an old cluster is restarted: store.lookup, store.config, the
\* handler's domainNames and the lock are not persistent.
MemberRestart(c) ==
  /\ memberRestarts < MaxMemberRestarts
  /\ memberRestarts' = memberRestarts + 1
  /\ configured' = configured \ {c}
  /\ domainNames' = [domainNames EXCEPT ![c] = <<>>]
  /\ wedged' = wedged \ {c}
  /\ UNCHANGED <<hashVars, req, dataVars, migVars, history, hashRestarts,
                 failures>>

---------------------------------------------------------------------------
Init ==
  /\ writeEnabled = TRUE /\ table = Before /\ missing = {}
  /\ req = [r \in Requests |-> "none"]
  /\ store = [c \in Clusters |-> None] /\ pending = [c \in Clusters |-> None]
  /\ configured = {} /\ domainNames = [c \in Old |-> <<>>] /\ wedged = {}
  /\ mpc = "idle" /\ told = {} /\ counter = [c \in Old |-> 0] /\ finished = {}
  /\ placed = [r \in Requests |-> Before[NameOf[r]]]
  /\ dropped = {} /\ quiet = FALSE
  /\ attempts = 0 /\ hashRestarts = 0 /\ memberRestarts = 0 /\ failures = 0

ClientStep == \E r \in Requests : Admit(r) \/ Forward(r)

ClusterStep == \E c \in Clusters, r \in Requests : ApplyProposal(c, r)

MigrationStep ==
  \/ DisableWrites
  \/ \E c \in Old : SendToCluster(c) \/ GetRecord(c)
  \/ StartRetrieval \/ EndRetrieval
  \/ SwitchHashServer \/ Switched \/ \E c \in Clusters : AddToRing(c)
  \/ EnableWrites

Next ==
  \/ ClientStep
  \/ ClusterStep
  \/ StartMigration
  \/ MigrationStep
  \/ RequestFails \/ HashServerRestart
  \/ \E r \in Requests : ForwardFails(r) \/ ForwardNowhere(r)
  \/ \E c \in Clusters, r \in Requests : DropProposal(c, r)
  \/ \E c \in Old : MemberRestart(c)

Spec == Init /\ [][Next]_vars

\* The clusters make progress and migrateDNS runs to its end; clients, starts
\* and failures are not assumed.
Fairness == WF_vars(ClusterStep) /\ WF_vars(MigrationStep)

LiveSpec == Spec /\ Fairness

---------------------------------------------------------------------------
(* Properties.                                                             *)

\* Every variable has its type.
TypeOK ==
  /\ writeEnabled \in BOOLEAN /\ table \in {Before, After}
  /\ missing \subseteq Clusters
  /\ req \in [Requests -> {"none", "admitted", "refused", "acked", "failed"}]
  /\ store \in [Clusters -> [Requests -> Nat]]
  /\ pending \in [Clusters -> [Requests -> Nat]]
  /\ configured \subseteq Old /\ wedged \subseteq Old
  /\ domainNames \in [Old -> Seq(Names)]
  /\ mpc \in {"idle", "disable", "config", "retrieve", "switch", "ring",
             "enable", "done", "fatal"}
  /\ told \subseteq Old /\ counter \in [Old -> Nat] /\ finished \subseteq Old
  /\ placed \in [Requests -> Clusters] /\ dropped \subseteq Requests
  /\ quiet \in BOOLEAN
  /\ {attempts, hashRestarts, memberRestarts, failures} \subseteq Nat

\* A first migration that no write overtook moves the records of the names the
\* new cluster owns exactly: all of them, once, and none that was deleted
\* (retrieveRR, dns.go:323-401, and /getrecord, httpapi.go:226-286: the counter,
\* the copy of the keys and the live length agree).
QuietMigrationExact ==
  mpc = "done" /\ quiet /\ pending[New] = None =>
    \A r \in Requests :
      After[NameOf[r]] = New => store[New][r] = store[Before[NameOf[r]]][r]

\* migrateDNS never brings the new cluster a record of a name it will not own,
\* through failures, retries and restarts (shouldMigrate, httpapi.go:24-28):
\* such a record can only come from the hash server, of a client's write that
\* found the new ring half filled (hash_server.go:308-312).
OnlyOwnNames ==
  \A r \in Requests :
    store[New][r] + pending[New][r] > 0 =>
      After[NameOf[r]] = New \/ placed[r] = New

\* An acknowledged add that no client deletes is in the cluster the hash server
\* asks for it, unless raft dropped it, or the hash server now places its name
\* elsewhere than when it forwarded it: by the new list (httpapi.go:24-28: of
\* the names that move only those of the new cluster are copied), or by the old
\* one after a restart (hash_server.go:255: the new list is not kept).
FoundUnlessMoved ==
  missing = {} =>
    \A r \in Requests \ (Deletes \cup dropped) :
      LET c == table[NameOf[r]]
      IN /\ req[r] = "acked"
         /\ placed[r] = c
         /\ \A d \in Deletes : NameOf[d] # NameOf[r]
         => store[c][r] + pending[c][r] > 0

\* migrateDNS does not hang: it succeeds or exits, though the length it is
\* measured against changes under it (dns.go:337-382, httpapi.go:248); only a
\* node that holds its lock for ever can stop it.
MigrationEnds ==
  mpc = "disable" ~> \/ mpc \in {"done", "fatal"}
                     \/ wedged # {}

---------------------------------------------------------------------------
(* What the comments promise and the code does not do.                     *)

\* dns.go:430 "notify the hash server to start processing writes": what the
\* migration disables it enables again.
WritesResume == ~writeEnabled ~> writeEnabled
=============================================================================
