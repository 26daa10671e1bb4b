# Verification of raftdns

raftdns is a DNS service: clusters of `dns_server` processes replicate their
records with etcd's raft library, and a `hash_server` in front spreads the
names over several clusters by consistent hashing. This directory holds TLA+
models of the parts that carry the program's own logic, TLC configurations that
check them on small instances, and TLAPS proofs of the safety of every part:
the raft node with each of its two readers, the process around it, the paged
store and its refinement, a migration, the resolver, queries at the hash
server, and the caches.

Contents: [Inventory](#inventory) ·
[Modules](#modules-and-how-they-correspond-to-the-code) ·
[Runs](#runs) · [Bounds](#bounds) · [Fairness](#fairness) · [Proofs](#proofs) ·
[Findings](#findings) · [Known gaps](#known-gaps) ·
[Not modelled](#not-modelled) · [Plan](#plan)

To repeat a run: `tlc -config <cfg> <module>` with the pair named in
PROJECT.json; to repeat the proofs: `tlapm <module>` for each of
`RaftNodeProofs.tla`, `NodeServerProofs.tla`, `PagedNodeProofs.tla`,
`MigrationProofs.tla`, `ResolverProofs.tla`, `HashQueryProofs.tla`,
`NodeCacheProofs.tla` and `CacheMapsProofs.tla`.

## Inventory

| Component | State | Operations | Talks to |
|---|---|---|---|
| Raft node (`dns/raft.go`, `example/raft.go`) | WAL, snapshot directory, `appliedIndex`, `snapshotIndex`, `lastIndex`, `raftStorage` | `startRaft`, `replayWAL`, `serveChannels`, `publishEntries`, `publishSnapshot`, `saveSnap`, `maybeTriggerSnapshot`, `stop` | the raft library; the store through `commitC` (unbuffered: entries, and `nil` for two purposes) and through the `getSnapshot` closure |
| DNS store (`dns/dns_store.go`) | map name → type → records, read/write lock | `readCommits` (initial and spawned), insert, delete, `getSnapshot`, `recoverFromSnapshot` | the raft node; queries; HTTP handlers |
| Paged DNS store (`dns/paged_dns_store.go`, `paged_dns.go`) | pages in memory, LRU list, a file per page, `LastCommitIndex` of each page | `getPage`, `loadPageAndUpdateLRU`, `writeSerializedPage`, `insertRR`, `deleteRRs`, `getSnapshot`, `recoverFromSnapshot` | as above, and the file system |
| DNS resolver (`dns/dns.go`) | the response being built | `ProcessDNSQuery`, `HandleSingleQuestion`, `HandleRecursiveQuery` | store and cache of the node; 8.8.8.8 |
| Cache of a node and whispering (`dns/dns_store.go`, `paged_dns_store.go`) | plain map name → map of records, each with `createTime` and `ttl` | `addCacheRecord`, `getCacheRecords`, `/addcache` | its peers by HTTP |
| HTTP API of a node (`dns/httpapi.go`, `paged_httpapi.go`) | closure variables, `store.lookup`, `store.config` | `/add`, `/delete`, `/addcluster`, `/getrecord`, `/addcache`, `/member` | raft by `proposeC` and `confChangeC`; `migrateDNS` |
| Proposals and shutdown (`dns/raft.go` `serveChannels`, `stop`, `serveRaft`; `dns/main.go`; `listener.go`) | the two request channels, `errorC`, `stopc`, the listener | proposing, stopping on removal, on a transport error, at the end of main | HTTP handlers; the raft library; main |
| Migration (`dns/dns.go`, `migrateDNS`) | counters of one goroutine per old cluster | `getClusterInfo`, `disableWrites`, `sendClusterInfo`, `retrieveRR`, `enableWrites` | old clusters and hash server by HTTP |
| Hash server, writes (`dns/hash_server/hash_server.go`) | `writeEnabled`, `lookup`, cluster list | `/add`, `/delete`, `/addcluster`, `/disablewrite`, `/enablewrite`, `/clusterinfo` | clusters by HTTP |
| Hash server, queries (same file) | ARC cache name → map of records, `lookup`, `aliveSince` of every member | `tryDirectQuery`, `tryBroadcastAndMerge`, `sendDNSMsgUntilSuccess`, `queryCache` | members by UDP |
| Example key-value store (`example/`) | map | `readCommits`, `getSnapshot`, PUT, POST, DELETE | its raft node |

What is hard in it:

* two goroutines joined by an unbuffered channel, on which `nil` means "the
  replay is over" at one time and "load a snapshot" at another, while a third
  (main) assigns the variable the snapshot closure captures;
* crashes between any two durable writes, and replays over state that is ahead
  of the log position (page files, snapshots);
* a migration made of HTTP calls, each of which may fail, interleaved with
  client writes that are acknowledged before they are committed;
* concurrent queries that share what they believe of the members' health, and
  a ring of clusters that is replaced and filled under their hands;
* caches of maps of maps, each level under another lock or none, and records
  that a goroutine changes for a moment while others print them;
* a shutdown that runs through five goroutines by closing channels, and writes
  that are answered before raft has been asked for them.

What correctness means, component by component: the raft node and the store
apply every committed entry once and in order and lose none; paging cannot be
told from a map that is always in memory; a migration moves exactly the
records of the new cluster's names and leaves writes enabled; a reply is
complete and about its question; one living member per cluster is enough; a
cached record does not outlive the answer it came with, and the machines of a
cluster learn it from one another; a write reaches raft at most once and in
its place, and a node told to stop stops.
The points where this is at risk are listed with their lines under `hazards` in
PROJECT.json, each with the properties that would notice.

## Modules and how they correspond to the code

**RaftNode** — the raft goroutine. `rpc` is the place in the code where it
can lose control: before or after a send, between two durable writes, in the
`select`. `walSnaps`, `walLast`, `walCommit` are what the WAL holds; `snap` is
the newest snapshot file. `ReplayWAL`/`ReplayNilSend`/`StartNode` are
`startRaft`; `ReadyEntries`/`ReadySnapshot` a Ready with `wal.Save`;
`SaveSnapWal`/`SaveSnapFile` the halves of `saveSnap`; `Publish*` are
`publishEntries` and `publishSnapshot`; `NoSnapshotDue`, `SnapshotOfNilStore`,
`GetSnapshot` and `Compact` are `maybeTriggerSnapshot`. `CrashRestart` keeps
only WAL and snapshot. External: the raft library, which is the sequence `log`
of committed entries and the contract of Ready (it may hand out entries again,
uncommitted entries may be replaced, a snapshot only comes from ahead).
A store is abstracted to the set of log indexes it reflects. What the raft
goroutine keeps whatever reads its channel stands at the end of the module: the
types of its variables (`RaftTypeOK`), `IndexInv`, on which the proofs about
both readers build, and `WALOpensAtSnapshot`, `CompactsForward` and
`SnapshotsForward`.

**DnsNode** — adds `readCommits` in both roles and main()'s assignment. A send
on `commitC` is one action made of the sender's and the receiver's half
(`PublishNormal == PublishNormalSend /\ ReceiveEntry /\ ...`). Receiving and
applying are two steps, because the send returns on receipt.
The history variable `excused` collects the entries that one of the known gaps
below gives up, at the step where it does, so that `LossExcused` can say that
nothing else is ever lost.

**KvNode** — the example's `readCommits`, from which the DNS store's was
adapted, over the same raft goroutine (`example/raft.go` is the same code but
for the type of what is sent). Its definitions begin with `Kv` where DnsNode
has one of the same name, so that one module can prove about both.

**FlatStore** — what the paged store promises: a page shows an initial segment
of its proposals in log order (`Reflects`), at least up to the applied index.
It is stated by what is seen of a page and not by how it is computed, so that
the refinement can be proved.

**PagedStore** — pages, LRU list, files and the `LastCommitIndex` check, in
the hands of a raft goroutine that behaves. `Flat` maps it to FlatStore.
`TouchPage` is what `getPage` does to list, map and files: `Removed` is the
element it takes out of the list, the page's own or the least recently used.

**PagedNode** — adds what the raft goroutine really does: snapshots taken with
an entry in hand, crashes between `Remove` and `Rename` of a page file, and
snapshots from the leader, which hold the pages the *leader* had in memory.
These pages may be ahead of the snapshot's index (`LeaderPages`): a leader that
was restarted has page files, and pages read from them, that its replay has not
caught up with yet.

**Migration** — `migrateDNS` with the handlers it calls at the old clusters and
at the hash server, and clients writing meanwhile. A cluster is its
`Members[0]` (the only one asked) and the proposals that have not reached it.
`GetRecord` keeps the two things the handler mixes: the present length of the
map and the copy of its keys made at index 0. `SwitchHashServer` puts an empty
ring in place of the old one and `AddToRing` fills it cluster by cluster;
between them `Located` is any cluster the ring has, and a write that finds none
panics in its handler (`ForwardNowhere`). `placed` remembers where a write
went and `dropped` what raft lost, so that `FoundUnlessMoved` can say that
nothing else is out of reach. External: consistent hashing, as the placements
`Before` and `After`.

**Resolver** — a query of one or several questions. Each goes through
`HandleSingleQuestion` into the same response: precise match, CNAME (a call of
itself), cache, referral with glue, wildcard; what could not be handled goes
upstream together if recursion is desired. Names are sequences of labels; one
label exists in two spellings, because the code lower-cases in some places and
not in others. The store is two variables: the records (`zone`), and which
CNAME is at the head of a name's list (`aliases`), because that one is followed
if a name has several, each time the same one. `Labels` and `Types` say what
names and questions are made of; `RecordAssumption` is what `dns.NewRR` lets
into a store, `QueryAssumption` that a message has a question.

**HashQuery** — a query at the hash server: cache, a goroutine per cluster,
failover between members, then the broadcast. `dead` is the list of members
with `aliveSince` in the future; time is the order in which they come back. A
goroutine's list (`Preferred`) is the members believed alive in any order, then
the others in the order in which they come back (`Late`, `InOrder`).
`/addcluster` with a list of the same clusters replaces the members' records
(`outdated`: a query under way marks the ones nobody reads any more) and the
ring (`missing`); a query that meets the empty ring ends the process
(`AskEmptyRing`).

**NodeCache** — the caches of the machines of one raft cluster and the whisper
between them. A clock counts ticks, `Second` of them to a second, because the
code rounds ages down to seconds. `WhisperAddCacheRecord`, `ZeroTtl` and
`InsertAndRestore` are `addCacheRecord` and the goroutines it spawns;
`ReadBody` and `ReadLengthAndDo` are the two times such a goroutine prints the
record, which may fall into the moment in which its Ttl is 0. External: the
answers from outside and the network, which together take at most `MaxDelay`
from an answer to its last whisper.

**CacheMaps** — the maps behind the three caches (hash server, plain store,
paged store) in the hands of several handlers: finding the map of a name,
putting a new one in, taking the lock, inserting, looking up, deleting what has
expired. The constant `Kinds` selects the caches; they differ in
which of these steps are locked (`Lock`, `RLock`, and a table at the head of
the module). `Clash` is a data race the Go runtime may detect; `Abort` is its
doing so.

**NodeServer** — the process of a node from a write request to raft, and its
end. A handler blocks on an unbuffered channel until the proposal goroutine
takes its request (`Take`), and answers 204 before `Propose` returns.
`Removed`, `StopHTTP`, `ListenerEnds`, `CloseErrorC`, `MainReturns`,
`NodeStop` and `Exit` are the links of the shutdown; `TransportFails` and
`ErrorIsFatal` the other way out. The example's HTTP API takes the same way.

**RaftNodeProofs**, **NodeServerProofs**, **PagedNodeProofs**,
**MigrationProofs**, **ResolverProofs**, **HashQueryProofs**,
**NodeCacheProofs**, **CacheMapsProofs** — the inductive invariants, lemmas and
theorems about the module each is named for. RaftNodeProofs is about DnsNode
and KvNode, which share the raft goroutine; PagedNodeProofs is about PagedStore,
too, because both specifications keep the same invariant. See
[Proofs](#proofs).

The MC modules only name the constants' values. Definitions whose comment
begins with `Mutant` are plausible mistakes in the definition that follows
them; no specification uses them, and `mutants` in PROJECT.json names the
property that each of them breaks.

## Runs

Passing:

| Run | What it checks | What it shows |
|---|---|---|
| `dns_node` | `WALOpensAtSnapshot`, `CompactsForward`, `AppliesInOrder`, `ReaderAlive`, `LossExcused`, `SnapshotsForward`, `StartupCompletes`, `CommittedApplied` | a `dns_server` process survives a crash at any step; the two meanings of nil cannot end the reader; the order of the writes in `saveSnap` is the right one; startup ends, and what is committed arrives |
| `kv_node` | `KvAppliesInOrder`, `KvLossExcused`, `FreshStartServes` | the original reader applies in order too, and comes to serve if there is no snapshot |
| `paged_store` | `LRUConsistent`, `ImplementsFlat` | list and map agree at the limit; paging is transparent |
| `paged_node` | `StoresInOrder`, `PageLossExcused` | nothing is applied twice or out of order even over pages that are ahead; the three gaps are the only ones |
| `migration` | `QuietMigrationExact`, `OnlyOwnNames`, `FoundUnlessMoved`, `MigrationEnds` | without concurrent writes the copy is exact; no foreign name ever moves, over retries and restarts; an acknowledged record is found unless the hash server places its name elsewhere than when it was written; `migrateDNS` ends although the length it is measured against changes |
| `resolver` | `AnswersFollowQuestion`, `MostSpecificAnswer`, `GlueAppended`, `AnsweredUnlessLoop` | the answer is the one a declarative reading of the zone gives, for every store over eleven records, whatever else is asked in the same message; a question that is not sent upstream has an answer |
| `hash_query` | `RepliesComplete`, `Failover`, `PanicsOnlyUnreachable` | goroutines may end in any order; stale or replaced beliefs about members cost time and no answer; only a cluster without a reachable member, or the moment the ring is empty, can end the process |
| `node_cache` | `BoundedStaleness`, `EveryNodeLearns` | whispering prolongs a record's life by no more than the delays; every machine of the cluster serves the record or has lost its copy in one of three known ways |
| `cache_maps` | `ClashesExplained`, `UndisturbedAddsKept` | which accesses of the maps can meet, given the locks each cache takes; which adds can be lost |
| `node_server` | `ProposedOnceInOrder`, `AckedLossBounded`, `WritesAnswered`, `StopsWhenTold` | a write answered before another one is sent reaches raft before it; each life of the process loses at most one answered write before raft is stopped; a node removed or without transport ends |

The runs of PagedStore, DnsNode, Migration, NodeCache, CacheMaps and NodeServer
also check `TypeOK`. Two runs end in a violation and show a disagreement with a
comment, see [Findings](#findings): `dns_node_hand_off` and
`migration_refused`.

## Bounds

* `dns_node`, `kv_node`: `SnapCount = CatchUpN = 1` keeps the relation of the
  code (both 10000) and lets a snapshot fall due after two entries; three
  entries allow an own snapshot, one of the leader and a tail behind them, in
  any order; two crashes allow one during the replay after another.
* `paged_store`: three pages of which two fit, so that eviction has a choice;
  four proposals and two restarts, so that a page file can be ahead of the
  snapshot twice. `paged_node`: two pages, one in memory, and one snapshot of
  the leader, whose pages may be ahead of it.
* `migration`: two old clusters (one that owns everything, one empty), two
  names of which one moves, two records and a delete, two attempts (a second
  one meets what the first left behind), one restart of hash server and of a
  member, one failure. The new ring is filled in any order.
* `resolver`: all 2048 subsets of eleven records that contain each kind of
  match at two depths, two CNAMEs of one name, a CNAME chain that can close into
  a circle, and referrals in both spellings; every single question, and pairs in
  which one question leads by a CNAME to the name of the other or the second has
  another type. Upstream sends a record that the store may hold as well.
* `hash_query`: two handlers, a cluster of two and one of one member, four
  questions: one each for the two clusters, one answered only by a wildcard of
  the other cluster, one in another spelling. The handlers together ask two
  names of both clusters, and each of the names that go wrong. One failure makes
  the small cluster unreachable or the large one fail over. The ring
  may be replaced any number of times.
* `node_cache`: two machines, so that a whisper back would be a circle; two
  answers from outside, so that one overtakes the other; Ttls of one and two
  seconds in half seconds, a clock that outlives both; one crash.
  `TtlModulus` stands for 2^32: what is left of a Ttl would wrap to a
  huge value if a record that is over were served.
* `cache_maps`: two handlers, an answer of two records and one of a record they
  share, so that one add can meet another, an eviction or a lookup at every
  point; a third map for the one that is in the cache.
* `node_server`: three good requests (one in the hand of the proposal
  goroutine, one waiting, one in the other life of the process) and a bad one;
  one restart. `AckedLossBounded` needs two answered writes to fail.

The counters that bound a run are named `Max...`; they sit in the guards of
the environment's actions (crashes, failures, commits) and never in the
program's. For the safety properties the choice of an instance matters less
than it would: the theorems carry them to all values of the constants.

## Fairness

* DnsNode, KvNode: weak fairness of the raft goroutine's steps, the reader's
  and main()'s, which the Go scheduler gives; weak fairness of the cluster's
  commits, and strong fairness of "raft hands out everything that is
  committed": the node stays in contact with the cluster now and then. Commits
  are needed because a replay may end in entries that are not committed yet.
  Nothing is assumed of crashes, transport errors or leader snapshots.
* Migration: weak fairness of `migrateDNS` and of the clusters; clients,
  starts, restarts and failures are free.
* Resolver: weak fairness of the goroutine that handles a query (the exchange
  with the upstream server has a timeout); the cache is free.
* NodeServer: weak fairness of the proposal goroutine, of the handlers, of
  `serveChannels`, of the listener (which looks at `stopc` before each accept)
  and of main. Nothing is assumed of clients, removals, errors or the leader:
  `WritesAnswered` asks for one that stays.
* HashQuery, NodeCache, CacheMaps, PagedStore and PagedNode state safety only.

Runs with `CHECK_DEADLOCK FALSE` (Migration, HashQuery, NodeCache, NodeServer)
are systems that may come to rest: no attempt left, a process that has ended,
or the end of the bounded time.

## Proofs

Eight modules hold theorems. Every invariant and every action property of the
passing runs is proved, and so is the refinement of the paged store. The runs
check the same properties on their instances.

Each proof has the same shape: an inductive invariant that is a conjunction of
named parts, a lemma for the initial states, one step (or lemma) per action,
and a theorem per property that follows from the invariant. An
invariant can also be checked with TLC, by an MC module that extends the proof
module as well.

### The raft node and its store

`RaftNodeProofs.tla` proves, for DnsNode, for every `SnapCount`, `CatchUpN`,
`MaxLog`, `MaxCrashes` and `MaxLeaderSnaps`:

| Theorem | Statement |
|---|---|
| `TypeCorrect` | `Spec => []TypeOK` |
| `Inductive` | `Spec => []IndInv` |
| `WALOpens` | `Spec => []WALOpensAtSnapshot` |
| `NeverRecompacts` | `Spec => []CompactsForward` |
| `InOrder` | `Spec => []AppliesInOrder` |
| `ReaderNeverGone` | `Spec => []ReaderAlive` |
| `NoOtherLoss` | `Spec => []LossExcused` |
| `SnapshotsAdvance` | `Spec => SnapshotsForward` |

Assumptions: `ThresholdAssumption` (naturals, `SnapCount >= CatchUpN`) and
`BoundAssumption`. The inequality is needed: with `snapshotCatchUpEntriesN`
larger than `defaultSnapCount`, the second snapshot would compact below the
first and panic. The code sets both constants to 10000 and relates them
nowhere else.

The argument. None of the properties is inductive by itself. That the reader
never returns, for instance, depends on when a nil can be sent, which depends
on `lastIndex` against `applied`, on where the raft goroutine is, and on
whether a snapshot exists. `IndInv == TypeOK /\ IndexInv /\ ReaderInv /\
LossInv` says
* `IndexInv`: for each place of the raft goroutine, how `applied`,
  `snapshotIndex`, `offset`, the snapshot being written and the durable state
  are ordered (in particular `snapshotIndex + SnapCount < applied` while an own
  snapshot is written, from which compaction goes forward);
* `ReaderInv`: where the reader can be meanwhile; a second nil is only ever due
  to a spawned reader if there is a snapshot to load; everything in the store
  precedes the entry in the reader's hand;
* `LossInv`: the proposals covered by the store, by the newest snapshot and by
  the one being written, up to the excused ones, so that whichever of them
  becomes the store next loses nothing.

`RaftTypeOK` and `IndexInv` speak of the raft goroutine only. They are proved
once, of `RaftMove`, its steps whoever reads `commitC` (`RaftTypeStep`,
`IndexStep`, `SnapForward`); a step of either composition is such a move or
leaves its variables alone (`DnsRaftOrNot`, `KvRaftOrNot`).

### The original reader

The same module proves, under the same assumptions, for KvNode:

| Theorem | Statement |
|---|---|
| `KvInductive` | `KvSpec => []KvInv` |
| `KvTypesAndReader` | `KvSpec => [](KvTypeOK /\ spc # "gone")` |
| `KvInOrder` | `KvSpec => []KvAppliesInOrder` |
| `KvNoOtherLoss` | `KvSpec => []KvLossExcused` |
| `KvRaftSafe` | `KvSpec => [](WALOpensAtSnapshot /\ CompactsForward) /\ SnapshotsForward` |

`KvInv == KvTypeOK /\ IndexInv /\ KvReaderInv /\ KvLossInv`. `IndexInv` is
shared with DnsNode. The reader differs: its first call loads the newest
snapshot as often as a nil comes, over whatever it has applied. That it applies
in order all the same rests on `KvReaderInv`: until the replay's nil the map
holds at most what the snapshot holds, afterwards nothing but what precedes
`applied` or is in the newest snapshot. `KvLossInv` says what the map covers
only once the reader has been spawned; before, entries published behind the
snapshot are covered by nothing that has been loaded.

### The process of a node

`NodeServerProofs.tla` proves, for every set of requests (infinite ones
included) and every `MaxRestarts`:

| Theorem | Statement |
|---|---|
| `ServerInductive` | `Spec => []ServerInv` |
| `ServerTypes` | `Spec => []TypeOK` |
| `ProposedInOrder` | `Spec => []ProposedOnceInOrder` |
| `OneLossPerLife` | `Spec => []AckedLossBounded` |

Assumption: `ServerAssumption`. `ServerInv == TypeOK /\ WhereInv /\ OrderInv /\
LossInv`. That raft is asked for a request once is not inductive: it depends on
where the request is. `WhereInv` says that a request is with its handler, in
the hand of the proposal goroutine, with raft, or gone, and in one place only;
`OrderInv` that nothing proposed had to wait for what is in hand; `LossInv`
counts the lost requests other than the one in hand: as many as lives of the
process that have ended, at most. The last theorem takes the hand back into
account with `FS_AddElement`.

### The paged store

`PagedNodeProofs.tla` proves, for any set of pages and any `PageStoreMaxLen`
above 0, with PagedStore's `Spec` and PagedNode's `NodeSpec`:

| Theorem | Statement |
|---|---|
| `PagedInductive` | `Spec => []ExactInv` |
| `PagedTypes` | `Spec => []TypeOK` |
| `ListsAgree` | `Spec => []LRUConsistent` |
| `PagingIsTransparent` | `Spec => ImplementsFlat` |
| `NodeInductive` | `NodeSpec => []PagedInv` |
| `NodeListsAgree` | `NodeSpec => [](TypeOK /\ LRUConsistent)` |
| `NodeStoresInOrder` | `NodeSpec => []StoresInOrder` |
| `NodeLossExcused` | `NodeSpec => []PageLossExcused` |

Assumption: `PageAssumption`. `PagedInv == CounterInv /\ ListInv /\
RenamingInv /\ CopyInv /\ CoverInv`:
* `CopyInv`: every copy of a page, in memory, on file, on its way there or in
  the snapshot, is honest: it holds, in order and but for excused proposals,
  exactly the page's proposals up to its own `LastCommitIndex`, which may be
  beyond every index of the node. This is why `Updated` may skip what is not
  newer, whatever pages of different ages meet after a restart;
* `CoverInv`: what queries see is complete up to `done`, and what a restart
  would bring back (`Recovered`: the snapshot's pages, the files for the
  others) up to the snapshot's index;
* `CounterInv`: a snapshot is ahead of `done` only with the hand-off race's
  entry excused;
* `ListInv`: list and map of memory and of the snapshot fit together; a list
  without repetitions is what makes `Removed` a single element.

`ExactInv` is `PagedInv` with nothing excused, which PagedStore's `Spec` keeps
as it has none of the three gaps. The refinement is proved step by step: an
eviction, a query, a snapshot or the end of a renaming changes no view and is a
stutter of FlatStore; `ApplyEntry` is `Apply`; `CleanRestart` is `Restart`,
since every page it brings back is the initial segment up to the larger of its
`LastCommitIndex` and the snapshot's index.

### A migration

`MigrationProofs.tla` proves, for any clusters, names, requests, placements and
numbers of attempts, restarts and failures:

| Theorem | Statement |
|---|---|
| `MigrationInductive` | `Spec => []MigrationInv` |
| `MigrationTypes` | `Spec => []TypeOK` |
| `MovesOnlyOwnNames` | `Spec => []OnlyOwnNames` |
| `AckedIsFound` | `Spec => []FoundUnlessMoved` |
| `QuietIsExact` | `Spec => []QuietMigrationExact` |

Assumption: `PlacementAssumption`. It has `Names` finite, because the keys of
a map are listed; names of bounded length are finitely many. `MigrationInv ==
TypeOK /\ ClientInv /\ FreshInv /\ HomeInv /\ QuietInv`:
* `ClientInv`: where a request's record can be, from how far the request has
  come: nowhere before it is forwarded, at `placed` or on its way there once it
  is acknowledged, unless raft dropped it or a request deletes its name;
* `QuietInv`: during the retrieval of a quiet migration, what the new cluster
  has, stored or proposed, is what the goroutine of each old cluster has
  passed, in the order in which that cluster's keys were copied at index 0;
* `FreshInv` and `HomeInv`: the new cluster starts empty, and the records of a
  name are at one old cluster, without which two goroutines might bring the
  same name and `QuietInv` would not be inductive.

### The resolver

`ResolverProofs.tla` proves, for every set of stores over any labels and types,
every set of queries, and every behaviour of the cache and of upstream:

| Theorem | Statement |
|---|---|
| `ResolverInductive` | `Spec => []ResolverInv` |
| `FollowsQuestion` | `Spec => []AnswersFollowQuestion` |
| `MostSpecific` | `Spec => []MostSpecificAnswer` |
| `GlueIsAppended` | `Spec => []GlueAppended` |

Assumptions: `LabelAssumption` and `TypeAssumption` (the labels and types the
code itself names), `RecordAssumption` and `QueryAssumption`. Stores and names
may be infinite in number; names are finite sequences of labels.

`ResolverInv == ResolverTypes /\ PlaceInv /\ OriginInv /\ EndsInv /\ GlueInv
/\ AnswersFollowQuestion`. What makes the properties hold is not visible in
them. A message may ask the same question twice, and its runs meet in one
response and one list of unhandled questions: if one ended at a name that has
records and the other at a name that has none, the question would go upstream
although the store has its answer. That they end at the same name is due to the
store's read lock, and to the same CNAME being followed each time:
* `PlaceInv`: the name a question has reached is one its own name leads to, and
  it leads on to every name where the same question has ended before.
  `LeadsTo` is a least closed set, so that no recursion is needed: m is in every
  set of names that holds n and is closed under following aliases
  (`LeadsFurther`, `LeadsOn`, `LeadsToEnd`: two ends of one question are the
  same name). A circle of CNAMEs leads nowhere and ends nowhere, which safety
  allows;
* `OriginInv`: each record of the answer is from outside, from the store as it
  is, or from a wildcard under the name asked for, which then has no records of
  its own;
* `EndsInv`: what has been done for each question that has ended: answered by
  all that its last name has; or, if it has nothing, by the cache, by a
  referral, by the best wildcard, or not at all because there is none;
* `GlueInv`: a referral is the store's, with its glue.

The loop over wildcards is described once for its two places in the code:
`StarMatchIsBest` shows that the first wildcard that has records of the type,
of those got by taking labels off the left, is the longest that covers the name
(`StarForm`, `CoversStar`; `LeastNumber` is where the loop stops).

### Queries at the hash server

`HashQueryProofs.tla` proves, for any handlers, clusters, members and
questions, and any number of failures:

| Theorem | Statement |
|---|---|
| `QueryInductive` | `Spec => []QueryInv` |
| `CompleteReplies` | `Spec => []RepliesComplete` |
| `FailsOver` | `Spec => []Failover` |
| `DiesOnlyUnreachable` | `Spec => []PanicsOnlyUnreachable` |

Assumption: `MemberAssumption`: a cluster has a member, finitely many, and none
of another cluster; the clusters come from a configuration file that lists
them. `QueryInv == TypeInv /\ ListsInv /\ DirectInv /\ RepliesComplete /\
PanicsOnlyUnreachable`:
* `ListsInv`: a member that has not failed since the query began is still in
  the list of every goroutine that runs for its cluster. A list that is
  depleted is therefore one of a cluster without such a member, whatever other
  queries believed of its members, and whenever their records were replaced;
* `DirectInv`: a question of a direct query is still being asked, is answered,
  or its failure has been noted, and a noted failure has a `Reason`.

### The caches of a cluster

`NodeCacheProofs.tla` proves, for any number of machines, any records and Ttls,
any delays and any length of a second:

| Theorem | Statement |
|---|---|
| `NodeCacheInductive` | `Spec => []NodeCacheInv` |
| `NodeCacheTypes` | `Spec => []TypeOK` |
| `StalenessIsBounded` | `Spec => []BoundedStaleness` |
| `AllLearn` | `Spec => []EveryNodeLearns` |

Assumption: `CacheAssumption`. It has `Record` finite, because the records of
an answer are counted; a record has bounded length. `NodeCacheInv == TypeOK /\
HandlerInv /\ WhisperInv /\ CacheInv /\ SpawnedInv /\ EveryNodeLearns`:
* `HandlerInv`, `WhisperInv`: what a handler or a whisper carries stems from an
  answer at most `MaxDelay` old; a whisper shows the Ttl it should or 0;
* `CacheInv`: an entry ends at most `MaxDelay` after an answer that held its
  record, and, unless it shows the Ttl 0, not before one. The arithmetic of
  seconds rounded down is in the lemma `ValidUntil`;
* `SpawnedInv`: a handler that has spawned the whispers of a record has left
  each machine with the record, a whisper under way or a known loss. Without
  it `EveryNodeLearns` would not survive the handler's forgetting the record.

### The maps of the caches

`CacheMapsProofs.tla` proves, for every number of handlers and every set of
answers, records and types, and for each of the three kinds of cache:

| Theorem | Statement |
|---|---|
| `MapsInductive` | `Spec => []MapsInv` |
| `MapsTypes` | `Spec => []TypeOK` |
| `OnlyKnownClashes` | `Spec => []ClashesExplained` |
| `AddsKept` | `Spec => []UndisturbedAddsKept` |

Assumption: `CacheMapsAssumption` (an answer has a record: the loop of
addCacheRecords is not entered for an empty one).
`MapsInv == TypeInv /\ LockInv /\ GarbageInv /\ AddInv`:
* `LockInv`: which handlers the locks of each kind keep apart;
* `GarbageInv`: a map nobody refers to is empty, so that a new one is;
* `AddInv`: unless an add was disturbed, all who add hold the map of the cache,
  whose content is what has been added; before the cache has one, a single
  handler may be about to put an empty one in. `UndisturbedAddsKept` alone says
  nothing of the time during an add, and is therefore not inductive.

### Only model-checked

The properties under fairness, which are out of the prover's reach:
`StartupCompletes`, `CommittedApplied`, `FreshStartServes`, `MigrationEnds`,
`AnsweredUnlessLoop`, `WritesAnswered`, `StopsWhenTold`.

## Findings

Each is a run that TLC ends with a counterexample to what a comment says.

1. `dns_node_hand_off` — `dns/raft.go:356`. The raft goroutine labels a
   snapshot with `appliedIndex` while the reader may hold the last entry, not
   yet applied. After a restart from it the entry is gone.
2. `migration_refused` — `dns/hash_server/hash_server.go:272`. `/addcluster`
   is refused because the migration itself has disabled writes; `log.Fatal`,
   and writes stay disabled. A migration succeeds only if the hash server is
   restarted in the middle of it (which enables writes).

## Known gaps

Behaviour that the models have because the code has it, that the passing
properties name as an exception, and that no run of its own demonstrates.

| Where | What happens | Exception in |
|---|---|---|
| `dns/dns_store.go:333` | a leader's snapshot that arrives during the replay: its nil is taken for the end of the replay and the snapshot is not loaded | `excused` in `PublishSnapshot`, `LossExcused` |
| `dns/raft.go:430` | a crash between `wal.Save` and `saveSnap` of a leader's snapshot leaves a commit index beyond the log, on which the next start panics | `fate = "commitOutOfRange"`, `Ended` |
| `dns/raft.go:356`, `dns/main.go:71` | more than `snapCount` replayed entries: the snapshot closure is called on a nil store | `fate = "nilStore"`, `Ended` |
| `example/kvstore.go:69` | with a snapshot on disk `newKVStore` never returns; the nil at the end of the replay loads the snapshot over newer entries | `FreshStartServes` (no snapshot), `excused` in `Load` |
| `dns/paged_dns_store.go:111` | a crash between `Remove` and `Rename` loses the page | `excused` in `PagedNode!CrashRestart` |
| `dns/httpapi.go:268` | `/getrecord` on a member restarted since `/addcluster` panics with the read lock held; the member applies nothing any more | `wedged` in `MigrationEnds` |
| `dns/httpapi.go:27` | a new partition count may move a name between two *old* clusters; it is not copied and not found | `OnlyOwnNames` and `QuietMigrationExact` speak of the new cluster's names |
| `dns/dns.go:133` | CNAMEs in a circle: unbounded recursion under the read lock | `Looping` in `AnsweredUnlessLoop` |
| `dns/dns_store.go:159` | glue of a name server spelled in capitals is not found | `GlueAppended` |
| `dns/hash_server/hash_server.go:472` | no member of a cluster reachable during a broadcast: nil dereference in a goroutine, the process ends | `PanicsOnlyUnreachable` |
| `dns/hash_server/hash_server.go:470` | the broadcast merges responses when `err != nil`: what clusters answer is dropped, so a name that only a wildcard of another cluster answers is never found | `RepliesComplete` speaks of direct and cached replies |
| `dns/hash_server/hash_server.go:308` | the ring is replaced by an empty one and filled under use: a query that meets it empty ends the process, one that meets it half filled asks the wrong cluster, a write goes to the wrong cluster | `missing` in `PanicsOnlyUnreachable`; `placed` in `OnlyOwnNames` and `FoundUnlessMoved` |
| `dns/hash_server/hash_server.go:161` | a write that passed the test of `writeEnabled` is forwarded after `/disablewrite` has been acknowledged; the migration may miss it | `quiet` in `QuietMigrationExact`; `placed` in `FoundUnlessMoved` |
| `dns/hash_server/hash_server.go:255` | the new cluster list is not written to the configuration: a restarted hash server asks the old clusters for what was written to the new one | `placed` in `FoundUnlessMoved` |
| `dns/paged_dns_store.go:532` | the snapshot a leader sends holds only the pages in its memory; the follower's other pages lag behind | `excused` in `PageLossExcused` |
| `dns/hash_server/hash_server.go:539` | expired records are deleted from the map under the read lock: two lookups at once may abort the process | `ClashesExplained` |
| `dns/dns_store.go:124` | the cache of a node is written without a lock: two handlers may abort the process, or each put in a map of its own, of which one is lost | `ClashesExplained` (nothing is claimed of the plain store), `disturbed` in `UndisturbedAddsKept` |
| `dns/dns_store.go:140` | a whisper printed while the Ttl is 0 brings the peer a record that is over at once, or, if the two prints differ in length, a request that fails | `spoiled` in `EveryNodeLearns` |
| `dns/raft.go:405` | a write is answered 204 before raft is asked, and what raft says is ignored: the one in hand is lost in a crash, all in hand or waiting after `node.Stop` | `AckedLossBounded` |
| `dns/httpapi.go:75` | without a leader a handler waits for ever; there is no timeout | `<>[]leader` in `WritesAnswered` |

## Not modelled

* Elections, replication and the transport: the raft library is external and
  appears by the contract of `Ready`.
* File-system errors other than crashes (`saveSnap`'s error at
  `dns/raft.go:432` is ignored by the code).
* `ReportSnapshot` and `ReportUnreachable`, which do nothing (`dns/raft.go:481`):
  the effect is on a leader inside the raft library.
* Several records per name in NodeCache beyond the two of an answer, names in
  CacheMaps beyond one: entries of different names meet only in an eviction,
  which is a step of its own.
* `/addcluster` with another list under queries: HashQuery replaces the ring by
  one of the same clusters, Migration covers the other lists, with writes.
* The zone-file loader (`loadFromZoneFile`), which nothing calls; the
  benchmarks and the remote-shutdown tool, which are no part of the system.
* Formatting and parsing of HTTP bodies, flags and configuration files.

## Plan

Done: RaftNode and DnsNode first, because everything rests on them; their
proofs; KvNode as the control; the paged store with its abstract specification;
Migration, Resolver and HashQuery; then the caches (NodeCache, CacheMaps), the
way of a write to raft and the shutdown (NodeServer), the replacement of the
ring in Migration and HashQuery, and queries of several questions; the proofs
about NodeServer and CacheMaps; then those about KvNode, HashQuery, Migration,
NodeCache and the paged store with its refinement; last the raft goroutine
proved once for both readers, and the resolver.

What could follow: `/member` changes the peers of the raft node (NodeServer ends
at raft's acceptance and DnsNode sees a silent entry); the composition of
HashQuery with a migration to another list; action properties beyond
`SnapshotsForward` (what a step of the hash server's ring or of a cache may
never do).
