------------------------------- MODULE RaftNode -------------------------------
(***************************************************************************)
(* The raft goroutine of one dns_server process (dns/raft.go): startRaft,  *)
(* replayWAL, the event loop serveChannels and everything it calls, with   *)
(* the two durable objects it keeps, the write-ahead log and the snapshot  *)
(* directory.  The consumer of its commit channel is another goroutine and *)
(* another module (DnsNode, KvNode); this module only names the variables  *)
(* the two share.  A send on the unbuffered commitC is one step of both    *)
(* goroutines: the actions named ...Send say what the sender does and      *)
(* leave the reader's variables to the receive action the consumer's       *)
(* module conjoins.                                                        *)
(*                                                                         *)
(* External: the raft library.  It is the sequence `log' of entries that   *)
(* the cluster has committed, and the contract of node.Ready().            *)
(*                                                                         *)
(* Data abstraction: the store is a function of the entries applied to it, *)
(* so a store (and the payload of a snapshot) is the set of log indexes it *)
(* reflects; entries are applied in increasing order (AppliesInOrder), so  *)
(* the set determines the sequence of operations.                          *)
(***************************************************************************)
EXTENDS Integers, Sequences

CONSTANTS
  SnapCount,       \* defaultSnapCount
  CatchUpN,        \* snapshotCatchUpEntriesN
  MaxLog,          \* bound: entries the cluster commits
  MaxCrashes,      \* bound: crashes of this process
  MaxLeaderSnaps   \* bound: snapshots the leader sends to this node

\* Both thresholds are 10000 in the code; what maybeTriggerSnapshot relies on
\* is that it never keeps more entries than it waits for.
ASSUME ThresholdAssumption ==
  /\ SnapCount \in Nat
  /\ CatchUpN \in Nat
  /\ SnapCount >= CatchUpN

ASSUME BoundAssumption ==
  /\ MaxLog \in Nat
  /\ MaxCrashes \in Nat
  /\ MaxLeaderSnaps \in Nat

VARIABLES
  log,            \* what the cluster has committed: a sequence of entry kinds
  walSnaps,       \* WAL: indexes of the snapshot records in it
  walLast,        \* WAL: index of its last entry
  walCommit,      \* WAL: Commit of the last HardState
  snap,           \* snapshot directory: the newest file, what Load() returns
  rpc,            \* where the raft goroutine is
  applied,        \* rc.appliedIndex
  snapshotIndex,  \* rc.snapshotIndex
  lastIndex,      \* rc.lastIndex, index of the log at start
  offset,         \* index of the first (dummy) entry of rc.raftStorage
  pub,            \* index of the next entry publishEntries looks at
  pubEnd,         \* last index of rd.CommittedEntries
  saving,         \* the snapshot saveSnap is writing
  fate,           \* why the process died, "none" while it has not
  spc,            \* where the goroutine that consumes commitC is
  inHand,         \* the index it has received and not applied yet, 0: none
  store,          \* the indexes whose effect the in-memory store holds
  assigned,       \* main() has assigned the variable getSnapshot captures
  excused,        \* history: indexes given up by a known gap (see DnsNode)
  crashes, leaderSnaps   \* counters for the bounds

walVars    == <<walSnaps, walLast, walCommit>>
indexVars  == <<applied, snapshotIndex, lastIndex, offset>>
cursorVars == <<pub, pubEnd>>
readerVars == <<spc, inHand, store, assigned>>
boundVars  == <<crashes, leaderSnaps>>
raftVars   == <<log, walVars, snap, rpc, indexVars, cursorVars, saving, fate,
                boundVars>>
vars == <<log, walVars, snap, rpc, indexVars, cursorVars, saving, fate,
          readerVars, excused, boundVars>>

\* An entry carries a proposal ("normal"), is applied inside the raft
\* goroutine (an empty entry, or a membership change that keeps this node:
\* "silent"), or removes this node from the cluster ("remove").
Kinds == {"normal", "silent", "remove"}

NoSnapshot == [index |-> 0, data |-> {}]

\* The proposals among the first n entries.
NormalUpTo(n) == {i \in 1..Len(log) : i <= n /\ log[i] = "normal"}

Larger(a, b) == IF a >= b THEN a ELSE b

---------------------------------------------------------------------------
(* The cluster, external: another entry is committed.                      *)

ClusterCommit(kind) ==
  /\ Len(log) < MaxLog
  /\ log' = Append(log, kind)
  /\ UNCHANGED <<walVars, snap, rpc, indexVars, cursorVars, saving, fate,
                 readerVars, excused, boundVars>>

---------------------------------------------------------------------------
(* Start of the process.                                                   *)

\* wal.Open and ReadAll find the record of the snapshot they start from.
ReplayFate == IF snap.index \in walSnaps THEN "none" ELSE "snapshotNotFound"

\* Mutant: the nil is sent whether or not there are entries to replay.
ReplayWALAlwaysNil ==
  /\ rpc = "boot"
  /\ fate' = ReplayFate
  /\ lastIndex' = IF walLast > snap.index THEN walLast ELSE 0
  /\ rpc' = IF fate' # "none" THEN "dead" ELSE "replayNil"
  /\ UNCHANGED <<log, walVars, snap, applied, snapshotIndex, offset,
                 cursorVars, saving, readerVars, excused, boundVars>>

\* Mutant: the nil of an empty replay is forgotten.
ReplayWALNeverNil ==
  /\ rpc = "boot"
  /\ fate' = ReplayFate
  /\ lastIndex' = IF walLast > snap.index THEN walLast ELSE 0
  /\ rpc' = IF fate' # "none" THEN "dead" ELSE "restart"
  /\ UNCHANGED <<log, walVars, snap, applied, snapshotIndex, offset,
                 cursorVars, saving, readerVars, excused, boundVars>>

\* replayWAL: load the newest snapshot, read the log behind it, and remember
\* its last index; with no entry behind it the replay is already over and the
\* nil message is due at once.
ReplayWAL ==
  /\ rpc = "boot"
  /\ fate' = ReplayFate
  /\ lastIndex' = IF walLast > snap.index THEN walLast ELSE 0
  /\ rpc' = IF fate' # "none" THEN "dead"
            ELSE IF walLast > snap.index THEN "restart" ELSE "replayNil"
  /\ UNCHANGED <<log, walVars, snap, applied, snapshotIndex, offset,
                 cursorVars, saving, readerVars, excused, boundVars>>

\* rc.commitC <- nil at the end of replayWAL.
ReplayNilSend ==
  /\ rpc = "replayNil"
  /\ rpc' = "restart"
  /\ UNCHANGED <<log, walVars, snap, indexVars, cursorVars, saving, fate,
                 boundVars>>

\* raft.RestartNode panics when the saved commit index is not in the log.
RestartFate ==
  IF walCommit \in snap.index .. Larger(walLast, snap.index)
  THEN "none" ELSE "commitOutOfRange"

\* The rest of startRaft and the prologue of serveChannels.
StartNode ==
  /\ rpc = "restart"
  /\ fate' = RestartFate
  /\ rpc' = IF fate' = "none" THEN "select" ELSE "dead"
  /\ applied' = snap.index
  /\ snapshotIndex' = snap.index
  /\ offset' = snap.index
  /\ UNCHANGED <<log, walVars, snap, lastIndex, cursorVars, saving,
                 readerVars, excused, boundVars>>

---------------------------------------------------------------------------
(* One round of the event loop.                                            *)

\* Mutant: what raft hands out is published without dropping the applied part.
EntriesUnfiltered(first) == first

\* entriesToApply: the index of the first entry that is published when raft
\* hands out the entries from first on.
EntriesToApply(first) == first + (applied - first + 1)

\* A Ready without a snapshot, and wal.Save: the node's log ends at `last'
\* (uncommitted entries may be replaced), raft knows `commit' to be committed
\* and hands out the committed entries from `first' on.  raft may hand out
\* again what it handed out before (Config.Applied is not set).
ReadyEntries ==
  /\ rpc = "select"
  /\ \E last \in {walLast} \cup (walCommit + 1 .. MaxLog),
        commit \in walCommit .. Len(log),
        first \in offset + 1 .. applied + 1 :
       /\ commit <= Larger(last, snap.index)
       /\ walLast' = last
       /\ walCommit' = commit
       /\ pub' = EntriesToApply(first)
       /\ pubEnd' = commit
  /\ rpc' = "publish"
  /\ UNCHANGED <<log, walSnaps, snap, indexVars, saving, fate, readerVars,
                 excused, boundVars>>

\* A Ready with the leader's snapshot, and wal.Save: the HardState that goes
\* to the WAL already commits the snapshot's index.  raft only hands out a
\* snapshot that is ahead of what it has committed and of what its log holds
\* (a node that holds the entry moves its commit index instead); the entries
\* the leader goes on to send come in a later Ready.
ReadySnapshot ==
  /\ rpc = "select"
  /\ leaderSnaps < MaxLeaderSnaps
  /\ \E index \in Larger(walCommit, walLast) + 1 .. Len(log) :
       /\ walCommit' = index
       /\ saving' = [index |-> index, data |-> NormalUpTo(index)]
  /\ leaderSnaps' = leaderSnaps + 1
  /\ rpc' = "saveSnapWal"
  /\ UNCHANGED <<log, walSnaps, walLast, snap, indexVars, cursorVars, fate,
                 readerVars, excused, crashes>>

\* Mutant: saveSnap writes the file before the record.
SaveSnapFileFirst ==
  /\ rpc \in {"saveSnapWal", "saveLocalWal"}
  /\ snap' = saving
  /\ rpc' = IF rpc = "saveSnapWal" THEN "saveSnapFile" ELSE "saveLocalFile"
  /\ UNCHANGED <<log, walVars, indexVars, cursorVars, saving, fate,
                 readerVars, excused, boundVars>>

\* saveSnap, first half: the record in the WAL.
SaveSnapWal ==
  /\ rpc \in {"saveSnapWal", "saveLocalWal"}
  /\ walSnaps' = walSnaps \cup {saving.index}
  /\ rpc' = IF rpc = "saveSnapWal" THEN "saveSnapFile" ELSE "saveLocalFile"
  /\ UNCHANGED <<log, walLast, walCommit, snap, indexVars, cursorVars,
                 saving, fate, readerVars, excused, boundVars>>

\* saveSnap, second half: the file; for the leader's snapshot raftStorage
\* starts over at its index.
SaveSnapFile ==
  /\ rpc \in {"saveSnapFile", "saveLocalFile"}
  /\ snap' = saving
  /\ offset' = IF rpc = "saveSnapFile" THEN saving.index ELSE offset
  /\ rpc' = IF rpc = "saveSnapFile" THEN "publishSnapshot" ELSE "compact"
  /\ UNCHANGED <<log, walVars, applied, snapshotIndex, lastIndex, cursorVars,
                 saving, fate, readerVars, excused, boundVars>>

\* publishSnapshot: the nil that tells the store to load it, then the indexes.
PublishSnapshotSend ==
  /\ rpc = "publishSnapshot"
  /\ applied' = saving.index
  /\ snapshotIndex' = saving.index
  /\ pub' = saving.index + 1
  /\ pubEnd' = saving.index
  /\ rpc' = "publish"
  /\ UNCHANGED <<log, walVars, snap, lastIndex, offset, saving, fate,
                 boundVars>>

\* What follows in publishEntries once entry pub has been dealt with.
Published ==
  /\ applied' = pub
  /\ pub' = pub + 1
  /\ rpc' = IF pub = lastIndex THEN "publishNil" ELSE "publish"

\* publishEntries, a proposal: rc.commitC <- &newCommitInfo.
PublishNormalSend ==
  /\ rpc = "publish" /\ pub <= pubEnd
  /\ log[pub] = "normal"
  /\ Published
  /\ UNCHANGED <<log, walVars, snap, snapshotIndex, lastIndex, offset, pubEnd,
                 saving, fate, boundVars>>

\* publishEntries, an empty entry or a change of another member.
PublishSilent ==
  /\ rpc = "publish" /\ pub <= pubEnd
  /\ log[pub] = "silent"
  /\ Published
  /\ UNCHANGED <<log, walVars, snap, snapshotIndex, lastIndex, offset, pubEnd,
                 saving, fate, readerVars, excused, boundVars>>

\* publishEntries, this node leaves the cluster: return false, rc.stop().
PublishRemoved ==
  /\ rpc = "publish" /\ pub <= pubEnd
  /\ log[pub] = "remove"
  /\ rpc' = "stopped"
  /\ UNCHANGED <<log, walVars, snap, indexVars, cursorVars, saving, fate,
                 readerVars, excused, boundVars>>

\* publishEntries, the special nil commit behind entry lastIndex.
PublishNilSend ==
  /\ rpc = "publishNil"
  /\ rpc' = "publish"
  /\ UNCHANGED <<log, walVars, snap, indexVars, cursorVars, saving, fate,
                 boundVars>>

---------------------------------------------------------------------------
(* maybeTriggerSnapshot, and the end of the round.                         *)

SnapshotDue == applied - snapshotIndex > SnapCount

RoundOver == rpc = "publish" /\ pub > pubEnd

\* Nothing to snapshot: rc.node.Advance().
NoSnapshotDue ==
  /\ RoundOver
  /\ ~SnapshotDue
  /\ rpc' = "select"
  /\ UNCHANGED <<log, walVars, snap, indexVars, cursorVars, saving, fate,
                 readerVars, excused, boundVars>>

\* The closure calls getSnapshot on a store variable that is still nil.
SnapshotOfNilStore ==
  /\ RoundOver
  /\ SnapshotDue
  /\ ~assigned
  /\ fate' = "nilStore"
  /\ rpc' = "dead"
  /\ UNCHANGED <<log, walVars, snap, indexVars, cursorVars, saving,
                 readerVars, excused, boundVars>>

\* getSnapshot, under the store's lock, and CreateSnapshot(appliedIndex, data).
\* The history variable records what the goroutine behind commitC still owes
\* the store at this moment.
GetSnapshot ==
  /\ RoundOver
  /\ SnapshotDue
  /\ assigned
  /\ saving' = [index |-> applied, data |-> store]
  /\ excused' = excused \cup ({inHand} \ {0})
                        \cup (IF spc = "reload" THEN snap.data ELSE {})
  /\ rpc' = "saveLocalWal"
  /\ UNCHANGED <<log, walVars, snap, indexVars, cursorVars, fate, readerVars,
                 boundVars>>

\* Mutant: one entry more is kept than the threshold allows.
CompactIndexOffByOne ==
  IF applied > CatchUpN THEN applied - CatchUpN - 1 ELSE 1

\* Mutant: compaction counts from the previous snapshot, without a guard.
CompactIndexUnguarded == snapshotIndex - CatchUpN

CompactIndex == IF applied > CatchUpN THEN applied - CatchUpN ELSE 1

\* raftStorage.Compact returns ErrCompacted at or below its first index, and
\* the caller panics.
CompactFate == IF CompactIndex <= offset THEN "errCompacted" ELSE "none"

\* Mutant: maybeTriggerSnapshot does not remember that it took a snapshot.
CompactForgetsIndex ==
  /\ rpc = "compact"
  /\ fate' = CompactFate
  /\ rpc' = IF fate' = "none" THEN "select" ELSE "dead"
  /\ offset' = CompactIndex
  /\ UNCHANGED <<log, walVars, snap, applied, snapshotIndex, lastIndex,
                 cursorVars, saving, readerVars, excused, boundVars>>

Compact ==
  /\ rpc = "compact"
  /\ fate' = CompactFate
  /\ rpc' = IF fate' = "none" THEN "select" ELSE "dead"
  /\ offset' = CompactIndex
  /\ snapshotIndex' = applied
  /\ UNCHANGED <<log, walVars, snap, applied, lastIndex, cursorVars, saving,
                 readerVars, excused, boundVars>>

---------------------------------------------------------------------------
(* The ways out.                                                           *)

\* An error of the transport: writeError.
TransportError ==
  /\ rpc = "select"
  /\ rpc' = "stopped"
  /\ UNCHANGED <<log, walVars, snap, indexVars, cursorVars, saving, fate,
                 readerVars, excused, boundVars>>

\* The process is killed, or is found dead, and is started again: everything
\* but the WAL and the snapshot directory is lost.
CrashRestart ==
  /\ crashes < MaxCrashes
  /\ crashes' = crashes + 1
  /\ rpc' = "boot"
  /\ applied' = 0 /\ snapshotIndex' = 0 /\ lastIndex' = 0 /\ offset' = 0
  /\ pub' = 0 /\ pubEnd' = 0
  /\ saving' = NoSnapshot
  /\ fate' = "none"
  /\ spc' = "load" /\ inHand' = 0 /\ store' = {} /\ assigned' = FALSE
  /\ UNCHANGED <<log, walVars, snap, excused, leaderSnaps>>

\* log.Fatal and a panic end the whole process; rc.stop() only this goroutine.
ProcessUp == rpc # "dead"

\* The node is down or shutting down, and nobody starts it again.
Terminated ==
  /\ rpc \in {"dead", "stopped"}
  /\ UNCHANGED vars

RaftInit ==
  /\ log = <<>>
  /\ walSnaps = {0} /\ walLast = 0 /\ walCommit = 0
  /\ snap = NoSnapshot
  /\ rpc = "boot"
  /\ applied = 0 /\ snapshotIndex = 0 /\ lastIndex = 0 /\ offset = 0
  /\ pub = 0 /\ pubEnd = 0
  /\ saving = NoSnapshot
  /\ fate = "none"
  /\ spc = "load" /\ inHand = 0 /\ store = {} /\ assigned = FALSE
  /\ excused = {}
  /\ crashes = 0 /\ leaderSnaps = 0

---------------------------------------------------------------------------
(* What the invariants of DnsNode and KvNode share.                        *)

Fates == {"none", "snapshotNotFound", "commitOutOfRange", "nilStore",
          "errCompacted"}

RaftPCs == {"boot", "replayNil", "restart", "select", "publish", "publishNil",
            "saveSnapWal", "saveSnapFile", "publishSnapshot", "saveLocalWal",
            "saveLocalFile", "compact", "stopped", "dead"}

SnapshotType == [index : Nat, data : SUBSET Nat]

\* The variables of the raft goroutine, the disk and the cluster.
RaftTypeOK ==
  /\ log \in Seq(Kinds)
  /\ walSnaps \in SUBSET Nat /\ walLast \in Nat /\ walCommit \in Nat
  /\ snap \in SnapshotType /\ saving \in SnapshotType
  /\ rpc \in RaftPCs
  /\ applied \in Nat /\ snapshotIndex \in Nat /\ lastIndex \in Nat
  /\ offset \in Nat
  /\ pub \in Nat /\ pubEnd \in Nat
  /\ fate \in Fates
  /\ crashes \in Nat /\ leaderSnaps \in Nat

Spawned == spc \in {"read", "apply", "reload"}

Starting      == rpc \in {"boot", "replayNil", "restart"}
SavingLeaders == rpc \in {"saveSnapWal", "saveSnapFile", "publishSnapshot"}
SavingOwn     == rpc \in {"saveLocalWal", "saveLocalFile", "compact"}

\* What the indexes of the raft goroutine and the durable state say of each
\* other at each place of the goroutine.
IndexInv ==
  /\ fate \in {"none", "commitOutOfRange", "nilStore"}
  /\ snap.index \in walSnaps
  /\ snap.index <= walCommit /\ walCommit <= Len(log)
  /\ Starting => applied = 0
  /\ ~Starting =>
       /\ applied <= walCommit
       /\ rpc \notin {"publishSnapshot", "compact", "dead"} =>
            /\ snapshotIndex = snap.index
            /\ snap.index <= applied
       /\ rpc \notin {"publishSnapshot", "dead"} => offset <= snapshotIndex
  /\ rpc \in {"publish", "publishNil"} =>
       pub = applied + 1 /\ pubEnd <= walCommit
  /\ rpc = "publishNil" => lastIndex = applied
  /\ rpc \in {"saveSnapFile", "saveLocalFile"} => saving.index \in walSnaps
  /\ SavingLeaders => applied < saving.index /\ saving.index <= walCommit
  /\ SavingOwn => saving.index = applied /\ snapshotIndex + SnapCount < applied
  /\ rpc \in {"publishSnapshot", "compact"} => snap = saving
  /\ rpc = "publishSnapshot" => offset = saving.index

\* The WAL is only ever opened at a snapshot index recorded in it, whenever
\* the process dies (the order of the two writes in saveSnap, raft.go:107-122).
WALOpensAtSnapshot ==
  /\ snap.index \in walSnaps
  /\ fate # "snapshotNotFound"

\* maybeTriggerSnapshot never compacts raftStorage at or below the point it is
\* already compacted to, which would panic (raft.go:368-374), whatever mixture
\* of own and received snapshots led there.
CompactsForward == fate # "errCompacted"

\* A snapshot file is only ever superseded by one of a later index, whichever
\* of the two paths wrote it (saveSnap from raft.go:364 and raft.go:432).
SnapshotsForward == [][snap' # snap => snap'.index > snap.index]_vars
=============================================================================
