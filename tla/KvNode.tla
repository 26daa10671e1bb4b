------------------------------- MODULE KvNode -------------------------------
(***************************************************************************)
(* The example program: the raft goroutine of example/raft.go, which is    *)
(* the code of dns/raft.go but for the type sent on commitC, and the       *)
(* original readCommits of example/kvstore.go, from which dns_store.go was *)
(* adapted.  Here one call serves both purposes: newKVStore calls          *)
(* readCommits, which returns on a nil only when there is no snapshot, and *)
(* spawns it again; a nil with a snapshot loads it, whatever has been      *)
(* applied before.                                                         *)
(*                                                                         *)
(* spc: "initRead" / "initApply" / "initLoad" in the call of newKVStore,   *)
(* "read" / "apply" / "reload" in the spawned one, "gone" after it has     *)
(* returned.                                                               *)
(***************************************************************************)
EXTENDS RaftNode

Apart(initial, spawned) == IF spc \in {"initRead", "initApply", "initLoad"}
                           THEN initial ELSE spawned

\* newKVStore makes an empty map and calls readCommits.
NewKVStore ==
  /\ ProcessUp
  /\ spc = "load"
  /\ spc' = "initRead"
  /\ UNCHANGED <<log, walVars, snap, rpc, indexVars, cursorVars, saving, fate,
                 inHand, store, assigned, excused, boundVars>>

\* readCommits receives nil, or an entry.
KvReceiveNil ==
  /\ spc \in {"initRead", "read"}
  /\ spc' = Apart("initLoad", "reload")
  /\ UNCHANGED <<inHand, store, assigned, excused>>

KvReceiveEntry ==
  /\ spc \in {"initRead", "read"}
  /\ spc' = Apart("initApply", "apply")
  /\ inHand' = pub
  /\ UNCHANGED <<store, assigned, excused>>

\* Mutant: the initial call decodes and does not store.
ApplyWhenSpawned ==
  /\ ProcessUp
  /\ spc \in {"initApply", "apply"}
  /\ store' = Apart(store, store \cup {inHand})
  /\ inHand' = 0
  /\ spc' = Apart("initRead", "read")
  /\ UNCHANGED <<log, walVars, snap, rpc, indexVars, cursorVars, saving, fate,
                 assigned, excused, boundVars>>

\* Decode, take the lock, assign.
KvApplyEntry ==
  /\ ProcessUp
  /\ spc \in {"initApply", "apply"}
  /\ store' = store \cup {inHand}
  /\ inHand' = 0
  /\ spc' = Apart("initRead", "read")
  /\ UNCHANGED <<log, walVars, snap, rpc, indexVars, cursorVars, saving, fate,
                 assigned, excused, boundVars>>

\* Mutant: without a snapshot Load() is tried again instead of returning.
LoadRetries ==
  /\ ProcessUp
  /\ spc \in {"initLoad", "reload"}
  /\ IF snap.index = 0
       THEN UNCHANGED <<spc, store, excused>>
       ELSE /\ spc' = Apart("initRead", "read")
            /\ store' = snap.data
            /\ excused' = excused \cup (store \ snap.data)
  /\ UNCHANGED <<log, walVars, snap, rpc, indexVars, cursorVars, saving, fate,
                 inHand, assigned, boundVars>>

\* Load() after a nil: without a snapshot readCommits returns (the initial call
\* to newKVStore, which spawns the next), with one it goes on reading.  What
\* the map held and the snapshot does not is given up.
Load ==
  /\ ProcessUp
  /\ spc \in {"initLoad", "reload"}
  /\ IF snap.index = 0
       THEN spc' = Apart("read", "gone") /\ UNCHANGED <<store, excused>>
       ELSE /\ spc' = Apart("initRead", "read")
            /\ store' = snap.data
            /\ excused' = excused \cup (store \ snap.data)
  /\ UNCHANGED <<log, walVars, snap, rpc, indexVars, cursorVars, saving, fate,
                 inHand, assigned, boundVars>>

\* main(): kvs = newKVStore(...), then the HTTP server.
KvAssignStore ==
  /\ ProcessUp
  /\ spc \in {"read", "apply", "reload", "gone"}
  /\ ~assigned
  /\ assigned' = TRUE
  /\ UNCHANGED <<log, walVars, snap, rpc, indexVars, cursorVars, saving, fate,
                 spc, inHand, store, excused, boundVars>>

---------------------------------------------------------------------------
\* The steps of example/raft.go, by function.
StartRaft == ReplayWAL \/ (ReplayNilSend /\ KvReceiveNil) \/ StartNode

PublishEntries ==
  \/ PublishNormalSend /\ KvReceiveEntry
  \/ PublishSilent
  \/ PublishRemoved
  \/ PublishNilSend /\ KvReceiveNil

KvPublishSnapshot == PublishSnapshotSend /\ KvReceiveNil

SaveSnap == SaveSnapWal \/ SaveSnapFile

MaybeTriggerSnapshot ==
  NoSnapshotDue \/ SnapshotOfNilStore \/ GetSnapshot \/ Compact

ServeChannels == ReadyEntries \/ ReadySnapshot \/ TransportError

KvRaftStep ==
  StartRaft \/ PublishEntries \/ KvPublishSnapshot \/ SaveSnap
  \/ MaybeTriggerSnapshot

KvReaderStep == NewKVStore \/ KvApplyEntry \/ Load

KvNext ==
  \/ \E kind \in Kinds : ClusterCommit(kind)
  \/ ServeChannels
  \/ KvRaftStep
  \/ KvReaderStep
  \/ KvAssignStore
  \/ CrashRestart
  \/ Terminated

KvSpec == RaftInit /\ [][KvNext]_vars

\* Both goroutines and main() run, the cluster goes on committing, and raft
\* hands out what is committed.
KvFairness ==
  /\ WF_vars(KvRaftStep)
  /\ WF_vars(KvReaderStep)
  /\ WF_vars(KvAssignStore)
  /\ WF_vars(\E kind \in Kinds : ClusterCommit(kind))
  /\ SF_vars(ReadyEntries /\ pubEnd' = Len(log))

KvLiveSpec == KvSpec /\ KvFairness

---------------------------------------------------------------------------
\* A value is never overwritten by an older one: what the map reflects precedes
\* the entry in the reader's hand, though snapshots are loaded in the middle of
\* the replay (kvstore.go:69-80).
KvAppliesInOrder == inHand # 0 => \A i \in store : i < inHand

\* The map lacks an applied entry only if a snapshot was taken while it was
\* between the goroutines, a later load dropped it, or the snapshot has not
\* been loaded yet (the nil that loads it comes last, kvstore.go:64-91).
KvLossExcused ==
  spc # "load" =>
    NormalUpTo(applied)
      \subseteq store \cup snap.data \cup {inHand} \cup excused

\* A node that starts without a snapshot gets as far as serving HTTP, unless a
\* snapshot turns up meanwhile or the process ends (kvstore.go:70-72).
FreshStartServes ==
  rpc = "boot" /\ snap.index = 0 ~>
    \/ assigned
    \/ snap.index > 0
    \/ rpc \in {"dead", "stopped"}

=============================================================================
