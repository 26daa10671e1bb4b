------------------------------- MODULE DnsNode -------------------------------
(***************************************************************************)
(* One dns_server process: the raft goroutine of RaftNode and the          *)
(* goroutine that consumes its commit channel, dnsStore.readCommits        *)
(* (dns/dns_store.go), first as readCommits(.., true) inside newDNSStore   *)
(* and then as the spawned readCommits(.., false); and main()'s assignment *)
(* of the variable the getSnapshot closure captures.                       *)
(*                                                                         *)
(* spc: "load" before the initial snapshot is loaded, "initRead" /         *)
(* "initApply" in readCommits(.., true), "read" / "apply" / "reload" in    *)
(* readCommits(.., false), "gone" after it has returned.                   *)
(***************************************************************************)
EXTENDS RaftNode

---------------------------------------------------------------------------
(* The reader's steps.                                                     *)

\* Mutant: the order of the example, nothing is loaded before commitC is read.
LoadNothing ==
  /\ ProcessUp
  /\ spc = "load"
  /\ spc' = "initRead"
  /\ UNCHANGED <<log, walVars, snap, rpc, indexVars, cursorVars, saving, fate,
                 inHand, store, assigned, excused, boundVars>>

\* readCommits(.., true) loads the newest snapshot before it reads commitC.
LoadSnapshot ==
  /\ ProcessUp
  /\ spc = "load"
  /\ store' = snap.data
  /\ spc' = "initRead"
  /\ UNCHANGED <<log, walVars, snap, rpc, indexVars, cursorVars, saving, fate,
                 inHand, assigned, excused, boundVars>>

\* Receiving nil ends the initial call (the second one is spawned); later it
\* is the signal to load a snapshot.
ReceiveNil ==
  /\ spc \in {"initRead", "read"}
  /\ spc' = IF spc = "initRead" THEN "read" ELSE "reload"
  /\ UNCHANGED <<inHand, store, assigned>>

ReceiveEntry ==
  /\ spc \in {"initRead", "read"}
  /\ spc' = IF spc = "initRead" THEN "initApply" ELSE "apply"
  /\ inHand' = pub
  /\ UNCHANGED <<store, assigned>>

\* Decode the proposal, take the lock, insert or delete.
ApplyEntry ==
  /\ ProcessUp
  /\ spc \in {"initApply", "apply"}
  /\ store' = store \cup {inHand}
  /\ inHand' = 0
  /\ spc' = IF spc = "initApply" THEN "initRead" ELSE "read"
  /\ UNCHANGED <<log, walVars, snap, rpc, indexVars, cursorVars, saving, fate,
                 assigned, excused, boundVars>>

\* Mutant: the loop starts over with the nil it has just dealt with.
ReloadAgain ==
  /\ ProcessUp
  /\ spc = "reload"
  /\ spc' = IF snap.index = 0 THEN "gone" ELSE "reload"
  /\ store' = snap.data
  /\ excused' = excused \cup (store \ snap.data)
  /\ UNCHANGED <<log, walVars, snap, rpc, indexVars, cursorVars, saving, fate,
                 inHand, assigned, boundVars>>

\* The non-initial nil: load the newest snapshot, or return if there is none.
\* What the store held and the snapshot does not is given up.
Reload ==
  /\ ProcessUp
  /\ spc = "reload"
  /\ IF snap.index = 0
       THEN spc' = "gone" /\ UNCHANGED <<store, excused>>
       ELSE /\ spc' = "read"
            /\ store' = snap.data
            /\ excused' = excused \cup (store \ snap.data)
  /\ UNCHANGED <<log, walVars, snap, rpc, indexVars, cursorVars, saving, fate,
                 inHand, assigned, boundVars>>

\* main(): dnsStore = newDNSStore(...).
AssignStore ==
  /\ ProcessUp
  /\ spc \in {"read", "apply", "reload"}
  /\ ~assigned
  /\ assigned' = TRUE
  /\ UNCHANGED <<log, walVars, snap, rpc, indexVars, cursorVars, saving, fate,
                 spc, inHand, store, excused, boundVars>>

---------------------------------------------------------------------------
(* Rendezvous on commitC.                                                  *)

ReplayNil   == ReplayNilSend   /\ ReceiveNil   /\ UNCHANGED excused
PublishNil  == PublishNilSend  /\ ReceiveNil   /\ UNCHANGED excused
PublishNormal == PublishNormalSend /\ ReceiveEntry /\ UNCHANGED excused

\* The nil of a snapshot from the leader.  The initial call takes it for the
\* end of the replay and loads nothing: what the snapshot holds and the store
\* does not is given up.
PublishSnapshot ==
  /\ PublishSnapshotSend
  /\ ReceiveNil
  /\ excused' = IF spc = "initRead"
                THEN excused \cup (saving.data \ store) ELSE excused

---------------------------------------------------------------------------
RaftStep ==
  \/ ReplayWAL \/ ReplayNil \/ StartNode
  \/ SaveSnapWal \/ SaveSnapFile \/ PublishSnapshot
  \/ PublishNormal \/ PublishSilent \/ PublishRemoved \/ PublishNil
  \/ NoSnapshotDue \/ SnapshotOfNilStore \/ GetSnapshot \/ Compact

ReaderStep == LoadSnapshot \/ ApplyEntry \/ Reload

Next ==
  \/ \E kind \in Kinds : ClusterCommit(kind)
  \/ ReadyEntries \/ ReadySnapshot
  \/ RaftStep
  \/ ReaderStep
  \/ AssignStore
  \/ TransportError
  \/ CrashRestart
  \/ Terminated

Spec == RaftInit /\ [][Next]_vars

\* Both goroutines and main() run; the cluster goes on committing; raft, once
\* it can, hands out everything the cluster has committed.  Nothing is assumed
\* of crashes, of transport errors or of snapshots from the leader.
Fairness ==
  /\ WF_vars(RaftStep)
  /\ WF_vars(ReaderStep)
  /\ WF_vars(AssignStore)
  /\ WF_vars(\E kind \in Kinds : ClusterCommit(kind))
  /\ SF_vars(ReadyEntries /\ pubEnd' = Len(log))

LiveSpec == Spec /\ Fairness

---------------------------------------------------------------------------
(* Safety.                                                                 *)

ReaderPCs == {"load", "initRead", "initApply", "read", "apply", "reload",
              "gone"}

\* Every variable has its type.
TypeOK ==
  /\ RaftTypeOK
  /\ spc \in ReaderPCs /\ inHand \in Nat /\ store \in SUBSET Nat
  /\ assigned \in BOOLEAN
  /\ excused \in SUBSET Nat

\* No entry is applied behind a later one, and none twice: everything the store
\* reflects precedes the entry in the reader's hand (entriesToApply and the
\* restart index, raft.go:124-136 and 386-387, against the snapshot loaded by
\* the other goroutine, dns_store.go:309-319 and 340-350).
AppliesInOrder == inHand # 0 => \A i \in store : i < inHand

\* The spawned readCommits never meets a nil without a snapshot to load, which
\* would end it and block every later commit (dns_store.go:340-343).
ReaderAlive == spc # "gone"

\* An applied entry is missing from the store only if a snapshot was taken
\* while it was between the two goroutines, or if a nil meant for one purpose
\* was taken for the other; everything else survives restarts, own snapshots
\* and snapshots of the leader.
LossExcused ==
  spc \in {"initRead", "initApply", "read", "apply"} =>
    NormalUpTo(applied) \subseteq store \cup {inHand} \cup excused

---------------------------------------------------------------------------
(* The inductive invariant behind the safety properties.                   *)

\* Where the reader can be, and what the store holds, next to them.
ReaderInv ==
  /\ spc # "gone"
  /\ inHand # 0 <=> spc \in {"initApply", "apply"}
  /\ inHand <= applied
  /\ assigned => Spawned
  /\ Starting => /\ spc \in {"load", "initRead", "read"}
                 /\ spc # "load" => store = snap.data
                 /\ rpc # "restart" => spc # "read"
                 /\ rpc = "replayNil" \/ spc = "read" => lastIndex = 0
  /\ Spawned /\ (lastIndex > applied \/ rpc = "publishNil") => snap.index > 0
  /\ spc = "reload" => snap.index > 0
  /\ \A i \in snap.data : i <= snap.index
  /\ SavingLeaders \/ SavingOwn => \A i \in saving.data : i <= saving.index
  /\ \A i \in store : i <= applied \/ i <= snap.index
  /\ AppliesInOrder

\* What the store, the newest snapshot and the one being written cover.
LossInv ==
  /\ NormalUpTo(snap.index) \subseteq snap.data \cup excused
  /\ SavingLeaders \/ SavingOwn =>
       NormalUpTo(saving.index) \subseteq saving.data \cup excused
  /\ spc = "load" => NormalUpTo(applied) \subseteq snap.data \cup excused
  /\ spc = "reload" =>
       NormalUpTo(applied) \subseteq store \cup snap.data \cup excused
  /\ LossExcused

\* The goroutines' indexes, places and stores fit together at every step; the
\* safety properties above are consequences.
IndInv == TypeOK /\ IndexInv /\ ReaderInv /\ LossInv

---------------------------------------------------------------------------
(* Liveness.                                                               *)

Ended == rpc \in {"dead", "stopped"}

\* newDNSStore returns: exactly one nil reaches readCommits(.., true), however
\* much of the log is in the WAL and wherever the last snapshot was taken
\* (raft.go:244-249 and 180-187, dns_store.go:333-335).
StartupCompletes == rpc = "boot" ~> (assigned \/ Ended)

\* Every committed proposal reaches the store, is covered by a snapshot the
\* store loads, or is one of the excused ones; or the process ends.
CommittedApplied ==
  \A i \in 1..MaxLog :
    (i \in NormalUpTo(Len(log))) ~> (i \in store \cup excused \/ Ended)

---------------------------------------------------------------------------
(* What the comments promise and the code does not do.                     *)

\* raft.go:74-77: all log entries are replayed, then a nil says the channel is
\* current: an idle node whose replay is over holds every applied proposal.
StoreCurrent ==
  rpc = "select" /\ spc = "read" => NormalUpTo(applied) \subseteq store
=============================================================================
