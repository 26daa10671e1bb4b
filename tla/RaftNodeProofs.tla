---------------------------- MODULE RaftNodeProofs ----------------------------
(***************************************************************************)
(* The safety of DnsNode and of KvNode for every value of their thresholds *)
(* and bounds.  Both put a reader behind the raft goroutine of RaftNode:   *)
(* what that goroutine keeps (RaftTypeOK and IndexInv) is proved once, of  *)
(* its steps whoever reads; what the reader and its store keep is proved   *)
(* of each of the two.                                                     *)
(***************************************************************************)
EXTENDS DnsNode, KvNode, TLAPS

USE DEF walVars, indexVars, cursorVars, readerVars, boundVars, raftVars,
        ProcessUp

\* What is read from a snapshot file: an index and the entries it holds.
LEMMA SnapshotFields ==
  ASSUME NEW s \in SnapshotType
  PROVE  s.index \in Nat /\ s.data \in SUBSET Nat
BY DEF SnapshotType

\* What saveSnap is given: any index with any set of entries.
LEMMA SnapshotMade ==
  ASSUME NEW n \in Nat, NEW d \in SUBSET Nat
  PROVE  [index |-> n, data |-> d] \in SnapshotType
BY DEF SnapshotType

---------------------------------------------------------------------------
(* The raft goroutine, whoever reads commitC.                              *)

\* A step of the cluster, the raft goroutine or the operating system; a send on
\* commitC without what the reader makes of it.
RaftMove ==
  \/ \E kind \in Kinds : ClusterCommit(kind)
  \/ ReadyEntries \/ ReadySnapshot
  \/ ReplayWAL \/ ReplayNilSend \/ StartNode
  \/ SaveSnapWal \/ SaveSnapFile \/ PublishSnapshotSend
  \/ PublishNormalSend \/ PublishSilent \/ PublishRemoved \/ PublishNilSend
  \/ NoSnapshotDue \/ SnapshotOfNilStore \/ GetSnapshot \/ Compact
  \/ TransportError
  \/ CrashRestart

RaftOrNot == RaftMove \/ UNCHANGED raftVars

\* Every step of dns_server's two goroutines is such a step, or the reader's.
LEMMA DnsRaftOrNot == [Next]_vars => RaftOrNot
BY DEF Next, RaftStep, ReaderStep, Terminated, vars, RaftOrNot, RaftMove,
       ReplayNil, PublishNil, PublishNormal, PublishSnapshot, LoadSnapshot,
       ApplyEntry, Reload, AssignStore

\* So is every step of the example's.
LEMMA KvRaftOrNot == [KvNext]_vars => RaftOrNot
BY DEF KvNext, KvRaftStep, StartRaft, PublishEntries, KvPublishSnapshot,
       SaveSnap, MaybeTriggerSnapshot, ServeChannels, KvReaderStep,
       Terminated, vars, RaftOrNot, RaftMove, NewKVStore, KvApplyEntry, Load,
       KvAssignStore

\* The variables of dns/raft.go and example/raft.go, the disk and the cluster
\* keep their types, if what is put into a snapshot is a store.
LEMMA RaftTypeStep ==
  ASSUME RaftTypeOK, store \in SUBSET Nat, RaftOrNot
  PROVE  RaftTypeOK'
<1> USE ThresholdAssumption, BoundAssumption DEF RaftTypeOK, RaftPCs, Fates
<1>0. /\ snap.index \in Nat /\ saving.index \in Nat
      /\ snap.data \in SUBSET Nat /\ saving.data \in SUBSET Nat
  BY SnapshotFields
<1>1. ASSUME NEW kind \in Kinds, ClusterCommit(kind) PROVE RaftTypeOK'
  BY <1>1 DEF ClusterCommit
<1>2. CASE ReadyEntries
  BY <1>0, <1>2 DEF ReadyEntries, EntriesToApply
<1>3. CASE ReadySnapshot
  <2>1. PICK index \in Larger(walCommit, walLast) + 1 .. Len(log) :
          /\ walCommit' = index
          /\ saving' = [index |-> index, data |-> NormalUpTo(index)]
    BY <1>3 DEF ReadySnapshot
  <2>2. index \in Nat
    BY <2>1 DEF Larger
  <2>3. NormalUpTo(index) \in SUBSET Nat
    BY DEF NormalUpTo
  <2>4. saving' \in SnapshotType
    BY <2>1, <2>2, <2>3, SnapshotMade
  <2> QED
    BY <1>3, <2>1, <2>2, <2>4 DEF ReadySnapshot
<1>4. CASE ReplayWAL
  BY <1>0, <1>4 DEF ReplayWAL, ReplayFate
<1>5. CASE ReplayNilSend
  BY <1>0, <1>5 DEF ReplayNilSend
<1>6. CASE StartNode
  BY <1>0, <1>6 DEF StartNode, RestartFate
<1>7. CASE SaveSnapWal
  BY <1>0, <1>7 DEF SaveSnapWal
<1>8. CASE SaveSnapFile
  BY <1>0, <1>8 DEF SaveSnapFile
<1>9. CASE PublishSnapshotSend
  BY <1>0, <1>9 DEF PublishSnapshotSend
<1>10. CASE PublishNormalSend
  BY <1>0, <1>10 DEF PublishNormalSend, Published
<1>11. CASE PublishSilent
  BY <1>0, <1>11 DEF PublishSilent, Published
<1>12. CASE PublishRemoved
  BY <1>0, <1>12 DEF PublishRemoved
<1>13. CASE PublishNilSend
  BY <1>0, <1>13 DEF PublishNilSend
<1>14. CASE NoSnapshotDue
  BY <1>0, <1>14 DEF NoSnapshotDue, RoundOver
<1>15. CASE SnapshotOfNilStore
  BY <1>0, <1>15 DEF SnapshotOfNilStore, RoundOver
<1>16. CASE GetSnapshot
  BY <1>0, <1>16, SnapshotMade DEF GetSnapshot
<1>17. CASE Compact
  BY <1>0, <1>17 DEF Compact, CompactFate, CompactIndex
<1>18. CASE TransportError
  BY <1>0, <1>18 DEF TransportError
<1>19. CASE CrashRestart
  <2>1. NoSnapshot \in SnapshotType
    BY SnapshotMade DEF NoSnapshot
  <2> QED
    BY <1>19, <2>1 DEF CrashRestart
<1>20. CASE UNCHANGED raftVars
  BY <1>20
<1> QED
  BY <1>1, <1>2, <1>3, <1>4, <1>5, <1>6, <1>7, <1>8, <1>9, <1>10, <1>11,
     <1>12, <1>13, <1>14, <1>15, <1>16, <1>17, <1>18, <1>19, <1>20
     DEF RaftOrNot, RaftMove

\* The indexes of dns/raft.go and example/raft.go and the durable state stay
\* consistent.
LEMMA IndexStep ==
  ASSUME RaftTypeOK, IndexInv, RaftOrNot
  PROVE  IndexInv'
<1> USE ThresholdAssumption
    DEF RaftTypeOK, IndexInv, Starting, SavingLeaders, SavingOwn
<1>0. /\ snap.index \in Nat /\ saving.index \in Nat
      /\ snap.data \in SUBSET Nat /\ saving.data \in SUBSET Nat
  BY SnapshotFields
<1>1. ASSUME NEW kind \in Kinds, ClusterCommit(kind) PROVE IndexInv'
  BY <1>1 DEF ClusterCommit
<1>2. CASE ReadyEntries
  BY <1>0, <1>2 DEF ReadyEntries, EntriesToApply
<1>3. CASE ReadySnapshot
  BY <1>0, <1>3 DEF ReadySnapshot, Larger
<1>4. CASE ReplayWAL
  BY <1>0, <1>4 DEF ReplayWAL, ReplayFate
<1>5. CASE ReplayNilSend
  BY <1>0, <1>5 DEF ReplayNilSend
<1>6. CASE StartNode
  BY <1>0, <1>6 DEF StartNode, RestartFate
<1>7. CASE SaveSnapWal
  BY <1>0, <1>7 DEF SaveSnapWal
<1>8. CASE SaveSnapFile
  BY <1>0, <1>8 DEF SaveSnapFile
<1>9. CASE PublishSnapshotSend
  BY <1>0, <1>9 DEF PublishSnapshotSend
<1>10. CASE PublishNormalSend
  BY <1>0, <1>10 DEF PublishNormalSend, Published
<1>11. CASE PublishSilent
  BY <1>0, <1>11 DEF PublishSilent, Published
<1>12. CASE PublishRemoved
  BY <1>0, <1>12 DEF PublishRemoved
<1>13. CASE PublishNilSend
  BY <1>0, <1>13 DEF PublishNilSend
<1>14. CASE NoSnapshotDue
  BY <1>0, <1>14 DEF NoSnapshotDue, RoundOver
<1>15. CASE SnapshotOfNilStore
  BY <1>0, <1>15 DEF SnapshotOfNilStore, RoundOver
<1>16. CASE GetSnapshot
  BY <1>0, <1>16 DEF GetSnapshot, RoundOver, SnapshotDue
<1>17. CASE Compact
  BY <1>0, <1>17 DEF Compact, CompactFate, CompactIndex
<1>18. CASE TransportError
  BY <1>0, <1>18 DEF TransportError
<1>19. CASE CrashRestart
  BY <1>0, <1>19 DEF CrashRestart, NoSnapshot
<1>20. CASE UNCHANGED raftVars
  BY <1>20
<1> QED
  BY <1>1, <1>2, <1>3, <1>4, <1>5, <1>6, <1>7, <1>8, <1>9, <1>10, <1>11,
     <1>12, <1>13, <1>14, <1>15, <1>16, <1>17, <1>18, <1>19, <1>20
     DEF RaftOrNot, RaftMove

\* Only saveSnap's second half replaces the newest snapshot.
LEMMA OnlySaveChangesSnap ==
  ASSUME RaftOrNot, snap' # snap
  PROVE  SaveSnapFile
BY DEF RaftOrNot, RaftMove, ClusterCommit, ReadyEntries, ReadySnapshot,
       ReplayWAL, ReplayNilSend, StartNode, SaveSnapWal, PublishSnapshotSend,
       PublishNormalSend, PublishSilent, PublishRemoved, PublishNilSend,
       NoSnapshotDue, SnapshotOfNilStore, GetSnapshot, Compact,
       TransportError, CrashRestart

\* It replaces it by a later one (raft.go:364 and raft.go:432).
LEMMA SnapForward ==
  ASSUME RaftTypeOK, IndexInv, RaftOrNot, snap' # snap
  PROVE  snap'.index > snap.index
<1>1. SaveSnapFile
  BY OnlySaveChangesSnap
<1>2. snap.index \in Nat /\ saving.index \in Nat
  BY SnapshotFields DEF RaftTypeOK
<1> QED
  BY <1>1, <1>2, ThresholdAssumption
     DEF SaveSnapFile, RaftTypeOK, IndexInv, Starting, SavingLeaders,
         SavingOwn

\* A freshly created process satisfies what the goroutine keeps.
LEMMA InitRaft == RaftInit => RaftTypeOK /\ IndexInv
<1> SUFFICES ASSUME RaftInit PROVE RaftTypeOK /\ IndexInv
  OBVIOUS
<1>1. snap \in SnapshotType /\ saving \in SnapshotType
  BY SnapshotMade DEF RaftInit, NoSnapshot
<1>2. rpc \in RaftPCs /\ fate \in Fates
  BY DEF RaftInit, RaftPCs, Fates
<1>3. RaftTypeOK
  <2>1. log \in Seq(Kinds)
    BY DEF RaftInit
  <2> QED
    BY <1>1, <1>2, <2>1 DEF RaftInit, RaftTypeOK
<1>4. snap.index = 0 /\ Len(log) = 0
  BY DEF RaftInit, NoSnapshot
<1> QED
  BY <1>3, <1>4 DEF RaftInit, IndexInv, Starting, SavingLeaders, SavingOwn

---------------------------------------------------------------------------
(* dns_server: the reader of dns_store.go.                                 *)

\* Every variable keeps its type (dns/raft.go and dns/dns_store.go).
LEMMA TypeStep == ASSUME TypeOK, [Next]_vars PROVE TypeOK'
<1> USE DEF TypeOK, ReaderPCs
<1>0. /\ RaftTypeOK'
      /\ snap.data \in SUBSET Nat /\ saving.data \in SUBSET Nat
      /\ pub \in Nat
  BY RaftTypeStep, DnsRaftOrNot, SnapshotFields DEF RaftTypeOK
<1>1. CASE ReplayNil \/ PublishNil
  BY <1>0, <1>1 DEF ReplayNil, PublishNil, ReceiveNil
<1>2. CASE PublishSnapshot
  BY <1>0, <1>2 DEF PublishSnapshot, ReceiveNil
<1>3. CASE PublishNormal
  BY <1>0, <1>3 DEF PublishNormal, ReceiveEntry
<1>4. CASE GetSnapshot
  BY <1>0, <1>4 DEF GetSnapshot
<1>5. CASE LoadSnapshot
  BY <1>0, <1>5 DEF LoadSnapshot
<1>6. CASE ApplyEntry
  BY <1>0, <1>6 DEF ApplyEntry
<1>7. CASE Reload
  BY <1>0, <1>7 DEF Reload
<1>8. CASE AssignStore
  BY <1>0, <1>8 DEF AssignStore
<1>9. CASE CrashRestart
  BY <1>0, <1>9 DEF CrashRestart
<1>10. CASE UNCHANGED <<readerVars, excused>>
  BY <1>0, <1>10
<1> QED
  BY <1>1, <1>2, <1>3, <1>4, <1>5, <1>6, <1>7, <1>8, <1>9, <1>10
     DEF Next, RaftStep, ReaderStep, Terminated, vars, ClusterCommit,
         ReadyEntries, ReadySnapshot, ReplayWAL, StartNode, SaveSnapWal,
         SaveSnapFile, PublishSilent, PublishRemoved, NoSnapshotDue,
         SnapshotOfNilStore, Compact, TransportError

\* The reader's place, the entry in its hand and the store stay consistent with
\* raft.go's indexes.
LEMMA ReaderInvStep ==
  ASSUME TypeOK, IndexInv, ReaderInv, [Next]_vars
  PROVE  ReaderInv'
<1> USE ThresholdAssumption
    DEF TypeOK, RaftTypeOK, IndexInv, ReaderInv, AppliesInOrder, Starting,
        SavingLeaders, SavingOwn, Spawned
<1>0. /\ snap.index \in Nat /\ saving.index \in Nat
      /\ snap.data \in SUBSET Nat /\ saving.data \in SUBSET Nat
  BY SnapshotFields DEF TypeOK, RaftTypeOK
<1>1. ASSUME NEW kind \in Kinds, ClusterCommit(kind) PROVE ReaderInv'
  BY <1>1 DEF ClusterCommit
<1>2. CASE ReadyEntries
  BY <1>0, <1>2 DEF ReadyEntries, EntriesToApply
<1>3. CASE ReadySnapshot
  BY <1>0, <1>3 DEF ReadySnapshot, Larger, NormalUpTo
<1>4. CASE ReplayWAL
  BY <1>0, <1>4 DEF ReplayWAL, ReplayFate
<1>5. CASE ReplayNil
  BY <1>0, <1>5 DEF ReplayNil, ReplayNilSend, ReceiveNil
<1>6. CASE StartNode
  BY <1>0, <1>6 DEF StartNode, RestartFate
<1>7. CASE SaveSnapWal
  BY <1>0, <1>7 DEF SaveSnapWal
<1>8. CASE SaveSnapFile
  BY <1>0, <1>8 DEF SaveSnapFile
<1>9. CASE PublishSnapshot
  BY <1>0, <1>9 DEF PublishSnapshot, PublishSnapshotSend, ReceiveNil
<1>10. CASE PublishNormal
  BY <1>0, <1>10 DEF PublishNormal, PublishNormalSend, ReceiveEntry, Published
<1>11. CASE PublishSilent
  BY <1>0, <1>11 DEF PublishSilent, Published
<1>12. CASE PublishRemoved
  BY <1>0, <1>12 DEF PublishRemoved
<1>13. CASE PublishNil
  BY <1>0, <1>13 DEF PublishNil, PublishNilSend, ReceiveNil
<1>14. CASE NoSnapshotDue
  BY <1>0, <1>14 DEF NoSnapshotDue, RoundOver
<1>15. CASE SnapshotOfNilStore
  BY <1>0, <1>15 DEF SnapshotOfNilStore, RoundOver
<1>16. CASE GetSnapshot
  BY <1>0, <1>16 DEF GetSnapshot, RoundOver, SnapshotDue
<1>17. CASE Compact
  BY <1>0, <1>17 DEF Compact, CompactFate, CompactIndex
<1>18. CASE LoadSnapshot
  BY <1>0, <1>18 DEF LoadSnapshot
<1>19. CASE ApplyEntry
  BY <1>0, <1>19 DEF ApplyEntry
<1>20. CASE Reload
  BY <1>0, <1>20 DEF Reload
<1>21. CASE AssignStore
  BY <1>0, <1>21 DEF AssignStore
<1>22. CASE TransportError
  BY <1>0, <1>22 DEF TransportError
<1>23. CASE CrashRestart
  BY <1>0, <1>23 DEF CrashRestart, NoSnapshot
<1>24. CASE UNCHANGED vars
  BY <1>24 DEF vars
<1> QED
  BY <1>1, <1>2, <1>3, <1>4, <1>5, <1>6, <1>7, <1>8, <1>9, <1>10, <1>11,
     <1>12, <1>13, <1>14, <1>15, <1>16, <1>17, <1>18, <1>19, <1>20, <1>21,
     <1>22, <1>23, <1>24 DEF Next, RaftStep, ReaderStep, Terminated

\* What snapshots and store cover stays covered (raft.go:330-378,
\* dns_store.go:304-387).
LEMMA LossStep ==
  ASSUME TypeOK, IndexInv, ReaderInv, LossInv, [Next]_vars
  PROVE  LossInv'
<1> USE ThresholdAssumption
    DEF TypeOK, RaftTypeOK, IndexInv, ReaderInv, LossInv, LossExcused,
        NormalUpTo, Starting, SavingLeaders, SavingOwn, Spawned
<1>0. /\ snap.index \in Nat /\ saving.index \in Nat
      /\ snap.data \in SUBSET Nat /\ saving.data \in SUBSET Nat
  BY SnapshotFields DEF TypeOK, RaftTypeOK
<1>1. ASSUME NEW kind \in Kinds, ClusterCommit(kind) PROVE LossInv'
  <2>1. /\ Len(log') = Len(log) + 1
        /\ \A i \in 1..Len(log) : log'[i] = log[i]
    BY <1>1 DEF ClusterCommit
  <2>2. applied <= Len(log) /\ snap.index <= Len(log)
    BY <1>0
  <2> QED
    BY <1>0, <1>1, <2>1, <2>2 DEF ClusterCommit
<1>2. CASE ReadyEntries
  BY <1>0, <1>2 DEF ReadyEntries, EntriesToApply
<1>3. CASE ReadySnapshot
  BY <1>0, <1>3 DEF ReadySnapshot, Larger
<1>4. CASE ReplayWAL
  BY <1>0, <1>4 DEF ReplayWAL, ReplayFate
<1>5. CASE ReplayNil
  BY <1>0, <1>5 DEF ReplayNil, ReplayNilSend, ReceiveNil
<1>6. CASE StartNode
  BY <1>0, <1>6 DEF StartNode, RestartFate
<1>7. CASE SaveSnapWal
  BY <1>0, <1>7 DEF SaveSnapWal
<1>8. CASE SaveSnapFile
  BY <1>0, <1>8 DEF SaveSnapFile
<1>9. CASE PublishSnapshot
  BY <1>0, <1>9 DEF PublishSnapshot, PublishSnapshotSend, ReceiveNil
<1>10. CASE PublishNormal
  BY <1>0, <1>10 DEF PublishNormal, PublishNormalSend, ReceiveEntry, Published
<1>11. CASE PublishSilent
  BY <1>0, <1>11 DEF PublishSilent, Published
<1>12. CASE PublishRemoved
  BY <1>0, <1>12 DEF PublishRemoved
<1>13. CASE PublishNil
  BY <1>0, <1>13 DEF PublishNil, PublishNilSend, ReceiveNil
<1>14. CASE NoSnapshotDue
  BY <1>0, <1>14 DEF NoSnapshotDue, RoundOver
<1>15. CASE SnapshotOfNilStore
  BY <1>0, <1>15 DEF SnapshotOfNilStore, RoundOver
<1>16. CASE GetSnapshot
  BY <1>0, <1>16 DEF GetSnapshot, RoundOver, SnapshotDue
<1>17. CASE Compact
  BY <1>0, <1>17 DEF Compact, CompactFate, CompactIndex
<1>18. CASE LoadSnapshot
  BY <1>0, <1>18 DEF LoadSnapshot
<1>19. CASE ApplyEntry
  BY <1>0, <1>19 DEF ApplyEntry
<1>20. CASE Reload
  BY <1>0, <1>20 DEF Reload
<1>21. CASE AssignStore
  BY <1>0, <1>21 DEF AssignStore
<1>22. CASE TransportError
  BY <1>0, <1>22 DEF TransportError
<1>23. CASE CrashRestart
  BY <1>0, <1>23 DEF CrashRestart, NoSnapshot
<1>24. CASE UNCHANGED vars
  BY <1>24 DEF vars
<1> QED
  BY <1>1, <1>2, <1>3, <1>4, <1>5, <1>6, <1>7, <1>8, <1>9, <1>10, <1>11,
     <1>12, <1>13, <1>14, <1>15, <1>16, <1>17, <1>18, <1>19, <1>20, <1>21,
     <1>22, <1>23, <1>24 DEF Next, RaftStep, ReaderStep, Terminated

\* A freshly created process satisfies the invariant.
LEMMA InitIndInv == RaftInit => IndInv
<1> SUFFICES ASSUME RaftInit PROVE IndInv
  OBVIOUS
<1>1. RaftTypeOK /\ IndexInv
  BY InitRaft
<1>2. TypeOK
  BY <1>1 DEF RaftInit, TypeOK, ReaderPCs
<1>3. snap.index = 0 /\ snap.data = {} /\ Len(log) = 0
  BY DEF RaftInit, NoSnapshot
<1>4. ReaderInv
  BY <1>2, <1>3 DEF RaftInit, ReaderInv, AppliesInOrder, Starting,
                    SavingLeaders, SavingOwn, Spawned
<1>5. LossInv
  BY <1>2, <1>3 DEF RaftInit, LossInv, LossExcused, NormalUpTo,
                    SavingLeaders, SavingOwn
<1> QED
  BY <1>1, <1>2, <1>4, <1>5 DEF IndInv

\* Every variable of the two goroutines keeps its type, for every threshold and
\* every bound.
THEOREM TypeCorrect == Spec => []TypeOK
<1>1. RaftInit => TypeOK
  BY InitIndInv DEF IndInv
<1>2. TypeOK /\ [Next]_vars => TypeOK'
  BY TypeStep
<1> QED
  BY <1>1, <1>2, PTL DEF Spec

\* The inductive invariant: the indexes of serveChannels, the place of
\* readCommits and the stores fit together at every step.
THEOREM Inductive == Spec => []IndInv
<1>1. IndInv /\ [Next]_vars => IndInv'
  BY TypeStep, DnsRaftOrNot, IndexStep, ReaderInvStep, LossStep
     DEF IndInv, TypeOK
<1> QED
  BY InitIndInv, <1>1, PTL DEF Spec

\* The WAL holds a record of the snapshot it is opened at, wherever in saveSnap
\* the process died (raft.go:107-122).
THEOREM WALOpens == Spec => []WALOpensAtSnapshot
<1>1. IndInv => WALOpensAtSnapshot
  BY DEF IndInv, IndexInv, WALOpensAtSnapshot
<1> QED
  BY Inductive, <1>1, PTL

\* Compact is never asked for an index that is compacted already
\* (raft.go:368-374), for every pair of thresholds with SnapCount >= CatchUpN.
THEOREM NeverRecompacts == Spec => []CompactsForward
<1>1. IndInv => CompactsForward
  BY DEF IndInv, IndexInv, CompactsForward
<1> QED
  BY Inductive, <1>1, PTL

\* Entries reach the store in log order and at most once (raft.go:124-136,
\* dns_store.go:309-319).
THEOREM InOrder == Spec => []AppliesInOrder
<1>1. IndInv => AppliesInOrder
  BY DEF IndInv, ReaderInv
<1> QED
  BY Inductive, <1>1, PTL

\* The spawned readCommits never returns for want of a snapshot
\* (dns_store.go:340-343).
THEOREM ReaderNeverGone == Spec => []ReaderAlive
<1>1. IndInv => ReaderAlive
  BY DEF IndInv, ReaderInv, ReaderAlive
<1> QED
  BY Inductive, <1>1, PTL

\* Every applied proposal is in the store, on its way to it, or lost through
\* one of the three known gaps between raft.go and dns_store.go.
THEOREM NoOtherLoss == Spec => []LossExcused
<1>1. IndInv => LossExcused
  BY DEF IndInv, LossInv
<1> QED
  BY Inductive, <1>1, PTL

\* A snapshot file is superseded only by one of a later index (raft.go:364 and
\* raft.go:432).
THEOREM SnapshotsAdvance == Spec => SnapshotsForward
<1>1. IndInv /\ [Next]_vars => (snap' # snap => snap'.index > snap.index)
  BY SnapForward, DnsRaftOrNot DEF IndInv, TypeOK
<1> QED
  BY Inductive, <1>1, PTL DEF Spec, SnapshotsForward

---------------------------------------------------------------------------
(* The example: the reader of kvstore.go, which may load a snapshot in its *)
(* first call as often as it receives a nil (KvReaderInv), and what it may *)
(* lack meanwhile (KvLossInv).                                             *)

KvReaderPCs == {"load", "initRead", "initApply", "initLoad",
                "read", "apply", "reload", "gone"}

\* Every variable of the two goroutines has its type.
KvTypeOK ==
  /\ RaftTypeOK
  /\ spc \in KvReaderPCs /\ inHand \in Nat /\ store \in SUBSET Nat
  /\ assigned \in BOOLEAN
  /\ excused \in SUBSET Nat

\* Where the reader can be next to the raft goroutine.  The first call ends at
\* a nil that finds no snapshot; the nil of the replay is then behind it, and
\* the next can only be that of a snapshot (raft.go:180-187, kvstore.go:64-72).
KvReaderInv ==
  /\ spc # "gone"
  /\ inHand # 0 <=> spc \in {"initApply", "apply"}
  /\ inHand <= applied
  /\ assigned => Spawned
  /\ Starting => /\ spc \in {"load", "initRead", "initLoad", "read"}
                 /\ spc # "load" => store \subseteq snap.data
                 /\ rpc # "restart" => spc \in {"load", "initRead"}
                 /\ rpc = "replayNil" \/ spc \in {"initLoad", "read"} =>
                      lastIndex = 0
                 /\ spc = "read" => snap.index = 0
  /\ spc = "load" => store = {}
  /\ /\ Spawned \/ spc = "initLoad"
     /\ lastIndex > applied \/ rpc = "publishNil"
     => snap.index > 0
  /\ spc = "reload" => snap.index > 0
  /\ \A i \in snap.data : i <= snap.index
  /\ SavingLeaders \/ SavingOwn => \A i \in saving.data : i <= saving.index
  /\ \A i \in store : i <= applied \/ i <= snap.index
  /\ KvAppliesInOrder

\* What the map, the newest snapshot and the one being written cover.  Only a
\* reader that has been spawned holds everything by itself: the map a first
\* call fills lacks the snapshot until the nil comes that loads it.
KvLossInv ==
  /\ NormalUpTo(snap.index) \subseteq snap.data \cup excused
  /\ SavingLeaders \/ SavingOwn =>
       NormalUpTo(saving.index) \subseteq saving.data \cup excused
  /\ spc = "load" => NormalUpTo(applied) \subseteq snap.data \cup excused
  /\ spc \in {"read", "apply"} =>
       NormalUpTo(applied) \subseteq store \cup {inHand} \cup excused
  /\ KvLossExcused

\* The inductive invariant of the two goroutines.
KvInv == KvTypeOK /\ IndexInv /\ KvReaderInv /\ KvLossInv

\* Every variable keeps its type (example/raft.go and example/kvstore.go).
LEMMA KvTypeStep == ASSUME KvTypeOK, [KvNext]_vars PROVE KvTypeOK'
<1> USE DEF KvTypeOK, KvReaderPCs, Apart
<1>0. /\ RaftTypeOK'
      /\ snap.data \in SUBSET Nat
      /\ pub \in Nat
  BY RaftTypeStep, KvRaftOrNot, SnapshotFields DEF RaftTypeOK
<1>1. CASE KvReceiveNil
  BY <1>0, <1>1 DEF KvReceiveNil
<1>2. CASE KvReceiveEntry
  BY <1>0, <1>2 DEF KvReceiveEntry
<1>3. CASE GetSnapshot
  BY <1>0, <1>3 DEF GetSnapshot
<1>4. CASE NewKVStore
  BY <1>0, <1>4 DEF NewKVStore
<1>5. CASE KvApplyEntry
  BY <1>0, <1>5 DEF KvApplyEntry
<1>6. CASE Load
  BY <1>0, <1>6 DEF Load
<1>7. CASE KvAssignStore
  BY <1>0, <1>7 DEF KvAssignStore
<1>8. CASE CrashRestart
  BY <1>0, <1>8 DEF CrashRestart
<1>9. CASE UNCHANGED <<readerVars, excused>>
  BY <1>0, <1>9
<1> QED
  BY <1>1, <1>2, <1>3, <1>4, <1>5, <1>6, <1>7, <1>8, <1>9
     DEF KvNext, KvRaftStep, KvReaderStep, StartRaft, PublishEntries,
         KvPublishSnapshot, SaveSnap, MaybeTriggerSnapshot, ServeChannels,
         Terminated, vars, ClusterCommit, ReadyEntries, ReadySnapshot,
         ReplayWAL, StartNode, SaveSnapWal, SaveSnapFile, PublishSilent,
         PublishRemoved, NoSnapshotDue, SnapshotOfNilStore, Compact,
         TransportError

\* The reader's place, the entry in its hand and the map stay consistent with
\* the indexes (example/kvstore.go:60-95).
LEMMA KvReaderInvStep ==
  ASSUME KvTypeOK, IndexInv, KvReaderInv, [KvNext]_vars
  PROVE  KvReaderInv'
<1> USE ThresholdAssumption
    DEF KvTypeOK, RaftTypeOK, KvReaderPCs, IndexInv, KvReaderInv,
        KvAppliesInOrder, Starting, SavingLeaders, SavingOwn, Spawned
<1>0. /\ snap.index \in Nat /\ saving.index \in Nat
      /\ snap.data \in SUBSET Nat /\ saving.data \in SUBSET Nat
  BY SnapshotFields DEF KvTypeOK, RaftTypeOK
<1>1. ASSUME NEW kind \in Kinds, ClusterCommit(kind) PROVE KvReaderInv'
  BY <1>1 DEF ClusterCommit
<1>2. CASE ReadyEntries
  BY <1>0, <1>2 DEF ReadyEntries, EntriesToApply
<1>3. CASE ReadySnapshot
  BY <1>0, <1>3 DEF ReadySnapshot, Larger, NormalUpTo
<1>4. CASE ReplayWAL
  BY <1>0, <1>4 DEF ReplayWAL, ReplayFate
<1>5. CASE ReplayNilSend /\ KvReceiveNil
  BY <1>0, <1>5 DEF ReplayNilSend, KvReceiveNil, Apart
<1>6. CASE StartNode
  BY <1>0, <1>6 DEF StartNode, RestartFate
<1>7. CASE SaveSnapWal
  BY <1>0, <1>7 DEF SaveSnapWal
<1>8. CASE SaveSnapFile
  BY <1>0, <1>8 DEF SaveSnapFile
<1>9. CASE KvPublishSnapshot
  BY <1>0, <1>9 DEF KvPublishSnapshot, PublishSnapshotSend, KvReceiveNil,
                    Apart
<1>10. CASE PublishNormalSend /\ KvReceiveEntry
  BY <1>0, <1>10 DEF PublishNormalSend, KvReceiveEntry, Published,
                     Apart
<1>11. CASE PublishSilent
  BY <1>0, <1>11 DEF PublishSilent, Published
<1>12. CASE PublishRemoved
  BY <1>0, <1>12 DEF PublishRemoved
<1>13. CASE PublishNilSend /\ KvReceiveNil
  BY <1>0, <1>13 DEF PublishNilSend, KvReceiveNil, Apart
<1>14. CASE NoSnapshotDue
  BY <1>0, <1>14 DEF NoSnapshotDue, RoundOver
<1>15. CASE SnapshotOfNilStore
  BY <1>0, <1>15 DEF SnapshotOfNilStore, RoundOver
<1>16. CASE GetSnapshot
  BY <1>0, <1>16 DEF GetSnapshot, RoundOver, SnapshotDue
<1>17. CASE Compact
  BY <1>0, <1>17 DEF Compact, CompactFate, CompactIndex
<1>18. CASE NewKVStore
  BY <1>0, <1>18 DEF NewKVStore
<1>19. CASE KvApplyEntry
  BY <1>0, <1>19 DEF KvApplyEntry, Apart
<1>20. CASE Load
  <2>1. CASE snap.index = 0
    <3>1. spc = "initLoad" /\ spc' = "read"
      BY <1>20, <2>1 DEF Load, Apart
    <3>2. UNCHANGED <<snap, rpc, indexVars, saving, inHand, store, assigned>>
      BY <1>20, <2>1 DEF Load
    <3> QED
      BY <2>1, <3>1, <3>2
  <2>2. CASE snap.index # 0
    <3>1. store' = snap.data /\ inHand = 0
      BY <1>20, <2>2 DEF Load
    <3>2. \A i \in store' : i <= snap.index
      BY <3>1
    <3> QED
      BY <1>0, <1>20, <2>2, <3>1, <3>2 DEF Load, Apart
  <2> QED
    BY <2>1, <2>2
<1>21. CASE KvAssignStore
  BY <1>0, <1>21 DEF KvAssignStore
<1>22. CASE TransportError
  BY <1>0, <1>22 DEF TransportError
<1>23. CASE CrashRestart
  BY <1>0, <1>23 DEF CrashRestart, NoSnapshot
<1>24. CASE UNCHANGED vars
  BY <1>24 DEF vars
<1> QED
  BY <1>1, <1>2, <1>3, <1>4, <1>5, <1>6, <1>7, <1>8, <1>9, <1>10, <1>11,
     <1>12, <1>13, <1>14, <1>15, <1>16, <1>17, <1>18, <1>19, <1>20, <1>21,
     <1>22, <1>23, <1>24
     DEF KvNext, ServeChannels, KvRaftStep, StartRaft, PublishEntries, SaveSnap,
         MaybeTriggerSnapshot, KvReaderStep, Terminated

\* What snapshots and map cover stays covered (example/raft.go:330-378,
\* example/kvstore.go:60-95).
LEMMA KvLossStep ==
  ASSUME KvTypeOK, IndexInv, KvReaderInv, KvLossInv, [KvNext]_vars
  PROVE  KvLossInv'
<1> USE ThresholdAssumption
    DEF KvTypeOK, RaftTypeOK, IndexInv, KvReaderInv, KvLossInv,
        KvLossExcused, NormalUpTo, Starting, SavingLeaders, SavingOwn,
        Spawned, KvReaderPCs
<1>0. /\ snap.index \in Nat /\ saving.index \in Nat
      /\ snap.data \in SUBSET Nat /\ saving.data \in SUBSET Nat
  BY SnapshotFields DEF KvTypeOK, RaftTypeOK
<1>1. ASSUME NEW kind \in Kinds, ClusterCommit(kind) PROVE KvLossInv'
  <2>1. /\ Len(log') = Len(log) + 1
        /\ \A i \in 1..Len(log) : log'[i] = log[i]
    BY <1>1 DEF ClusterCommit
  <2>2. applied <= Len(log) /\ snap.index <= Len(log)
    BY <1>0
  <2> QED
    BY <1>0, <1>1, <2>1, <2>2 DEF ClusterCommit
<1>2. CASE ReadyEntries
  BY <1>0, <1>2 DEF ReadyEntries, EntriesToApply
<1>3. CASE ReadySnapshot
  BY <1>0, <1>3 DEF ReadySnapshot, Larger
<1>4. CASE ReplayWAL
  BY <1>0, <1>4 DEF ReplayWAL, ReplayFate
<1>5. CASE ReplayNilSend /\ KvReceiveNil
  BY <1>0, <1>5 DEF ReplayNilSend, KvReceiveNil, Apart
<1>6. CASE StartNode
  BY <1>0, <1>6 DEF StartNode, RestartFate
<1>7. CASE SaveSnapWal
  BY <1>0, <1>7 DEF SaveSnapWal
<1>8. CASE SaveSnapFile
  BY <1>0, <1>8 DEF SaveSnapFile
<1>9. CASE KvPublishSnapshot
  BY <1>0, <1>9 DEF KvPublishSnapshot, PublishSnapshotSend, KvReceiveNil,
                    Apart
<1>10. CASE PublishNormalSend /\ KvReceiveEntry
  BY <1>0, <1>10 DEF PublishNormalSend, KvReceiveEntry, Published,
                     Apart
<1>11. CASE PublishSilent
  BY <1>0, <1>11 DEF PublishSilent, Published
<1>12. CASE PublishRemoved
  BY <1>0, <1>12 DEF PublishRemoved
<1>13. CASE PublishNilSend /\ KvReceiveNil
  BY <1>0, <1>13 DEF PublishNilSend, KvReceiveNil, Apart
<1>14. CASE NoSnapshotDue
  BY <1>0, <1>14 DEF NoSnapshotDue, RoundOver
<1>15. CASE SnapshotOfNilStore
  BY <1>0, <1>15 DEF SnapshotOfNilStore, RoundOver
<1>16. CASE GetSnapshot
  BY <1>0, <1>16 DEF GetSnapshot, RoundOver, SnapshotDue
<1>17. CASE Compact
  BY <1>0, <1>17 DEF Compact, CompactFate, CompactIndex
<1>18. CASE NewKVStore
  BY <1>0, <1>18 DEF NewKVStore
<1>19. CASE KvApplyEntry
  BY <1>0, <1>19 DEF KvApplyEntry, Apart
<1>20. CASE Load
  BY <1>0, <1>20 DEF Load, Apart
<1>21. CASE KvAssignStore
  BY <1>0, <1>21 DEF KvAssignStore
<1>22. CASE TransportError
  BY <1>0, <1>22 DEF TransportError
<1>23. CASE CrashRestart
  BY <1>0, <1>23 DEF CrashRestart, NoSnapshot
<1>24. CASE UNCHANGED vars
  BY <1>24 DEF vars
<1> QED
  BY <1>1, <1>2, <1>3, <1>4, <1>5, <1>6, <1>7, <1>8, <1>9, <1>10, <1>11,
     <1>12, <1>13, <1>14, <1>15, <1>16, <1>17, <1>18, <1>19, <1>20, <1>21,
     <1>22, <1>23, <1>24
     DEF KvNext, ServeChannels, KvRaftStep, StartRaft, PublishEntries, SaveSnap,
         MaybeTriggerSnapshot, KvReaderStep, Terminated

\* A freshly created process satisfies the invariant.
LEMMA InitKv == RaftInit => KvInv
<1> SUFFICES ASSUME RaftInit PROVE KvInv
  OBVIOUS
<1>1. RaftTypeOK /\ IndexInv
  BY InitRaft
<1>2. KvTypeOK
  BY <1>1 DEF RaftInit, KvTypeOK, KvReaderPCs
<1>3. snap.index = 0 /\ snap.data = {} /\ Len(log) = 0
  BY DEF RaftInit, NoSnapshot
<1>4. KvReaderInv
  BY <1>2, <1>3 DEF RaftInit, KvReaderInv, KvAppliesInOrder, Starting,
                    SavingLeaders, SavingOwn, Spawned
<1>5. KvLossInv
  BY <1>2, <1>3 DEF RaftInit, KvLossInv, KvLossExcused, NormalUpTo,
                    SavingLeaders, SavingOwn
<1> QED
  BY <1>1, <1>2, <1>4, <1>5 DEF KvInv

\* The indexes of serveChannels, the place of readCommits in either of its calls
\* and the map fit together at every step, for every threshold and every bound.
THEOREM KvInductive == KvSpec => []KvInv
<1>1. KvInv /\ [KvNext]_vars => KvInv'
  BY KvTypeStep, KvRaftOrNot, IndexStep, KvReaderInvStep, KvLossStep
     DEF KvInv, KvTypeOK
<1> QED
  BY InitKv, <1>1, PTL DEF KvSpec

\* Every variable of the two goroutines keeps its type, and the spawned
\* readCommits never returns for want of a snapshot (kvstore.go:64-72).
THEOREM KvTypesAndReader == KvSpec => [](KvTypeOK /\ spc # "gone")
<1>1. KvInv => KvTypeOK /\ spc # "gone"
  BY DEF KvInv, KvReaderInv
<1> QED
  BY KvInductive, <1>1, PTL

\* A value is never overwritten by an older one, though snapshots are loaded in
\* the middle of the replay (kvstore.go:69-80).
THEOREM KvInOrder == KvSpec => []KvAppliesInOrder
<1>1. KvInv => KvAppliesInOrder
  BY DEF KvInv, KvReaderInv
<1> QED
  BY KvInductive, <1>1, PTL

\* The map lacks an applied entry only through a known gap, or until the nil
\* comes that loads the snapshot (kvstore.go:64-91).
THEOREM KvNoOtherLoss == KvSpec => []KvLossExcused
<1>1. KvInv => KvLossExcused
  BY DEF KvInv, KvLossInv
<1> QED
  BY KvInductive, <1>1, PTL

\* The example keeps the promises of the raft goroutine it shares with
\* dns_server: its WAL holds a record of the snapshot it is opened at, it never
\* compacts twice, and its snapshots advance (example/raft.go:108-122, 347-376).
THEOREM KvRaftSafe ==
  KvSpec => [](WALOpensAtSnapshot /\ CompactsForward) /\ SnapshotsForward
<1>1. KvInv => WALOpensAtSnapshot /\ CompactsForward
  BY DEF KvInv, IndexInv, WALOpensAtSnapshot, CompactsForward
<1>2. KvInv /\ [KvNext]_vars => (snap' # snap => snap'.index > snap.index)
  BY SnapForward, KvRaftOrNot DEF KvInv, KvTypeOK
<1> QED
  BY KvInductive, <1>1, <1>2, PTL DEF KvSpec, SnapshotsForward
=============================================================================
