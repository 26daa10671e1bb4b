------------------------------ MODULE PagedNode ------------------------------
(***************************************************************************)
(* The paged store in the process it really lives in (dns/main.go with     *)
(* -page, dns/raft.go): the raft goroutine takes a snapshot while an entry *)
(* may be between commitC and the store, the leader may send a snapshot,   *)
(* which holds the pages the LEADER had in memory, and the process may die *)
(* between the Remove and the Rename of a page file.  The history variable *)
(* excused collects the proposals each of the three gives up; everything   *)
(* else must survive.                                                      *)
(***************************************************************************)
EXTENDS PagedStore

CONSTANT MaxLeaderSnaps   \* bound: snapshots received from the leader

VARIABLE leaderSnaps

nodeVars == <<vars, leaderSnaps>>

OnPage(p, n) == {i \in 1..Len(log) : i <= n /\ log[i] = p}

\* The pages whose content is exact up to n.
ExactPages(p, n) ==
  {[LastCommitIndex |-> IF s = <<>> THEN 0 ELSE s[Len(s)], Store |-> s] :
     s \in {s \in Bijection(1..Cardinality(OnPage(p, n)), OnPage(p, n)) :
              \A j, k \in DOMAIN s : j < k => s[j] < s[k]}}

\* The pages of a leader that shows the proposals up to index.  One that has
\* been restarted may be behind what its pages show.
LeaderPages(p, index) == UNION {ExactPages(p, n) : n \in index..Len(log)}

\* A crash anywhere: a page whose file is removed and not renamed is gone, and
\* with it what no snapshot holds.
CrashRestart ==
  /\ Restart
  /\ excused' = excused \cup
       UNION {OnPage(r.page, snapshot.index) :
                r \in {q \in renaming : q.page \notin DOMAIN snapshot.Pages}}
  /\ UNCHANGED leaderSnaps

\* saveSnap and publishSnapshot of a snapshot from the leader, and
\* recoverFromSnapshot in readCommits: the pages that happen to be in the
\* leader's memory (all it has, or as many as fit) replace all of s.pages, the
\* page files stay as they are.
ReceiveSnapshot ==
  /\ Unlocked
  /\ leaderSnaps < MaxLeaderSnaps
  /\ leaderSnaps' = leaderSnaps + 1
  /\ done = sent
  /\ \E index \in sent + 1 .. Len(log),
        order \in UNION {Injection(1..n, Pages) : n \in 0..PageStoreMaxLen} :
       /\ \/ Len(order) = PageStoreMaxLen
          \/ \A p \in Pages \ Range(order) : OnPage(p, index) = {}
       /\ pages' \in [Range(order) -> UNION {LeaderPages(p, index) :
                                                p \in Range(order)}]
       /\ \A p \in Range(order) : pages'[p] \in LeaderPages(p, index)
       /\ lruList' = order
       /\ snapshot' = [index |-> index, Pages |-> pages', LRUList |-> order]
       /\ sent' = index /\ done' = index
       /\ excused' = excused \cup
            UNION {OnPage(p, index) \ Range(files[p].Store) :
                     p \in Pages \ Range(order)}
  /\ UNCHANGED <<log, files, renaming, crashes>>

NodeInit == Init /\ leaderSnaps = 0

Keep(A) == A /\ UNCHANGED leaderSnaps

NodeNext ==
  \/ \E p \in Pages : Keep(Commit(p)) \/ Keep(Query(p))
  \/ Keep(ReceiveEntry) \/ Keep(ApplyEntry) \/ Keep(Rename)
  \/ Keep(GetSnapshot)
  \/ CrashRestart
  \/ ReceiveSnapshot

NodeSpec == NodeInit /\ [][NodeNext]_nodeVars

---------------------------------------------------------------------------
\* No proposal is applied to a page twice or behind a later one, in memory, on
\* file or in a snapshot, whatever was replayed over pages that were ahead of
\* the snapshot (paged_dns_store.go:388-392, 412-416, comment 517-519).
StoresInOrder ==
  \A p \in Pages :
    LET page == View(p) IN
    /\ \A j, k \in 1..Len(page.Store) : j < k => page.Store[j] < page.Store[k]
    /\ \A j \in Range(page.Store) : log[j] = p /\ j <= page.LastCommitIndex

\* An applied proposal is missing from its page only through one of the three
\* known gaps: the hand-off race, a torn page file, a page the leader had not
\* in memory.
PageLossExcused ==
  \A p \in Pages : OnPage(p, done) \subseteq Range(View(p).Store) \cup excused
=============================================================================
