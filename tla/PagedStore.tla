------------------------------ MODULE PagedStore ------------------------------
(***************************************************************************)
(* The paged store of dns/paged_dns_store.go: at most PageStoreMaxLen      *)
(* pages in memory in an LRU list, the others in one file each, and the    *)
(* idempotency check by LastCommitIndex that makes a page file that is     *)
(* ahead of the snapshot harmless.                                         *)
(*                                                                         *)
(* A proposal is the page its name is on; a page's Store is the sequence   *)
(* of proposals applied to it (insertRR appends, so order and repetition   *)
(* both show).  Every operation holds the store's lock from beginning to   *)
(* end, so it is one step, except that the process may die between the     *)
(* two file-system calls of writeSerializedPage (`renaming').              *)
(*                                                                         *)
(* Next is the store in the hands of a raft goroutine that behaves: it     *)
(* takes snapshots of a store that is current, sends no other node's       *)
(* snapshot, and does not die between Remove and Rename.  PagedNode adds   *)
(* what it really does.                                                    *)
(***************************************************************************)
EXTENDS Integers, SequencesExt

CONSTANTS
  Pages,            \* page numbers
  PageStoreMaxLen,  \* pages in memory
  MaxLog,           \* bound: proposals committed
  MaxCrashes        \* bound: crashes

ASSUME PageAssumption == PageStoreMaxLen \in Nat \ {0}

VARIABLES
  log,       \* the committed proposals, each as the page of its name
  pages,     \* s.pages
  lruList,   \* s.lruList, least recently used first
  files,     \* pagedir: page -> content of its file, NewPage if there is none
  renaming,  \* the pages between os.Remove and os.Rename, with their content
  snapshot,  \* the newest snapshot of the raft node
  sent,      \* the last proposal received from commitC
  done,      \* the last proposal applied
  excused,   \* history: proposals given up by a known gap (see PagedNode)
  crashes

memVars == <<pages, lruList, files, renaming>>
vars == <<log, memVars, snapshot, sent, done, excused, crashes>>

NewPage == [LastCommitIndex |-> 0, Store |-> <<>>]

\* Mutant: a page that is not in memory is taken for a new one.
PageOfMemory(p) == IF p \in DOMAIN pages THEN pages[p] ELSE NewPage

\* readPageIn, or the initialisation of a new page: what getPage(p) returns.
PageOf(p) == IF p \in DOMAIN pages THEN pages[p] ELSE files[p]

MustEvict(p) == p \notin DOMAIN pages /\ Len(lruList) + 1 > PageStoreMaxLen

\* Mutant: a page that was in the list is pushed again.
TouchPagePushing(p, content) ==
  LET evicted == IF MustEvict(p) THEN {Head(lruList)} ELSE {}
  IN /\ lruList' = Append(IF MustEvict(p) THEN Tail(lruList) ELSE lruList, p)
     /\ pages' = [q \in (DOMAIN pages \cup {p}) \ evicted |->
                    IF q = p THEN content ELSE pages[q]]
     /\ files' = [q \in Pages |-> IF q \in evicted THEN NewPage ELSE files[q]]
     /\ renaming' = {[page |-> q, content |-> pages[q]] : q \in evicted}

\* What lruList.Remove takes out: the page itself or, for a page read in, the
\* front if there are too many.
Removed(p) ==
  {i \in DOMAIN lruList : lruList[i] = p \/ (MustEvict(p) /\ i = 1)}

\* getPage(p), after which page p holds `content': p becomes the most recently
\* used; if it had to be read in and there are too many, the least recently
\* used is written out and dropped.  Its file has been removed and the new one
\* not yet renamed.
TouchPage(p, content) ==
  LET evicted == IF MustEvict(p) THEN {Head(lruList)} ELSE {}
      others  == IF Removed(p) = {} THEN lruList
                 ELSE RemoveAt(lruList, CHOOSE i \in Removed(p) : TRUE)
  IN /\ lruList' = Append(others, p)
     /\ pages' = [q \in (DOMAIN pages \cup {p}) \ evicted |->
                    IF q = p THEN content ELSE pages[q]]
     /\ files' = [q \in Pages |-> IF q \in evicted THEN NewPage ELSE files[q]]
     /\ renaming' = {[page |-> q, content |-> pages[q]] : q \in evicted}

\* The end of writeSerializedPage.
Rename ==
  /\ \E r \in renaming :
       files' = [files EXCEPT ![r.page] = r.content]
  /\ renaming' = {}
  /\ UNCHANGED <<log, pages, lruList, snapshot, sent, done, excused, crashes>>

Unlocked == renaming = {}

---------------------------------------------------------------------------

\* External: the cluster commits a proposal.
Commit(p) ==
  /\ Len(log) < MaxLog
  /\ log' = Append(log, p)
  /\ UNCHANGED <<memVars, snapshot, sent, done, excused, crashes>>

\* readCommits takes the next proposal from commitC.
ReceiveEntry ==
  /\ Unlocked
  /\ sent = done /\ sent < Len(log)
  /\ sent' = sent + 1
  /\ UNCHANGED <<log, memVars, snapshot, done, excused, crashes>>

\* Mutant: without the idempotency check.
UpdatedAgain(page, index) ==
  [LastCommitIndex |-> index, Store |-> Append(page.Store, index)]

\* insertRR and deleteRRs skip what the page reflects already.
Updated(page, index) ==
  IF page.LastCommitIndex >= index THEN page
  ELSE [LastCommitIndex |-> index, Store |-> Append(page.Store, index)]

\* readCommits applies it, under the lock.
ApplyEntry ==
  /\ Unlocked
  /\ done < sent
  /\ TouchPage(log[sent], Updated(PageOf(log[sent]), sent))
  /\ done' = sent
  /\ UNCHANGED <<log, snapshot, sent, excused, crashes>>

\* lookupNameMap and getGlueRecords: a query reads the page, and so may read it
\* in and push another one out.
Query(p) ==
  /\ Unlocked
  /\ TouchPage(p, PageOf(p))
  /\ UNCHANGED <<log, snapshot, sent, done, excused, crashes>>

\* getSnapshot, called by the raft goroutine: the pages in memory, labelled by
\* the last proposal sent.
GetSnapshot ==
  /\ Unlocked
  /\ sent > snapshot.index
  /\ snapshot' = [index |-> sent, Pages |-> pages, LRUList |-> lruList]
  /\ excused' = excused \cup (IF done < sent THEN {sent} ELSE {})
  /\ UNCHANGED <<log, memVars, sent, done, crashes>>

\* Mutant: the replay starts one entry too early.
RestartBehind ==
  /\ crashes < MaxCrashes
  /\ crashes' = crashes + 1
  /\ pages' = snapshot.Pages
  /\ lruList' = snapshot.LRUList
  /\ renaming' = {}
  /\ sent' = snapshot.index - 1
  /\ done' = snapshot.index - 1
  /\ UNCHANGED <<log, files, snapshot>>

\* A crash and the start of the next process: readCommits(.., true) loads the
\* snapshot (recoverFromSnapshot) and the proposals behind it come again.
Restart ==
  /\ crashes < MaxCrashes
  /\ crashes' = crashes + 1
  /\ pages' = snapshot.Pages
  /\ lruList' = snapshot.LRUList
  /\ renaming' = {}
  /\ sent' = snapshot.index
  /\ done' = snapshot.index
  /\ UNCHANGED <<log, files, snapshot>>

Init ==
  /\ log = <<>>
  /\ pages = <<>> /\ lruList = <<>>
  /\ files = [p \in Pages |-> NewPage]
  /\ renaming = {}
  /\ snapshot = [index |-> 0, Pages |-> <<>>, LRUList |-> <<>>]
  /\ sent = 0 /\ done = 0
  /\ excused = {}
  /\ crashes = 0

SnapshotWhenCurrent == done = sent /\ GetSnapshot

CleanRestart == Unlocked /\ Restart /\ UNCHANGED excused

StoreStep ==
  \/ \E p \in Pages : Commit(p) \/ Query(p)
  \/ ReceiveEntry \/ ApplyEntry \/ Rename

Next == StoreStep \/ SnapshotWhenCurrent \/ CleanRestart

Spec == Init /\ [][Next]_vars

---------------------------------------------------------------------------
\* What a query of page p would see now; a page on its way to its file is still
\* the writer's.
View(p) ==
  IF \E r \in renaming : r.page = p
  THEN (CHOOSE r \in renaming : r.page = p).content
  ELSE PageOf(p)

\* Everything the store is made of has its type.
TypeOK ==
  LET Page == [LastCommitIndex : Nat, Store : Seq(Nat)] IN
  /\ log \in Seq(Pages)
  /\ DOMAIN pages \subseteq Pages /\ \A p \in DOMAIN pages : pages[p] \in Page
  /\ lruList \in Seq(Pages)
  /\ files \in [Pages -> Page]
  /\ \A r \in renaming : r.page \in Pages /\ r.content \in Page
  /\ snapshot.index \in Nat /\ snapshot.LRUList \in Seq(Pages)
  /\ DOMAIN snapshot.Pages \subseteq Pages
  /\ sent \in Nat /\ done \in Nat /\ excused \subseteq Nat /\ crashes \in Nat

\* The LRU list and the page map agree, in memory and in the snapshot, and the
\* limit holds: no page can be in memory and escape eviction, none is listed
\* twice (loadPageAndUpdateLRU and getPage, paged_dns_store.go:151-196; the
\* rebuild in recoverFromSnapshot, 555-561).
LRUConsistent ==
  /\ Range(lruList) = DOMAIN pages
  /\ Len(lruList) = Cardinality(DOMAIN pages)
  /\ Len(lruList) <= PageStoreMaxLen
  /\ Range(snapshot.LRUList) = DOMAIN snapshot.Pages
  /\ Len(snapshot.LRUList) = Cardinality(DOMAIN snapshot.Pages)

\* The refinement mapping: a page is what a query of it would see.
Flat == INSTANCE FlatStore WITH view <- [p \in Pages |-> View(p).Store]

\* Paging is transparent, through evictions, snapshots and restarts: the store
\* is a flat store (LastCommitIndex, paged_dns_store.go:388-392 and 412-416).
ImplementsFlat == Flat!Spec
=============================================================================
