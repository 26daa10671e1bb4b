--------------------------- MODULE PagedNodeProofs ---------------------------
(***************************************************************************)
(* The safety of the paged store, in the hands of a raft goroutine that    *)
(* behaves (PagedStore!Spec) and in those of the real one (NodeSpec), for  *)
(* any number of pages, in memory and in all.  Both keep PagedInv, which   *)
(* says what is shown and what is missing up to the excused proposals; the *)
(* first never excuses one, and so implements FlatStore.                   *)
(***************************************************************************)
EXTENDS PagedNode, FiniteSetTheorems, TLAPS

Page == [LastCommitIndex : Nat, Store : Seq(Nat)]

\* A content of page p shows its proposals in order and, but for the excused
\* ones, as many as it says.  It may be ahead of every index of the node.
Honest(p, page) ==
  /\ page \in Page
  /\ page.LastCommitIndex <= Len(log)
  /\ \A j, k \in DOMAIN page.Store : j < k => page.Store[j] < page.Store[k]
  /\ Range(page.Store) \subseteq OnPage(p, page.LastCommitIndex)
  /\ OnPage(p, page.LastCommitIndex) \subseteq Range(page.Store) \cup excused

\* A content of page p lacks none of the first n proposals.
Complete(p, page, n) == OnPage(p, n) \subseteq Range(page.Store) \cup excused

\* What is or will be in the file of page p.
FileOf(p) ==
  IF \E r \in renaming : r.page = p
  THEN (CHOOSE r \in renaming : r.page = p).content
  ELSE files[p]

\* What page p would be after a restart.
Recovered(p) ==
  IF p \in DOMAIN snapshot.Pages THEN snapshot.Pages[p] ELSE FileOf(p)

\* An LRU list and a page map fit together.
Fits(list, map) ==
  /\ list \in Seq(Pages)
  /\ Range(list) = DOMAIN map
  /\ \A j, k \in DOMAIN list : list[j] = list[k] => j = k
  /\ Len(list) <= PageStoreMaxLen

CounterInv ==
  /\ log \in Seq(Pages)
  /\ snapshot.index \in Nat /\ done \in Nat /\ sent \in Nat
  /\ snapshot.index <= sent /\ done <= sent /\ sent <= done + 1
  /\ sent <= Len(log)
  /\ snapshot.index > done => sent \in excused
  /\ excused \subseteq Nat /\ crashes \in Nat

ListInv == Fits(lruList, pages) /\ Fits(snapshot.LRUList, snapshot.Pages)

\* One page at a time is being written, and it is not in memory any more.
RenamingInv ==
  \A r \in renaming : r.page \in Pages \ DOMAIN pages /\ renaming = {r}

\* Every copy of a page is honest.
CopyInv ==
  /\ files \in [Pages -> Page]
  /\ \A p \in Pages : Honest(p, files[p])
  /\ \A r \in renaming : Honest(r.page, r.content)
  /\ \A p \in DOMAIN pages : Honest(p, pages[p])
  /\ \A p \in DOMAIN snapshot.Pages : Honest(p, snapshot.Pages[p])

\* What queries see is complete up to done, what a restart would bring back up
\* to the snapshot's index.
CoverInv ==
  \A p \in Pages : /\ Complete(p, View(p), done)
                   /\ Complete(p, Recovered(p), snapshot.index)

PagedInv == CounterInv /\ ListInv /\ RenamingInv /\ CopyInv /\ CoverInv

\* What Spec keeps: it has none of the gaps.
ExactInv == PagedInv /\ excused = {}

---------------------------------------------------------------------------
\* list.Remove takes out one element and leaves the order of the others.
LEMMA RemovedAt ==
  ASSUME NEW S, NEW s \in Seq(S), NEW i \in 1 .. Len(s)
  PROVE  /\ RemoveAt(s, i) \in Seq(S)
         /\ Len(RemoveAt(s, i)) = Len(s) - 1
         /\ \A j \in 1 .. Len(s) - 1 :
              RemoveAt(s, i)[j] = IF j < i THEN s[j] ELSE s[j + 1]
<1>1. Len(s) \in Nat /\ i \in Nat /\ 1 <= i /\ i <= Len(s)
  OBVIOUS
<1>2. /\ SubSeq(s, 1, i - 1) \in Seq(S) /\ Len(SubSeq(s, 1, i - 1)) = i - 1
      /\ \A j \in 1 .. i - 1 : SubSeq(s, 1, i - 1)[j] = s[j]
  BY <1>1
<1>3. /\ SubSeq(s, i + 1, Len(s)) \in Seq(S)
      /\ Len(SubSeq(s, i + 1, Len(s))) = Len(s) - i
      /\ \A j \in 1 .. Len(s) - i : SubSeq(s, i + 1, Len(s))[j] = s[i + j]
  BY <1>1
<1> DEFINE front == SubSeq(s, 1, i - 1)
           back == SubSeq(s, i + 1, Len(s))
<1>4. /\ front \in Seq(S) /\ Len(front) = i - 1
      /\ \A j \in 1 .. i - 1 : front[j] = s[j]
  BY <1>2
<1>5. /\ back \in Seq(S) /\ Len(back) = Len(s) - i
      /\ \A j \in 1 .. Len(s) - i : back[j] = s[i + j]
  BY <1>3
<1>6. RemoveAt(s, i) = front \o back
  BY DEF RemoveAt
<1> HIDE DEF front, back
<1>7. ASSUME NEW f \in Seq(S), NEW b \in Seq(S), NEW t, t = f \o b
      PROVE  /\ t \in Seq(S) /\ Len(t) = Len(f) + Len(b)
             /\ \A j \in 1 .. Len(f) : t[j] = f[j]
             /\ \A j \in 1 .. Len(b) : t[Len(f) + j] = b[j]
  BY <1>7
<1>8. /\ RemoveAt(s, i) \in Seq(S)
      /\ Len(RemoveAt(s, i)) = Len(front) + Len(back)
      /\ \A j \in 1 .. Len(front) : RemoveAt(s, i)[j] = front[j]
      /\ \A j \in 1 .. Len(back) : RemoveAt(s, i)[Len(front) + j] = back[j]
  <2>1. front \in Seq(S) /\ back \in Seq(S)
    BY <1>4, <1>5
  <2> QED
    BY <1>6, <1>7, <2>1
<1> DEFINE t == RemoveAt(s, i)
<1> HIDE DEF t
<1>9. t \in Seq(S) /\ Len(t) = Len(s) - 1
  BY <1>1, <1>4, <1>5, <1>8 DEF t
<1>10. ASSUME NEW j \in 1 .. Len(s) - 1, j < i PROVE t[j] = s[j]
  <2>1. j \in 1 .. i - 1
    BY <1>1, <1>10
  <2> QED
    BY <1>4, <1>8, <2>1 DEF t
<1>11. ASSUME NEW j \in 1 .. Len(s) - 1, ~(j < i) PROVE t[j] = s[j + 1]
  <2>1. /\ j - (i - 1) \in 1 .. Len(s) - i
        /\ i + (j - (i - 1)) = j + 1 /\ Len(front) + (j - (i - 1)) = j
    BY <1>1, <1>4, <1>11
  <2>2. t[j] = back[j - (i - 1)]
    BY <1>5, <1>8, <2>1 DEF t
  <2> QED
    BY <1>5, <2>1, <2>2
<1> QED
  BY <1>9, <1>10, <1>11 DEF t

\* What is in a list without its i-th element.
LEMMA RemovedRange ==
  ASSUME NEW S, NEW s \in Seq(S), NEW i \in 1 .. Len(s),
         \A j, k \in DOMAIN s : s[j] = s[k] => j = k
  PROVE  LET t == RemoveAt(s, i)
         IN /\ Range(t) = Range(s) \ {s[i]}
            /\ \A j, k \in DOMAIN t : t[j] = t[k] => j = k
<1> DEFINE t == RemoveAt(s, i)
<1>1. /\ t \in Seq(S) /\ Len(t) = Len(s) - 1
      /\ \A j \in 1 .. Len(s) - 1 : t[j] = IF j < i THEN s[j] ELSE s[j + 1]
  BY RemovedAt
<1> HIDE DEF t
<1>2. /\ DOMAIN t = 1 .. Len(s) - 1 /\ DOMAIN s = 1 .. Len(s)
      /\ Len(s) \in Nat /\ i \in Nat
  <2>1. DOMAIN t = 1 .. Len(t)
    BY <1>1
  <2> QED
    BY <1>1, <2>1
<1>3. ASSUME NEW j \in DOMAIN t, NEW k \in DOMAIN t, t[j] = t[k] PROVE j = k
  <2> DEFINE at(l) == IF l < i THEN l ELSE l + 1
  <2>1. /\ at(j) \in DOMAIN s /\ at(k) \in DOMAIN s
        /\ t[j] = s[at(j)] /\ t[k] = s[at(k)]
    BY <1>1, <1>2
  <2>2. at(j) = at(k)
    BY <1>3, <2>1
  <2> QED
    BY <1>2, <2>2
<1>4. Range(t) \subseteq Range(s) \ {s[i]}
  BY <1>1, <1>2 DEF Range
<1>5. ASSUME NEW j \in DOMAIN s, s[j] # s[i] PROVE s[j] \in Range(t)
  <2>1. CASE j < i
    <3>1. j \in DOMAIN t /\ t[j] = s[j]
      BY <1>1, <1>2, <2>1
    <3> QED
      BY <3>1 DEF Range
  <2>2. CASE j > i
    <3>1. j - 1 \in DOMAIN t /\ t[j - 1] = s[j]
      BY <1>1, <1>2, <2>2
    <3> QED
      BY <3>1 DEF Range
  <2> QED
    BY <1>2, <1>5, <2>1, <2>2
<1>6. Range(s) \ {s[i]} \subseteq Range(t)
  BY <1>5 DEF Range
<1>7. Range(t) = Range(s) \ {s[i]}
  BY <1>4, <1>6
<1> QED
  BY <1>3, <1>7 DEF t

\* PushBack of a page that is not in the list.
LEMMA PushedBack ==
  ASSUME NEW S, NEW s \in Seq(S), NEW p \in S, p \notin Range(s),
         \A j, k \in DOMAIN s : s[j] = s[k] => j = k
  PROVE  LET t == Append(s, p)
         IN /\ t \in Seq(S) /\ Len(t) = Len(s) + 1
            /\ Range(t) = Range(s) \cup {p}
            /\ \A j, k \in DOMAIN t : t[j] = t[k] => j = k
<1> DEFINE t == Append(s, p)
<1>1. /\ t \in Seq(S) /\ Len(t) = Len(s) + 1 /\ Len(s) \in Nat
      /\ DOMAIN t = 1 .. Len(s) + 1 /\ DOMAIN s = 1 .. Len(s)
      /\ \A j \in 1 .. Len(s) : t[j] = s[j]
      /\ t[Len(s) + 1] = p
  OBVIOUS
<1> HIDE DEF t
<1>2. \A j \in DOMAIN s : s[j] # p
  BY DEF Range
<1>3. \A j, k \in DOMAIN t : t[j] = t[k] => j = k
  BY <1>1, <1>2
<1>4. Range(t) \subseteq Range(s) \cup {p}
  BY <1>1 DEF Range
<1>5. Range(s) \subseteq Range(t)
  BY <1>1 DEF Range
<1>6. p \in Range(t)
  BY <1>1 DEF Range
<1>7. Range(t) = Range(s) \cup {p}
  BY <1>4, <1>5, <1>6
<1> QED
  BY <1>1, <1>3, <1>7 DEF t

\* Which page getPage writes out.
Evicted(p) == IF MustEvict(p) THEN {Head(lruList)} ELSE {}

\* The page written out is in memory, and is not the one that is read in: there
\* is room for one.
LEMMA EvictedInMemory ==
  ASSUME ListInv, NEW p \in Pages, MustEvict(p)
  PROVE  /\ 1 \in DOMAIN lruList /\ Head(lruList) = lruList[1]
         /\ Head(lruList) \in DOMAIN pages /\ Head(lruList) \in Pages
         /\ Head(lruList) # p
<1>1. /\ lruList \in Seq(Pages) /\ Range(lruList) = DOMAIN pages
      /\ p \notin DOMAIN pages /\ Len(lruList) + 1 > PageStoreMaxLen
  BY DEF ListInv, Fits, MustEvict
<1>2. /\ DOMAIN lruList = 1 .. Len(lruList) /\ Len(lruList) \in Nat
      /\ Head(lruList) = lruList[1]
  BY <1>1
<1>3. 1 \in DOMAIN lruList
  BY <1>1, <1>2, PageAssumption
<1>4. lruList[1] \in DOMAIN pages /\ lruList[1] \in Pages
  BY <1>1, <1>3 DEF Range
<1> QED
  BY <1>1, <1>2, <1>3, <1>4

\* getPage keeps the list and the map of pages together, within the limit.
LEMMA ListTouched ==
  ASSUME ListInv, NEW p \in Pages, NEW content, TouchPage(p, content)
  PROVE  Fits(lruList', pages')
<1> DEFINE others == IF Removed(p) = {} THEN lruList
                     ELSE RemoveAt(lruList, CHOOSE i \in Removed(p) : TRUE)
<1>1. /\ lruList \in Seq(Pages) /\ Range(lruList) = DOMAIN pages
      /\ \A j, k \in DOMAIN lruList : lruList[j] = lruList[k] => j = k
      /\ Len(lruList) <= PageStoreMaxLen
      /\ PageStoreMaxLen \in Nat \ {0} /\ Len(lruList) \in Nat
  BY PageAssumption DEF ListInv, Fits
<1>2. /\ lruList' = Append(others, p)
      /\ DOMAIN pages' = (DOMAIN pages \cup {p}) \ Evicted(p)
  BY DEF TouchPage, Evicted
<1>3. ASSUME NEW i \in DOMAIN lruList, Removed(p) = {i}
      PROVE  /\ others \in Seq(Pages) /\ Len(others) = Len(lruList) - 1
             /\ Range(others) = Range(lruList) \ {lruList[i]}
             /\ \A j, k \in DOMAIN others : others[j] = others[k] => j = k
  <2>1. others = RemoveAt(lruList, i)
    BY <1>3
  <2>2. i \in 1 .. Len(lruList)
    BY <1>1
  <2> HIDE DEF others
  <2>3. others \in Seq(Pages) /\ Len(others) = Len(lruList) - 1
    BY <1>1, <2>1, <2>2, RemovedAt
  <2>4. /\ Range(others) = Range(lruList) \ {lruList[i]}
        /\ \A j, k \in DOMAIN others : others[j] = others[k] => j = k
    BY <1>1, <2>1, <2>2, RemovedRange
  <2> QED
    BY <2>3, <2>4
<1>4. /\ others \in Seq(Pages) /\ Len(others) + 1 <= PageStoreMaxLen
      /\ Range(others) = DOMAIN pages \ (Evicted(p) \cup {p})
      /\ \A j, k \in DOMAIN others : others[j] = others[k] => j = k
  <2>1. CASE p \in DOMAIN pages
    <3>1. PICK i \in DOMAIN lruList : lruList[i] = p
      BY <1>1, <2>1 DEF Range
    <3>2. Removed(p) = {i} /\ Evicted(p) = {}
      BY <1>1, <2>1, <3>1 DEF Removed, Evicted, MustEvict
    <3> HIDE DEF others
    <3> QED
      BY <1>1, <1>3, <3>1, <3>2
  <2>2. CASE MustEvict(p)
    <3>1. 1 \in DOMAIN lruList /\ Head(lruList) = lruList[1]
      BY <2>2, EvictedInMemory
    <3>2. p \notin Range(lruList)
      BY <1>1, <2>2 DEF MustEvict
    <3>3. Removed(p) = {1} /\ Evicted(p) = {lruList[1]}
      BY <2>2, <3>1, <3>2 DEF Removed, Evicted, Range
    <3> HIDE DEF others
    <3> QED
      BY <1>1, <1>3, <3>1, <3>2, <3>3
  <2>3. CASE p \notin DOMAIN pages /\ ~MustEvict(p)
    <3>1. p \notin Range(lruList)
      BY <1>1, <2>3
    <3>2. Removed(p) = {} /\ Evicted(p) = {}
      BY <2>3, <3>1 DEF Removed, Evicted, Range
    <3>3. Len(lruList) + 1 <= PageStoreMaxLen
      BY <1>1, <2>3 DEF MustEvict
    <3> QED
      BY <1>1, <2>3, <3>2, <3>3
  <2> QED
    BY <2>1, <2>2, <2>3
<1>5. p \notin Evicted(p)
  BY EvictedInMemory DEF Evicted
<1>6. /\ lruList' \in Seq(Pages) /\ Len(lruList') = Len(others) + 1
      /\ Range(lruList') = Range(others) \cup {p}
      /\ \A j, k \in DOMAIN lruList' : lruList'[j] = lruList'[k] => j = k
  <2> HIDE DEF others
  <2>1. p \notin Range(others)
    BY <1>4
  <2> QED
    BY <1>2, <1>4, <2>1, PushedBack
<1> HIDE DEF others
<1>7. Range(lruList') = DOMAIN pages'
  BY <1>2, <1>4, <1>5, <1>6
<1> QED
  BY <1>4, <1>6, <1>7 DEF Fits

---------------------------------------------------------------------------
\* A query sees the page in memory or, failing that, its file; of a page that
\* is being written, what is written.
LEMMA ViewIs ==
  ASSUME RenamingInv, NEW p
  PROVE  View(p) = IF p \in DOMAIN pages THEN pages[p] ELSE FileOf(p)
<1>1. CASE \E r \in renaming : r.page = p
  <2>1. p \notin DOMAIN pages
    BY <1>1 DEF RenamingInv
  <2> QED
    BY <1>1, <2>1 DEF View, FileOf
<1>2. CASE ~ \E r \in renaming : r.page = p
  BY <1>2 DEF View, FileOf, PageOf
<1> QED
  BY <1>1, <1>2

\* While no page is being written the files are what they are.
LEMMA FileOfUnlocked ==
  ASSUME Unlocked, NEW p
  PROVE  FileOf(p) = files[p]
BY DEF Unlocked, FileOf

\* While one is, it is as if its file were there.
LEMMA FileOfRenaming ==
  ASSUME RenamingInv, NEW r \in renaming, NEW p
  PROVE  FileOf(p) = IF p = r.page THEN r.content ELSE files[p]
<1>1. renaming = {r}
  BY DEF RenamingInv
<1>2. CASE p = r.page
  BY <1>1, <1>2 DEF FileOf
<1>3. CASE p # r.page
  BY <1>1, <1>3 DEF FileOf
<1> QED
  BY <1>2, <1>3

\* Unlocked, a query sees what getPage returns.
LEMMA ViewUnlocked ==
  ASSUME Unlocked, NEW p
  PROVE  View(p) = PageOf(p)
BY DEF Unlocked, View

\* Contents stay what they are while nothing is committed and nothing excused is
\* taken back.
LEMMA HonestKept ==
  ASSUME NEW p, NEW page, log' = log, excused \subseteq excused',
         Honest(p, page)
  PROVE  Honest(p, page)'
<1>1. \A n : OnPage(p, n)' = OnPage(p, n)
  BY DEF OnPage
<1> QED
  BY <1>1 DEF Honest

\* (nor do they lose what they cover)
LEMMA CompleteKept ==
  ASSUME NEW p, NEW page, NEW n, log' = log, excused \subseteq excused',
         Complete(p, page, n)
  PROVE  Complete(p, page, n)'
BY DEF Complete, OnPage

\* An empty page is honest.
LEMMA NewPageHonest ==
  ASSUME NEW p, log \in Seq(Pages)
  PROVE  Honest(p, NewPage)
<1>1. NewPage \in Page
  BY DEF NewPage, Page
<1>2. NewPage.LastCommitIndex = 0 /\ NewPage.Store = <<>>
  BY DEF NewPage
<1>3. OnPage(p, 0) = {}
  BY DEF OnPage
<1>4. Len(log) \in Nat
  OBVIOUS
<1>5. Range(NewPage.Store) = {} /\ DOMAIN NewPage.Store = {}
  BY <1>2 DEF Range
<1> QED
  BY <1>1, <1>2, <1>3, <1>4, <1>5 DEF Honest

\* What is complete up to done is complete up to the snapshot's index: the entry
\* a snapshot may be ahead of the store is excused (raft.go:356).
LEMMA CompleteForSnapshot ==
  ASSUME CounterInv, NEW p, NEW page, Complete(p, page, done)
  PROVE  Complete(p, page, snapshot.index)
<1>1. CASE snapshot.index <= done
  BY <1>1 DEF CounterInv, Complete, OnPage
<1>2. CASE snapshot.index > done
  <2>1. OnPage(p, snapshot.index) \subseteq OnPage(p, done) \cup {sent}
    BY <1>2 DEF CounterInv, OnPage
  <2>2. sent \in excused
    BY <1>2 DEF CounterInv
  <2> QED
    BY <2>1, <2>2 DEF Complete
<1> QED
  BY <1>1, <1>2 DEF CounterInv

\* The page a query sees is honest, as is every file.
LEMMA SeenIsHonest ==
  ASSUME RenamingInv, CopyInv, NEW p \in Pages
  PROVE  Honest(p, View(p)) /\ Honest(p, FileOf(p))
<1>1. Honest(p, FileOf(p))
  <2>1. CASE Unlocked
    BY <2>1, FileOfUnlocked DEF CopyInv
  <2>2. CASE ~Unlocked
    <3>1. PICK r \in renaming : TRUE
      BY <2>2 DEF Unlocked
    <3> QED
      BY <3>1, FileOfRenaming DEF CopyInv
  <2> QED
    BY <2>1, <2>2
<1> QED
  BY <1>1, ViewIs DEF CopyInv

\* What getPage does to what queries see and to what is on file: the page asked
\* for has the content given, the one written out is to be found in its file.
LEMMA ContentsTouched ==
  ASSUME ListInv, Unlocked,
         NEW p \in Pages, NEW content, TouchPage(p, content)
  PROVE  /\ RenamingInv'
         /\ \A q \in Pages : View(q)' = IF q = p THEN content ELSE View(q)
         /\ \A q \in Pages :
              FileOf(q)' = IF q \in Evicted(p) THEN pages[q] ELSE FileOf(q)
<1>1. /\ pages' = [q \in (DOMAIN pages \cup {p}) \ Evicted(p) |->
                     IF q = p THEN content ELSE pages[q]]
      /\ files' = [q \in Pages |->
                     IF q \in Evicted(p) THEN NewPage ELSE files[q]]
      /\ renaming' = {[page |-> q, content |-> pages[q]] : q \in Evicted(p)}
  BY DEF TouchPage, Evicted
<1>2. /\ Evicted(p) \subseteq DOMAIN pages \cap Pages /\ p \notin Evicted(p)
      /\ \A q, r \in Evicted(p) : q = r
  BY EvictedInMemory DEF Evicted
<1>3. RenamingInv'
  BY <1>1, <1>2 DEF RenamingInv
<1>4. ASSUME NEW q \in Pages
      PROVE  FileOf(q)' = IF q \in Evicted(p) THEN pages[q] ELSE FileOf(q)
  <2>1. CASE q \in Evicted(p)
    <3>1. renaming' = {[page |-> q, content |-> pages[q]]}
      BY <1>1, <1>2, <2>1
    <3>2. \A r \in renaming' : r.page = q /\ r.content = pages[q]
      BY <3>1
    <3> QED
      BY <2>1, <3>1, <3>2 DEF FileOf
  <2>2. CASE q \notin Evicted(p)
    <3>1. ~ \E r \in renaming' : r.page = q
      BY <1>1, <2>2
    <3> QED
      BY <1>1, <2>2, <3>1, FileOfUnlocked DEF FileOf
  <2> QED
    BY <2>1, <2>2
<1>5. ASSUME NEW q \in Pages
      PROVE  View(q)' = IF q = p THEN content ELSE View(q)
  <2>1. View(q) = IF q \in DOMAIN pages THEN pages[q] ELSE files[q]
    BY ViewUnlocked DEF PageOf
  <2>2. CASE q \in Evicted(p)
    <3>1. renaming' = {[page |-> q, content |-> pages[q]]}
      BY <1>1, <1>2, <2>2
    <3>2. \A r \in renaming' : r.page = q /\ r.content = pages[q]
      BY <3>1
    <3>3. View(q)' = pages[q]
      BY <3>1, <3>2 DEF View
    <3> QED
      BY <1>2, <2>1, <2>2, <3>3
  <2>3. CASE q \notin Evicted(p)
    <3>1. ~ \E r \in renaming' : r.page = q
      BY <1>1, <2>3
    <3>2. View(q)' = IF q \in DOMAIN pages' THEN pages'[q] ELSE files'[q]
      BY <3>1 DEF View, PageOf
    <3> QED
      BY <1>1, <2>1, <2>3, <3>2
  <2> QED
    BY <2>2, <2>3
<1> QED
  BY <1>3, <1>4, <1>5

\* getPage keeps every copy honest, and what a restart would bring back
\* complete: a page that is written out was complete in memory.
LEMMA TouchKeeps ==
  ASSUME PagedInv, Unlocked, NEW p \in Pages, NEW content, Honest(p, content),
         TouchPage(p, content), UNCHANGED <<log, snapshot, excused>>
  PROVE  /\ ListInv' /\ RenamingInv' /\ CopyInv'
         /\ \A q \in Pages : Complete(q, Recovered(q), snapshot.index)'
<1>1. /\ CounterInv /\ ListInv /\ RenamingInv /\ CopyInv /\ CoverInv
      /\ log' = log /\ excused' = excused
  BY DEF PagedInv
<1>2. /\ pages' = [q \in (DOMAIN pages \cup {p}) \ Evicted(p) |->
                     IF q = p THEN content ELSE pages[q]]
      /\ files' = [q \in Pages |->
                     IF q \in Evicted(p) THEN NewPage ELSE files[q]]
      /\ renaming' = {[page |-> q, content |-> pages[q]] : q \in Evicted(p)}
  BY DEF TouchPage, Evicted
<1>3. Evicted(p) \subseteq DOMAIN pages \cap Pages
  BY <1>1, EvictedInMemory DEF Evicted
<1>4. RenamingInv'
  BY <1>1, ContentsTouched
<1>5. ListInv'
  <2>1. Fits(lruList', pages')
    BY <1>1, ListTouched
  <2>2. Fits(snapshot.LRUList, snapshot.Pages)'
    BY <1>1 DEF ListInv
  <2> QED
    BY <2>1, <2>2 DEF ListInv, Fits
<1>6. ASSUME NEW q, NEW page, Honest(q, page)
      PROVE  Honest(q, page)'
  BY <1>1, <1>6, HonestKept
<1>7. CopyInv'
  <2>1. ASSUME NEW q \in Pages PROVE Honest(q, files'[q])
    BY <1>1, <1>2, NewPageHonest DEF CopyInv, CounterInv
  <2>2. ASSUME NEW q \in DOMAIN pages' PROVE Honest(q, pages'[q])
    BY <1>1, <1>2, <2>2 DEF CopyInv
  <2>3. ASSUME NEW r \in renaming' PROVE Honest(r.page, r.content)
    <3>1. PICK q \in Evicted(p) : r = [page |-> q, content |-> pages[q]]
      BY <1>2
    <3> QED
      BY <1>1, <1>3, <3>1 DEF CopyInv
  <2>4. ASSUME NEW q \in DOMAIN snapshot'.Pages
        PROVE  Honest(q, snapshot'.Pages[q])
    BY <1>1 DEF CopyInv
  <2>5. files' \in [Pages -> Page]
    <3>1. \A q \in Pages : files'[q] \in Page
      BY <2>1 DEF Honest
    <3> QED
      BY <1>2, <3>1
  <2> QED
    BY <1>6, <2>1, <2>2, <2>3, <2>4, <2>5 DEF CopyInv
<1>8. ASSUME NEW q \in Pages
      PROVE  Complete(q, Recovered(q), snapshot.index)'
  <2> DEFINE now == IF q \in DOMAIN snapshot.Pages THEN snapshot.Pages[q]
                    ELSE IF q \in Evicted(p) THEN pages[q] ELSE FileOf(q)
  <2>1. Recovered(q)' = now
    BY <1>1, ContentsTouched DEF Recovered
  <2>2. Complete(q, now, snapshot.index)
    <3>1. CASE q \notin DOMAIN snapshot.Pages /\ q \in Evicted(p)
      <4>1. View(q) = pages[q]
        BY <1>1, <1>3, <3>1, ViewIs
      <4>2. Complete(q, View(q), done)
        BY <1>1 DEF CoverInv
      <4> QED
        BY <1>1, <3>1, <4>1, <4>2, CompleteForSnapshot
    <3>2. CASE q \in DOMAIN snapshot.Pages \/ q \notin Evicted(p)
      BY <1>1, <3>2 DEF CoverInv, Recovered
    <3> QED
      BY <3>1, <3>2
  <2> HIDE DEF now
  <2>3. Complete(q, now, snapshot.index) => 
          OnPage(q, snapshot.index)' \subseteq Range(now.Store) \cup excused'
    BY DEF Complete, OnPage
  <2> QED
    BY <2>1, <2>2, <2>3 DEF Complete
<1> QED
  BY <1>4, <1>5, <1>7, <1>8

\* A query changes nothing that is seen.
LEMMA QueryStep ==
  ASSUME PagedInv, NEW p \in Pages, Query(p)
  PROVE  PagedInv'
<1>1. /\ CounterInv /\ ListInv /\ RenamingInv /\ CopyInv /\ CoverInv
  BY DEF PagedInv
<1>2. /\ Unlocked /\ TouchPage(p, View(p))
      /\ UNCHANGED <<log, snapshot, sent, done, excused, crashes>>
  BY ViewUnlocked DEF Query
<1>3. Honest(p, View(p))
  BY <1>1, SeenIsHonest
<1>4. /\ ListInv' /\ RenamingInv' /\ CopyInv'
      /\ \A q \in Pages : Complete(q, Recovered(q), snapshot.index)'
  BY <1>2, <1>3, TouchKeeps
<1>5. CounterInv'
  BY <1>1, <1>2 DEF CounterInv
<1>6. ASSUME NEW q \in Pages PROVE Complete(q, View(q), done)'
  <2>1. View(q)' = View(q)
    BY <1>1, <1>2, ContentsTouched
  <2>2. Complete(q, View(q), done)
    BY <1>1 DEF CoverInv
  <2> QED
    BY <1>2, <2>1, <2>2 DEF Complete, OnPage
<1> QED
  BY <1>4, <1>5, <1>6 DEF PagedInv, CoverInv

\* insertRR and deleteRRs bring a page up to the entry, whether it reflects it
\* already or not (paged_dns_store.go:384-430).
LEMMA UpdatedPage ==
  ASSUME CounterInv, done < sent, NEW p \in Pages, p = log[sent], NEW page,
         Honest(p, page), Complete(p, page, done)
  PROVE  /\ Honest(p, Updated(page, sent))
         /\ Complete(p, Updated(page, sent), sent)
<1> DEFINE last == page.LastCommitIndex
<1>1. /\ sent \in Nat /\ done \in Nat /\ sent = done + 1 /\ sent <= Len(log)
      /\ log \in Seq(Pages) /\ Len(log) \in Nat
  BY DEF CounterInv
<1>2. /\ page \in Page /\ last \in Nat /\ page.Store \in Seq(Nat)
      /\ last <= Len(log)
      /\ Range(page.Store) \subseteq OnPage(p, last)
      /\ OnPage(p, last) \subseteq Range(page.Store) \cup excused
      /\ \A j, k \in DOMAIN page.Store : j < k => page.Store[j] < page.Store[k]
  BY DEF Honest, Page
<1>3. CASE last >= sent
  <2>1. Updated(page, sent) = page
    BY <1>3 DEF Updated
  <2>2. OnPage(p, sent) \subseteq OnPage(p, last)
    BY <1>1, <1>2, <1>3 DEF OnPage
  <2> QED
    BY <1>2, <2>1, <2>2 DEF Complete
<1>4. CASE ~(last >= sent)
  <2> DEFINE s == page.Store
             t == Append(s, sent)
             new == [LastCommitIndex |-> sent, Store |-> t]
  <2>1. Updated(page, sent) = new
    BY <1>4 DEF Updated
  <2>2. /\ t \in Seq(Nat) /\ DOMAIN t = 1 .. Len(s) + 1
        /\ DOMAIN s = 1 .. Len(s) /\ Len(s) \in Nat
        /\ \A j \in 1 .. Len(s) : t[j] = s[j]
        /\ t[Len(s) + 1] = sent
    BY <1>1, <1>2
  <2>3. new.LastCommitIndex = sent /\ new.Store = t /\ new \in Page
    BY <1>1, <2>2 DEF Page
  <2> HIDE DEF new, t
  <2>4. Range(t) = Range(s) \cup {sent}
    <3>1. Range(t) \subseteq Range(s) \cup {sent}
      BY <2>2 DEF Range
    <3>2. Range(s) \subseteq Range(t)
      BY <2>2 DEF Range
    <3>3. sent \in Range(t)
      BY <2>2 DEF Range
    <3> QED
      BY <3>1, <3>2, <3>3
  <2>5. \A j \in DOMAIN s : s[j] <= last /\ s[j] \in Nat
    <3>1. \A j \in DOMAIN s : s[j] \in OnPage(p, last)
      BY <1>2 DEF Range
    <3> QED
      BY <1>1, <3>1 DEF OnPage
  <2>6. ASSUME NEW j \in DOMAIN t, NEW k \in DOMAIN t, j < k PROVE t[j] < t[k]
    <3>1. j \in DOMAIN s /\ t[j] = s[j]
      BY <2>2, <2>6
    <3>2. CASE k \in DOMAIN s
      BY <1>2, <2>2, <2>6, <3>1, <3>2
    <3>3. CASE k \notin DOMAIN s
      <4>1. t[k] = sent
        BY <2>2, <3>3
      <4> QED
        BY <1>1, <1>2, <1>4, <2>5, <3>1, <4>1
    <3> QED
      BY <3>2, <3>3
  <2>7. OnPage(p, last) \cup {sent} \subseteq OnPage(p, sent)
    BY <1>1, <1>2, <1>4 DEF OnPage
  <2>8. OnPage(p, sent) \subseteq OnPage(p, done) \cup {sent}
    BY <1>1 DEF OnPage
  <2>9. OnPage(p, sent) \subseteq Range(t) \cup excused
    BY <2>4, <2>8 DEF Complete
  <2> QED
    BY <1>1, <1>2, <2>1, <2>3, <2>4, <2>6, <2>7, <2>9 DEF Honest, Complete
<1> QED
  BY <1>3, <1>4

\* readCommits applies an entry to its page; the others have no part in it.
LEMMA ApplyStep ==
  ASSUME PagedInv, ApplyEntry
  PROVE  PagedInv'
<1> DEFINE p == log[sent]
           content == Updated(View(p), sent)
<1>1. /\ CounterInv /\ ListInv /\ RenamingInv /\ CopyInv /\ CoverInv
  BY DEF PagedInv
<1>2. /\ Unlocked /\ done < sent /\ TouchPage(p, content) /\ done' = sent
      /\ UNCHANGED <<log, snapshot, sent, excused, crashes>>
  BY ViewUnlocked DEF ApplyEntry
<1>3. sent \in 1 .. Len(log) /\ sent = done + 1 /\ p \in Pages
  <2>1. sent \in 1 .. Len(log) /\ sent = done + 1 /\ log \in Seq(Pages)
    BY <1>1, <1>2 DEF CounterInv
  <2> QED
    BY <2>1
<1> HIDE DEF p
<1>4. Honest(p, content) /\ Complete(p, content, sent)
  BY <1>1, <1>2, <1>3, SeenIsHonest, UpdatedPage DEF CoverInv, p
<1> HIDE DEF content
<1>5. /\ ListInv' /\ RenamingInv' /\ CopyInv'
      /\ \A q \in Pages : Complete(q, Recovered(q), snapshot.index)'
  BY <1>2, <1>3, <1>4, TouchKeeps
<1>6. CounterInv'
  BY <1>1, <1>2 DEF CounterInv
<1>7. ASSUME NEW q \in Pages PROVE Complete(q, View(q), done)'
  <2>1. View(q)' = IF q = p THEN content ELSE View(q)
    BY <1>1, <1>2, <1>3, ContentsTouched
  <2>2. q # p => OnPage(q, sent) \subseteq OnPage(q, done)
    BY <1>1, <1>3 DEF OnPage, CounterInv, p
  <2>3. Complete(q, View(q), done)
    BY <1>1 DEF CoverInv
  <2>4. OnPage(q, sent) \subseteq Range(View(q)'.Store) \cup excused
    BY <1>4, <2>1, <2>2, <2>3 DEF Complete
  <2>5. OnPage(q, done)' = OnPage(q, sent)
    BY <1>2 DEF OnPage
  <2> QED
    BY <1>2, <2>4, <2>5 DEF Complete
<1> QED
  BY <1>5, <1>6, <1>7 DEF PagedInv, CoverInv

\* A commit adds a proposal behind all that pages and indexes know of.
LEMMA CommitStep ==
  ASSUME PagedInv, NEW p \in Pages, Commit(p)
  PROVE  PagedInv'
<1>1. /\ CounterInv /\ ListInv /\ RenamingInv /\ CopyInv /\ CoverInv
  BY DEF PagedInv
<1>2. /\ log' = Append(log, p)
      /\ UNCHANGED <<pages, lruList, files, renaming, snapshot, sent, done,
                     excused, crashes>>
  BY DEF Commit, memVars
<1>3. /\ log' \in Seq(Pages) /\ Len(log') = Len(log) + 1 /\ Len(log) \in Nat
      /\ \A i \in 1 .. Len(log) : log'[i] = log[i]
  BY <1>1, <1>2 DEF CounterInv
<1>4. ASSUME NEW q, NEW n \in Nat, n <= Len(log)
      PROVE  OnPage(q, n)' = OnPage(q, n)
  BY <1>3, <1>4 DEF OnPage
<1>5. ASSUME NEW q, NEW page, Honest(q, page) PROVE Honest(q, page)'
  <2>1. page.LastCommitIndex \in Nat /\ page.LastCommitIndex <= Len(log)
    BY <1>5 DEF Honest, Page
  <2>2. OnPage(q, page.LastCommitIndex)' = OnPage(q, page.LastCommitIndex)
    BY <1>4, <2>1
  <2> QED
    BY <1>2, <1>3, <1>5, <2>1, <2>2 DEF Honest
<1>6. ASSUME NEW q, NEW page, NEW n \in Nat, n <= Len(log),
             Complete(q, page, n)
      PROVE  Complete(q, page, n)'
  BY <1>2, <1>4, <1>6 DEF Complete
<1>7. CounterInv' /\ ListInv' /\ RenamingInv'
  BY <1>1, <1>2, <1>3 DEF CounterInv, ListInv, Fits, RenamingInv
<1>8. CopyInv'
  BY <1>1, <1>2, <1>5 DEF CopyInv
<1>9. CoverInv'
  <2>1. /\ done \in Nat /\ done <= Len(log)
        /\ snapshot.index \in Nat /\ snapshot.index <= Len(log)
    BY <1>1, <1>3 DEF CounterInv
  <2> SUFFICES ASSUME NEW q \in Pages
               PROVE  /\ Complete(q, View(q), done)'
                      /\ Complete(q, Recovered(q), snapshot.index)'
    BY DEF CoverInv
  <2>2. View(q)' = View(q) /\ Recovered(q)' = Recovered(q)
    BY <1>2 DEF View, PageOf, Recovered, FileOf
  <2>3. Complete(q, View(q), done) /\ Complete(q, Recovered(q), snapshot.index)
    BY <1>1 DEF CoverInv
  <2>4. /\ OnPage(q, done)' = OnPage(q, done)
        /\ OnPage(q, snapshot.index)' = OnPage(q, snapshot.index)
    BY <1>2, <1>4, <2>1
  <2> QED
    BY <1>2, <2>2, <2>3, <2>4 DEF Complete
<1> QED
  BY <1>7, <1>8, <1>9 DEF PagedInv

\* An entry in the reader's hand has not been applied.
LEMMA ReceiveStep ==
  ASSUME PagedInv, ReceiveEntry
  PROVE  PagedInv'
<1>1. /\ CounterInv /\ ListInv /\ RenamingInv /\ CopyInv /\ CoverInv
  BY DEF PagedInv
<1>2. /\ sent' = sent + 1 /\ sent = done /\ sent < Len(log)
      /\ UNCHANGED <<log, pages, lruList, files, renaming, snapshot, done,
                     excused, crashes>>
  BY DEF ReceiveEntry, memVars
<1>3. CounterInv'
  BY <1>1, <1>2 DEF CounterInv
<1>4. ListInv' /\ RenamingInv'
  BY <1>1, <1>2 DEF ListInv, Fits, RenamingInv
<1>5. CopyInv'
  BY <1>1, <1>2 DEF CopyInv, Honest, OnPage
<1>6. CoverInv'
  BY <1>1, <1>2
  DEF CoverInv, Complete, OnPage, View, PageOf, Recovered, FileOf
<1> QED
  BY <1>3, <1>4, <1>5, <1>6 DEF PagedInv

\* The file is renamed: what was being written is there.
LEMMA RenameStep ==
  ASSUME PagedInv, Rename
  PROVE  PagedInv' /\ \A p \in Pages : View(p)' = View(p)
<1>1. /\ CounterInv /\ ListInv /\ RenamingInv /\ CopyInv /\ CoverInv
  BY DEF PagedInv
<1>2. PICK r \in renaming : files' = [files EXCEPT ![r.page] = r.content]
  BY DEF Rename
<1>3. /\ renaming' = {}
      /\ UNCHANGED <<log, pages, lruList, snapshot, sent, done, excused,
                     crashes>>
  BY DEF Rename
<1>4. /\ r.page \in Pages \ DOMAIN pages /\ Honest(r.page, r.content)
      /\ r.content \in Page
  BY <1>1 DEF RenamingInv, CopyInv, Honest
<1>5. ASSUME NEW q \in Pages PROVE FileOf(q)' = FileOf(q)
  <2>1. FileOf(q)' = files'[q]
    BY <1>3 DEF FileOf
  <2>2. FileOf(q) = IF q = r.page THEN r.content ELSE files[q]
    BY <1>1, FileOfRenaming
  <2> QED
    BY <1>1, <1>2, <1>4, <2>1, <2>2 DEF CopyInv
<1>6. ASSUME NEW q \in Pages PROVE View(q)' = View(q)
  <2>1. View(q)' = IF q \in DOMAIN pages THEN pages[q] ELSE FileOf(q)'
    BY <1>3 DEF View, PageOf, FileOf
  <2> QED
    BY <1>1, <1>5, <2>1, ViewIs
<1>7. CounterInv' /\ ListInv' /\ RenamingInv'
  BY <1>1, <1>3 DEF CounterInv, ListInv, Fits, RenamingInv
<1>8. CopyInv'
  <2>1. files' \in [Pages -> Page] /\ \A q \in Pages : Honest(q, files'[q])
    BY <1>1, <1>2, <1>4 DEF CopyInv
  <2> QED
    BY <1>1, <1>3, <2>1 DEF CopyInv, Honest, OnPage
<1>9. CoverInv'
  BY <1>1, <1>3, <1>5, <1>6 DEF CoverInv, Complete, OnPage, Recovered
<1> QED
  BY <1>6, <1>7, <1>8, <1>9 DEF PagedInv

\* A snapshot of the pages in memory, with what is then on file, is complete up
\* to the last proposal sent, but for one that is in the reader's hand.
LEMMA GetSnapshotStep ==
  ASSUME PagedInv, GetSnapshot
  PROVE  PagedInv'
<1>1. /\ CounterInv /\ ListInv /\ RenamingInv /\ CopyInv /\ CoverInv
  BY DEF PagedInv
<1>2. /\ Unlocked
      /\ snapshot' = [index |-> sent, Pages |-> pages, LRUList |-> lruList]
      /\ excused' = excused \cup (IF done < sent THEN {sent} ELSE {})
      /\ UNCHANGED <<log, pages, lruList, files, renaming, sent, done, crashes>>
  BY DEF GetSnapshot, memVars
<1>3. /\ snapshot'.index = sent /\ snapshot'.Pages = pages
      /\ snapshot'.LRUList = lruList /\ excused \subseteq excused'
  BY <1>2
<1>4. CounterInv'
  BY <1>1, <1>2, <1>3 DEF CounterInv
<1>5. ListInv' /\ RenamingInv'
  BY <1>1, <1>2, <1>3 DEF ListInv, Fits, RenamingInv
<1>6. CopyInv'
  BY <1>1, <1>2, <1>3, HonestKept DEF CopyInv
<1>7. ASSUME NEW q \in Pages
      PROVE  /\ Complete(q, View(q), done)'
             /\ Complete(q, Recovered(q), snapshot.index)'
  <2>1. View(q)' = View(q)
    BY <1>2 DEF View, PageOf
  <2>2. Complete(q, View(q), done)
    BY <1>1 DEF CoverInv
  <2>3. Recovered(q)' = View(q)
    <3>1. FileOf(q)' = files[q]
      BY <1>2 DEF Unlocked, FileOf
    <3>2. View(q) = IF q \in DOMAIN pages THEN pages[q] ELSE files[q]
      BY <1>2, ViewUnlocked DEF PageOf
    <3> QED
      BY <1>3, <3>1, <3>2 DEF Recovered
  <2>4. OnPage(q, sent) \subseteq OnPage(q, done) \cup (excused' \ excused)
                                  \cup excused
    BY <1>1, <1>2 DEF CounterInv, OnPage
  <2>5. /\ OnPage(q, done)' = OnPage(q, done)
        /\ OnPage(q, snapshot.index)' = OnPage(q, sent)
    BY <1>2, <1>3 DEF OnPage
  <2> QED
    BY <1>3, <2>1, <2>2, <2>3, <2>4, <2>5 DEF Complete
<1> QED
  BY <1>4, <1>5, <1>6, <1>7 DEF PagedInv, CoverInv

\* A restart brings back what the snapshot and the files hold; of a page whose
\* file is between Remove and Rename, if it is not in the snapshot, nothing.
LEMMA RestartStep ==
  ASSUME PagedInv, Restart, excused \subseteq excused', excused' \subseteq Nat,
         \A r \in renaming : r.page \notin DOMAIN snapshot.Pages =>
           OnPage(r.page, snapshot.index) \subseteq excused'
  PROVE  PagedInv'
<1>1. /\ CounterInv /\ ListInv /\ RenamingInv /\ CopyInv /\ CoverInv
  BY DEF PagedInv
<1>2. /\ crashes' = crashes + 1
      /\ pages' = snapshot.Pages /\ lruList' = snapshot.LRUList
      /\ renaming' = {}
      /\ sent' = snapshot.index /\ done' = snapshot.index
      /\ UNCHANGED <<log, files, snapshot>>
  BY DEF Restart
<1>3. CounterInv'
  BY <1>1, <1>2 DEF CounterInv
<1>4. ListInv' /\ RenamingInv'
  BY <1>1, <1>2 DEF ListInv, Fits, RenamingInv
<1>5. CopyInv'
  BY <1>1, <1>2, HonestKept DEF CopyInv
<1>6. ASSUME NEW q \in Pages
      PROVE  /\ View(q)' = IF q \in DOMAIN snapshot.Pages
                           THEN snapshot.Pages[q] ELSE files[q]
             /\ Recovered(q)' = View(q)'
             /\ Complete(q, View(q), done)'
  <2>1. View(q)' = IF q \in DOMAIN snapshot.Pages
                   THEN snapshot.Pages[q] ELSE files[q]
    BY <1>2 DEF View, PageOf
  <2>2. Recovered(q)' = View(q)'
    BY <1>2, <2>1 DEF Recovered, FileOf
  <2>3. OnPage(q, snapshot.index) \subseteq Range(View(q)'.Store) \cup excused'
    <3>1. CASE q \notin DOMAIN snapshot.Pages /\ \E r \in renaming : r.page = q
      BY <3>1
    <3>2. CASE q \in DOMAIN snapshot.Pages \/ ~ \E r \in renaming : r.page = q
      <4>1. View(q)' = Recovered(q)
        BY <2>1, <3>2 DEF Recovered, FileOf
      <4> QED
        BY <1>1, <4>1 DEF CoverInv, Complete
    <3> QED
      BY <3>1, <3>2
  <2>4. OnPage(q, done)' = OnPage(q, snapshot.index)
    BY <1>2 DEF OnPage
  <2> QED
    BY <2>1, <2>2, <2>3, <2>4 DEF Complete
<1>7. CoverInv'
  BY <1>2, <1>6 DEF CoverInv
<1> QED
  BY <1>3, <1>4, <1>5, <1>6, <1>7 DEF PagedInv

\* A page that is exact up to n is honest.
LEMMA ExactPageHonest ==
  ASSUME log \in Seq(Pages), NEW p, NEW n \in Nat, n <= Len(log),
         NEW page \in ExactPages(p, n)
  PROVE  Honest(p, page) /\ Range(page.Store) = OnPage(p, n)
<1> DEFINE S == OnPage(p, n)
           last(s) == IF s = <<>> THEN 0 ELSE s[Len(s)]
<1>1. Len(log) \in Nat /\ S \subseteq 1 .. Len(log) /\ S \subseteq Nat
  BY DEF OnPage
<1>2. Cardinality(S) \in Nat
  <2>1. IsFiniteSet(1 .. Len(log))
    BY <1>1, FS_Interval
  <2>2. IsFiniteSet(S)
    BY <1>1, <2>1, FS_Subset
  <2> QED
    BY <2>2, FS_CardinalityType
<1>3. PICK s \in Bijection(1 .. Cardinality(S), S) :
        /\ \A j, k \in DOMAIN s : j < k => s[j] < s[k]
        /\ page = [LastCommitIndex |-> last(s), Store |-> s]
  BY DEF ExactPages
<1>4. /\ s \in [1 .. Cardinality(S) -> S]
      /\ \A t \in S : \E i \in 1 .. Cardinality(S) : s[i] = t
  BY DEF Bijection, Injection, Surjection
<1> HIDE DEF S, last
<1>5. s \in Seq(S) /\ Range(s) = S /\ Len(s) \in Nat /\ DOMAIN s = 1 .. Len(s)
  BY <1>2, <1>4 DEF Range
<1>6. s \in Seq(Nat)
  <2>1. \A j \in 1 .. Len(s) : s[j] \in Nat
    BY <1>1, <1>5 DEF Range
  <2> QED
    BY <1>5, <2>1
<1>7. page.LastCommitIndex = last(s) /\ page.Store = s
  BY <1>3
<1>8. last(s) \in Nat /\ last(s) <= n /\ \A i \in S : i <= last(s)
  <2>1. CASE s = <<>>
    <3>1. S = {}
      BY <1>5, <2>1 DEF Range
    <3> QED
      BY <2>1, <3>1 DEF last
  <2>2. CASE s # <<>>
    <3>1. Len(s) \in DOMAIN s
      BY <1>5, <2>2
    <3>2. s[Len(s)] \in S /\ s[Len(s)] \in Nat
      BY <1>1, <1>5, <3>1 DEF Range
    <3>3. \A j \in DOMAIN s : s[j] <= s[Len(s)]
      <4> SUFFICES ASSUME NEW j \in DOMAIN s PROVE s[j] <= s[Len(s)]
        OBVIOUS
      <4>1. CASE j = Len(s)
        BY <3>2, <4>1
      <4>2. CASE j < Len(s)
        <5>1. s[j] < s[Len(s)] /\ s[j] \in Nat
          BY <1>3, <1>6, <3>1, <4>2
        <5> QED
          BY <3>2, <5>1
      <4> QED
        BY <1>5, <4>1, <4>2
    <3>4. s[Len(s)] <= n
      BY <3>2 DEF S, OnPage
    <3> QED
      BY <1>1, <1>5, <2>2, <3>2, <3>3, <3>4 DEF Range, last
  <2> QED
    BY <2>1, <2>2
<1>9. OnPage(p, last(s)) = S
  BY <1>1, <1>8 DEF S, OnPage
<1>10. page \in Page
  BY <1>3, <1>6, <1>8 DEF Page
<1> QED
  BY <1>1, <1>3, <1>5, <1>7, <1>8, <1>9, <1>10 DEF Honest, S

\* A snapshot of the leader's brings its pages up to its index at least; what
\* the others lack is excused.
LEMMA ReceiveSnapshotStep ==
  ASSUME PagedInv, ReceiveSnapshot
  PROVE  PagedInv'
<1>1. /\ CounterInv /\ ListInv /\ RenamingInv /\ CopyInv /\ CoverInv
  BY DEF PagedInv
<1>2. PICK index \in sent + 1 .. Len(log),
           order \in UNION {Injection(1..n, Pages) : n \in 0..PageStoreMaxLen} :
        /\ pages' \in [Range(order) -> UNION {LeaderPages(p, index) :
                                                p \in Range(order)}]
        /\ \A p \in Range(order) : pages'[p] \in LeaderPages(p, index)
        /\ lruList' = order
        /\ snapshot' = [index |-> index, Pages |-> pages', LRUList |-> order]
        /\ sent' = index /\ done' = index
        /\ excused' = excused \cup
             UNION {OnPage(p, index) \ Range(files[p].Store) :
                      p \in Pages \ Range(order)}
  BY DEF ReceiveSnapshot
<1>3. Unlocked /\ UNCHANGED <<log, files, renaming, crashes>>
  BY DEF ReceiveSnapshot
<1>4. /\ log \in Seq(Pages) /\ Len(log) \in Nat
      /\ index \in Nat /\ index <= Len(log)
  BY <1>1 DEF CounterInv
<1>5. /\ DOMAIN pages' = Range(order)
      /\ snapshot'.index = index /\ snapshot'.Pages = pages'
      /\ snapshot'.LRUList = order
  BY <1>2
<1>6. /\ excused \subseteq excused' /\ excused' \subseteq Nat
      /\ \A p \in Pages \ Range(order) :
           OnPage(p, index) \subseteq Range(files[p].Store) \cup excused'
  BY <1>1, <1>2 DEF CounterInv, OnPage
<1>7. CounterInv'
  BY <1>1, <1>2, <1>3, <1>4, <1>5, <1>6 DEF CounterInv
<1>8. ListInv'
  <2>1. PICK n \in 0 .. PageStoreMaxLen : order \in Injection(1 .. n, Pages)
    BY <1>2
  <2>2. /\ n \in Nat /\ n <= PageStoreMaxLen
        /\ order \in [1 .. n -> Pages]
        /\ \A j, k \in 1 .. n : order[j] = order[k] => j = k
    BY <2>1, PageAssumption DEF Injection, IsInjective
  <2>3. order \in Seq(Pages) /\ Len(order) = n /\ DOMAIN order = 1 .. n
    BY <2>2
  <2> QED
    BY <1>2, <1>5, <2>2, <2>3 DEF ListInv, Fits
<1>9. RenamingInv'
  BY <1>3 DEF Unlocked, RenamingInv
<1>10. ASSUME NEW p \in Range(order)
       PROVE  /\ Honest(p, pages'[p])
              /\ OnPage(p, index) \subseteq Range(pages'[p].Store)
  <2>1. PICK n \in index .. Len(log) : pages'[p] \in ExactPages(p, n)
    BY <1>2 DEF LeaderPages
  <2>2. n \in Nat /\ n <= Len(log) /\ index <= n
    BY <1>4
  <2>3. OnPage(p, index) \subseteq OnPage(p, n)
    BY <1>4, <2>2 DEF OnPage
  <2> QED
    BY <1>4, <2>1, <2>2, <2>3, ExactPageHonest
<1>11. CopyInv'
  <2>1. ASSUME NEW q, NEW page, Honest(q, page) PROVE Honest(q, page)'
    BY <1>3, <1>6, <2>1, HonestKept
  <2> QED
    BY <1>1, <1>3, <1>5, <1>10, <2>1 DEF CopyInv, Unlocked
<1>12. CoverInv'
  <2> SUFFICES ASSUME NEW q \in Pages
               PROVE  /\ Complete(q, View(q), done)'
                      /\ Complete(q, Recovered(q), snapshot.index)'
    BY DEF CoverInv
  <2>1. /\ View(q)' = IF q \in Range(order) THEN pages'[q] ELSE files[q]
        /\ Recovered(q)' = View(q)'
    BY <1>3, <1>5 DEF Unlocked, View, PageOf, Recovered, FileOf
  <2>2. OnPage(q, index) \subseteq Range(View(q)'.Store) \cup excused'
    BY <1>6, <1>10, <2>1
  <2>3. /\ OnPage(q, done)' = OnPage(q, index)
        /\ OnPage(q, snapshot.index)' = OnPage(q, index)
    BY <1>2, <1>3, <1>5 DEF OnPage
  <2> QED
    BY <2>1, <2>2, <2>3 DEF Complete
<1> QED
  BY <1>7, <1>8, <1>9, <1>11, <1>12 DEF PagedInv

---------------------------------------------------------------------------
\* A store without pages.
LEMMA PagedInvInit == Init => PagedInv
<1> SUFFICES ASSUME Init PROVE PagedInv
  OBVIOUS
<1>1. /\ log = <<>> /\ pages = <<>> /\ lruList = <<>> /\ renaming = {}
      /\ files = [p \in Pages |-> NewPage]
      /\ snapshot = [index |-> 0, Pages |-> <<>>, LRUList |-> <<>>]
      /\ sent = 0 /\ done = 0 /\ excused = {} /\ crashes = 0
  BY DEF Init
<1>2. /\ snapshot.index = 0 /\ snapshot.Pages = <<>> /\ snapshot.LRUList = <<>>
      /\ DOMAIN <<>> = {} /\ Range(<<>>) = {}
      /\ <<>> \in Seq(Pages) /\ Len(<<>>) = 0
  BY <1>1 DEF Range
<1>3. CounterInv
  BY <1>1, <1>2 DEF CounterInv
<1>4. ListInv /\ RenamingInv
  BY <1>1, <1>2, PageAssumption DEF ListInv, Fits, RenamingInv
<1>5. CopyInv
  <2>1. \A p \in Pages : Honest(p, NewPage)
    BY <1>1, <1>2, NewPageHonest
  <2>2. NewPage \in Page
    BY DEF NewPage, Page
  <2> QED
    BY <1>1, <1>2, <2>1, <2>2 DEF CopyInv
<1>6. \A p : OnPage(p, 0) = {}
  BY DEF OnPage
<1> QED
  BY <1>1, <1>2, <1>3, <1>4, <1>5, <1>6 DEF PagedInv, CoverInv, Complete

\* The invariant mentions the variables of the store only.
LEMMA PagedInvStutter == PagedInv /\ UNCHANGED vars => PagedInv'
<1> SUFFICES ASSUME PagedInv, UNCHANGED vars PROVE PagedInv'
  OBVIOUS
<1> USE DEF vars, memVars
<1>1. CounterInv' /\ ListInv' /\ RenamingInv'
  BY DEF PagedInv, CounterInv, ListInv, Fits, RenamingInv
<1>2. CopyInv'
  BY DEF PagedInv, CopyInv, Honest, OnPage
<1>3. CoverInv'
  BY DEF PagedInv, CoverInv, Complete, OnPage, View, PageOf, Recovered, FileOf
<1> QED
  BY <1>1, <1>2, <1>3 DEF PagedInv

\* The steps of the store that both specifications have.
LEMMA StoreStepKeeps == PagedInv /\ StoreStep => PagedInv'
BY CommitStep, QueryStep, ReceiveStep, ApplyStep, RenameStep DEF StoreStep

\* A restart while no file is being written excuses nothing.
LEMMA CleanRestartStep == PagedInv /\ CleanRestart => PagedInv'
BY RestartStep DEF CleanRestart, Unlocked, PagedInv, CounterInv

\* A crash anywhere excuses the page whose file is torn.
LEMMA CrashRestartStep == PagedInv /\ CrashRestart => PagedInv'
<1> SUFFICES ASSUME PagedInv, CrashRestart PROVE PagedInv'
  OBVIOUS
<1>1. /\ excused' = excused \cup
           UNION {OnPage(r.page, snapshot.index) :
             r \in {q \in renaming : q.page \notin DOMAIN snapshot.Pages}}
      /\ Restart
  BY DEF CrashRestart
<1>2. excused \subseteq excused' /\ excused' \subseteq Nat
  <2>1. \A p, n : OnPage(p, n) \subseteq Nat
    BY DEF OnPage
  <2>2. excused \subseteq Nat
    BY DEF PagedInv, CounterInv
  <2>3. ASSUME NEW i \in excused' PROVE i \in Nat
    <3>1. i \in excused \/ \E r : i \in OnPage(r.page, snapshot.index)
      BY <1>1
    <3> QED
      BY <2>1, <2>2, <3>1
  <2> QED
    BY <1>1, <2>3
<1>3. \A r \in renaming : r.page \notin DOMAIN snapshot.Pages =>
        OnPage(r.page, snapshot.index) \subseteq excused'
  BY <1>1
<1> QED
  BY <1>1, <1>2, <1>3, RestartStep

\* In the hands of a raft goroutine that behaves, no step breaks the invariant
\* and none excuses a proposal.
LEMMA ExactInvStep == ExactInv /\ [Next]_vars => ExactInv'
<1> SUFFICES ASSUME PagedInv, excused = {}, [Next]_vars
             PROVE  PagedInv' /\ excused' = {}
  BY DEF ExactInv
<1>1. CASE StoreStep
  <2>1. excused' = excused
    BY <1>1 DEF StoreStep, Commit, Query, ReceiveEntry, ApplyEntry, Rename
  <2> QED
    BY <1>1, <2>1, StoreStepKeeps
<1>2. CASE SnapshotWhenCurrent
  <2>1. excused' = excused
    BY <1>2 DEF SnapshotWhenCurrent, GetSnapshot, PagedInv, CounterInv
  <2> QED
    BY <1>2, <2>1, GetSnapshotStep DEF SnapshotWhenCurrent
<1>3. CASE CleanRestart
  BY <1>3, CleanRestartStep DEF CleanRestart
<1>4. CASE UNCHANGED vars
  BY <1>4, PagedInvStutter DEF vars
<1> QED
  BY <1>1, <1>2, <1>3, <1>4 DEF Next

\* Nor does a step of the node it lives in break the invariant.
LEMMA NodeInvStep == PagedInv /\ [NodeNext]_nodeVars => PagedInv'
<1> SUFFICES ASSUME PagedInv, [NodeNext]_nodeVars PROVE PagedInv'
  OBVIOUS
<1>1. ASSUME NEW p \in Pages, Keep(Commit(p)) \/ Keep(Query(p)) PROVE PagedInv'
  BY <1>1, CommitStep, QueryStep DEF Keep
<1>2. CASE Keep(ReceiveEntry) \/ Keep(ApplyEntry) \/ Keep(Rename)
  BY <1>2, ReceiveStep, ApplyStep, RenameStep DEF Keep
<1>3. CASE Keep(GetSnapshot)
  BY <1>3, GetSnapshotStep DEF Keep
<1>4. CASE CrashRestart
  BY <1>4, CrashRestartStep
<1>5. CASE ReceiveSnapshot
  BY <1>5, ReceiveSnapshotStep
<1>6. CASE UNCHANGED nodeVars
  BY <1>6, PagedInvStutter DEF nodeVars
<1> QED
  BY <1>1, <1>2, <1>3, <1>4, <1>5, <1>6 DEF NodeNext

---------------------------------------------------------------------------
\* What the invariant says of types.
LEMMA TypesFollow == PagedInv => TypeOK
<1> SUFFICES ASSUME PagedInv PROVE TypeOK
  OBVIOUS
<1>1. CounterInv /\ ListInv /\ RenamingInv /\ CopyInv
  BY DEF PagedInv
<1>2. DOMAIN pages \subseteq Pages /\ DOMAIN snapshot.Pages \subseteq Pages
  <2>1. ASSUME NEW list \in Seq(Pages) PROVE Range(list) \subseteq Pages
    BY DEF Range
  <2> QED
    BY <1>1, <2>1 DEF ListInv, Fits
<1>3. \A p \in DOMAIN pages : pages[p] \in Page
  BY <1>1 DEF CopyInv, Honest
<1>4. \A r \in renaming : r.page \in Pages /\ r.content \in Page
  BY <1>1 DEF RenamingInv, CopyInv, Honest
<1> QED
  BY <1>1, <1>2, <1>3, <1>4
  DEF TypeOK, CounterInv, ListInv, Fits, CopyInv, Page

\* A list without repetition is as long as the set of what it lists.
LEMMA LengthIsCardinality ==
  ASSUME NEW list, NEW map, Fits(list, map)
  PROVE  Len(list) = Cardinality(DOMAIN map)
<1>1. /\ list \in Seq(Pages) /\ Len(list) \in Nat
      /\ DOMAIN list = 1 .. Len(list) /\ Range(list) = DOMAIN map
      /\ \A j, k \in DOMAIN list : list[j] = list[k] => j = k
  BY DEF Fits
<1>2. list \in Bijection(1 .. Len(list), DOMAIN map)
  BY <1>1 DEF Range, Bijection, Injection, Surjection, IsInjective
<1>3. IsFiniteSet(1 .. Len(list)) /\ Cardinality(1 .. Len(list)) = Len(list)
  BY <1>1, FS_Interval
<1>4. ExistsBijection(1 .. Len(list), DOMAIN map)
  BY <1>2 DEF ExistsBijection
<1> QED
  BY <1>3, <1>4, FS_Bijection

\* What the invariant says of the lists.
LEMMA ListsFollow == PagedInv => LRUConsistent
<1> SUFFICES ASSUME PagedInv PROVE LRUConsistent
  OBVIOUS
<1>1. Fits(lruList, pages) /\ Fits(snapshot.LRUList, snapshot.Pages)
  BY DEF PagedInv, ListInv
<1> QED
  BY <1>1, LengthIsCardinality DEF LRUConsistent, Fits

\* The invariant of the paged store: whatever is evicted, restarted and
\* replayed, no proposal is missing from a page or out of place
\* (paged_dns_store.go:82-201 and 384-564).
THEOREM PagedInductive == Spec => []ExactInv
<1>1. Init => ExactInv
  BY PagedInvInit DEF Init, ExactInv
<1> QED
  BY <1>1, ExactInvStep, PTL DEF Spec

\* Every variable of the paged store keeps its type.
THEOREM PagedTypes == Spec => []TypeOK
<1>1. ExactInv => TypeOK
  BY TypesFollow DEF ExactInv
<1> QED
  BY <1>1, PagedInductive, PTL

\* lruList and pages are always about the same pages, each once, and within
\* PageStoreMaxLen (paged_dns_store.go:151-196 and 546-564).
THEOREM ListsAgree == Spec => []LRUConsistent
<1>1. ExactInv => LRUConsistent
  BY ListsFollow DEF ExactInv
<1> QED
  BY <1>1, PagedInductive, PTL

---------------------------------------------------------------------------
\* The mapping of the refinement.
Shown == [p \in Pages |-> View(p).Store]

\* Every page shows the proposals up to some index, no fewer than are applied.
SegmentsShown ==
  \A p \in Pages :
    /\ View(p).Store \in Seq(Nat)
    /\ \E m \in done .. Len(log) : Flat!Reflects(View(p).Store, p, m)

\* With nothing excused it is so: the index is the page's LastCommitIndex,
\* unless the store is ahead of it.
LEMMA ShownIsSegment == ExactInv => SegmentsShown
<1> SUFFICES ASSUME ExactInv, NEW p \in Pages
             PROVE  /\ View(p).Store \in Seq(Nat)
                    /\ \E m \in done .. Len(log) :
                         Flat!Reflects(View(p).Store, p, m)
  BY DEF SegmentsShown
<1> DEFINE page == View(p)
           last == page.LastCommitIndex
           m == IF last > done THEN last ELSE done
<1>1. /\ Honest(p, page) /\ Complete(p, page, done) /\ excused = {}
      /\ done \in Nat /\ done <= Len(log) /\ Len(log) \in Nat
  BY SeenIsHonest DEF ExactInv, PagedInv, CounterInv, CoverInv
<1> HIDE DEF page
<1>2. /\ last \in Nat /\ last <= Len(log)
      /\ \A j, k \in DOMAIN page.Store : j < k => page.Store[j] < page.Store[k]
      /\ Range(page.Store) = OnPage(p, last)
      /\ OnPage(p, done) \subseteq Range(page.Store)
      /\ page.Store \in Seq(Nat)
  BY <1>1 DEF Honest, Complete, Page
<1>3. m \in done .. Len(log)
  BY <1>1, <1>2
<1>4. OnPage(p, m) = Range(page.Store)
  BY <1>1, <1>2 DEF OnPage
<1>5. {i \in 1 .. m : log[i] = p} = OnPage(p, m)
  BY <1>1, <1>3 DEF OnPage
<1>6. Flat!Reflects(page.Store, p, m)
  BY <1>2, <1>4, <1>5 DEF Flat!Reflects, Flat!Range, Range
<1> QED
  BY <1>2, <1>3, <1>6 DEF page

\* (and so after every step)
LEMMA ShownIsSegmentNext == ExactInv' => SegmentsShown'
BY ShownIsSegment, PTL

\* Every step of the paged store is a step of the flat one or changes nothing
\* that is seen.
LEMMA FlatStep ==
  ASSUME ExactInv, [Next]_vars
  PROVE  [Flat!Next]_(Flat!vars)
<1>1. /\ PagedInv /\ excused = {}
      /\ CounterInv /\ ListInv /\ RenamingInv /\ CopyInv /\ CoverInv
  BY DEF ExactInv, PagedInv
<1>2. ExactInv'
  BY ExactInvStep
<1>3. ASSUME \A p \in Pages : View(p)' = View(p) PROVE Shown' = Shown
  BY <1>3 DEF Shown
<1>4. ASSUME NEW p \in Pages, Commit(p) PROVE Flat!Commit(p)
  <2>1. Shown' = Shown
    BY <1>4 DEF Commit, memVars, Shown, View, PageOf
  <2> QED
    BY <1>4, <2>1 DEF Commit, Flat!Commit, Shown
<1>5. ASSUME NEW p \in Pages, Query(p) PROVE UNCHANGED <<log, Shown, done>>
  <2>1. Unlocked /\ TouchPage(p, View(p)) /\ UNCHANGED <<log, done>>
    BY <1>5, ViewUnlocked DEF Query
  <2>2. \A q \in Pages : View(q)' = View(q)
    BY <1>1, <2>1, ContentsTouched
  <2> QED
    BY <1>3, <2>1, <2>2
<1>6. ASSUME ReceiveEntry PROVE UNCHANGED <<log, Shown, done>>
  BY <1>6 DEF ReceiveEntry, memVars, Shown, View, PageOf
<1>7. ASSUME Rename PROVE UNCHANGED <<log, Shown, done>>
  <2>1. \A p \in Pages : View(p)' = View(p)
    BY <1>1, <1>7, RenameStep
  <2> QED
    BY <1>3, <1>7, <2>1 DEF Rename
<1>8. ASSUME SnapshotWhenCurrent PROVE UNCHANGED <<log, Shown, done>>
  BY <1>8
  DEF SnapshotWhenCurrent, GetSnapshot, memVars, Shown, View, PageOf
<1>9. CASE ApplyEntry
  <2> DEFINE p == log[sent]
             content == Updated(View(p), sent)
  <2>1. /\ Unlocked /\ done < sent /\ TouchPage(p, content) /\ done' = sent
        /\ log' = log
    BY <1>9, ViewUnlocked DEF ApplyEntry
  <2>2. /\ sent = done + 1 /\ sent \in 1 .. Len(log) /\ log \in Seq(Pages)
        /\ done \in Nat
    BY <1>1, <2>1 DEF CounterInv
  <2>3. p \in Pages
    BY <2>2
  <2>4. \A q \in Pages : View(q)' = IF q = p THEN content ELSE View(q)
    BY <1>1, <2>1, <2>3, ContentsTouched
  <2>5. Honest(p, View(p))
    BY <1>1, <2>3, SeenIsHonest
  <2> HIDE DEF p
  <2>6. content.Store = IF sent \in Range(View(p).Store) THEN View(p).Store
                        ELSE Append(View(p).Store, sent)
    <3>1. CASE View(p).LastCommitIndex >= sent
      <4>1. sent \in OnPage(p, View(p).LastCommitIndex)
        BY <2>2, <3>1 DEF OnPage, p
      <4>2. sent \in Range(View(p).Store)
        BY <1>1, <2>5, <4>1 DEF Honest
      <4> QED
        BY <3>1, <4>2 DEF Updated
    <3>2. CASE ~(View(p).LastCommitIndex >= sent)
      <4>1. sent \notin Range(View(p).Store)
        <5>1. sent \notin OnPage(p, View(p).LastCommitIndex)
          BY <2>2, <2>5, <3>2 DEF OnPage, Honest, Page
        <5> QED
          BY <2>5, <5>1 DEF Honest
      <4> QED
        BY <3>2, <4>1 DEF Updated
    <3> QED
      BY <3>1, <3>2
  <2> HIDE DEF content
  <2>7. Shown' = IF sent \in Range(Shown[p]) THEN Shown
                 ELSE [Shown EXCEPT ![p] = Append(@, sent)]
    BY <2>3, <2>4, <2>6 DEF Shown
  <2>8. Flat!Range(Shown[p]) = Range(Shown[p])
    BY DEF Flat!Range, Range
  <2>9. done < Len(log) /\ done' = done + 1 /\ p = log[done + 1]
    BY <2>1, <2>2 DEF p
  <2>10. Shown' = IF done + 1 \in Flat!Range(Shown[p]) THEN Shown
                  ELSE [Shown EXCEPT ![p] = Append(@, done + 1)]
    BY <2>2, <2>7, <2>8
  <2> HIDE DEF p
  <2>11. Flat!Apply
    BY <2>1, <2>9, <2>10 DEF Flat!Apply, Shown
  <2> QED
    BY <2>11 DEF Flat!Next
<1>10. CASE CleanRestart
  <2>1. log' = log /\ done' = snapshot.index
    BY <1>10 DEF CleanRestart, Restart
  <2>2. done' \in 0 .. done
    BY <1>1, <2>1 DEF CounterInv
  <2>3. Len(log) \in Nat /\ done \in Nat
    BY <1>1 DEF CounterInv
  <2>4. SegmentsShown'
    BY <1>2, ShownIsSegmentNext
  <2>5. ASSUME NEW p \in Pages
        PROVE  /\ View(p)'.Store \in Seq(1 .. Len(log))
               /\ \E m \in done' .. Len(log) :
                    Flat!Reflects(View(p)'.Store, p, m)
    <3>1. PICK m \in done' .. Len(log') : Flat!Reflects(View(p).Store, p, m)'
      BY <2>4 DEF SegmentsShown
    <3>2. /\ Range(View(p)'.Store) = {i \in 1 .. m : log[i] = p}
          /\ Flat!Reflects(View(p)'.Store, p, m)
      BY <2>1, <3>1 DEF Flat!Reflects, Flat!Range, Range
    <3>3. m \in done' .. Len(log) /\ 1 .. m \subseteq 1 .. Len(log)
      BY <2>1, <2>2, <2>3
    <3>4. View(p)'.Store \in Seq(1 .. Len(log))
      <4> DEFINE s == View(p)'.Store
      <4>1. s \in Seq(Nat)
        BY <2>4 DEF SegmentsShown
      <4>2. \A j \in DOMAIN s : s[j] \in 1 .. Len(log)
        BY <3>2, <3>3 DEF Range
      <4> HIDE DEF s
      <4>3. s \in Seq(1 .. Len(log))
        BY <4>1, <4>2
      <4> QED
        BY <4>3 DEF s
    <3> QED
      BY <3>2, <3>3, <3>4
  <2>6. /\ Shown' \in [Pages -> Seq(1 .. Len(log))]
        /\ \A p \in Pages : \E m \in done' .. Len(log) :
                              Flat!Reflects(Shown'[p], p, m)
    BY <2>5 DEF Shown
  <2>7. Flat!Restart
    BY <2>1, <2>2, <2>6 DEF Flat!Restart, Shown
  <2> QED
    BY <2>7 DEF Flat!Next
<1>11. UNCHANGED <<log, Shown, done>> => UNCHANGED Flat!vars
  BY DEF Flat!vars, Shown
<1>12. UNCHANGED vars => UNCHANGED <<log, Shown, done>>
  BY DEF vars, memVars, Shown, View, PageOf
<1> QED
  BY <1>4, <1>5, <1>6, <1>7, <1>8, <1>9, <1>10, <1>11, <1>12
  DEF Next, StoreStep, Flat!Next

\* Paging is transparent: the paged store implements the flat one, for any
\* number of pages in memory (LastCommitIndex, paged_dns_store.go:388-392 and
\* 412-416).
THEOREM PagingIsTransparent == Spec => ImplementsFlat
<1>1. Init => Flat!Init
  <2> SUFFICES ASSUME Init PROVE Flat!Init
    OBVIOUS
  <2>1. \A p \in Pages : View(p).Store = <<>>
    BY DEF Init, View, PageOf, NewPage
  <2>2. [p \in Pages |-> View(p).Store] = [p \in Pages |-> <<>>]
    BY <2>1
  <2> QED
    BY <2>2 DEF Init, Flat!Init
<1>2. ExactInv /\ [Next]_vars => [Flat!Next]_(Flat!vars)
  BY FlatStep
<1> QED
  BY <1>1, <1>2, PagedInductive, PTL DEF Spec, ImplementsFlat, Flat!Spec

\* The invariant in the node the store lives in (raft.go:327-375 and
\* paged_dns_store.go:102-117, 527-564).
THEOREM NodeInductive == NodeSpec => []PagedInv
<1>1. NodeInit => PagedInv
  BY PagedInvInit DEF NodeInit
<1> QED
  BY <1>1, NodeInvStep, PTL DEF NodeSpec

\* There too the types hold and the LRU list is that of the pages in memory,
\* whatever a snapshot of the leader brings (paged_dns_store.go:546-564).
THEOREM NodeListsAgree == NodeSpec => [](TypeOK /\ LRUConsistent)
<1>1. PagedInv => TypeOK /\ LRUConsistent
  BY TypesFollow, ListsFollow
<1> QED
  BY <1>1, NodeInductive, PTL

\* No page shows a proposal twice or behind a later one, though the pages may be
\* ahead of what is replayed over them (paged_dns_store.go:388-392, 412-416).
THEOREM NodeStoresInOrder == NodeSpec => []StoresInOrder
<1>1. PagedInv => StoresInOrder
  <2> SUFFICES ASSUME PagedInv, NEW p \in Pages
               PROVE  LET page == View(p) IN
                      /\ \A j, k \in 1..Len(page.Store) :
                           j < k => page.Store[j] < page.Store[k]
                      /\ \A j \in Range(page.Store) :
                           log[j] = p /\ j <= page.LastCommitIndex
    BY DEF StoresInOrder
  <2>1. Honest(p, View(p))
    BY SeenIsHonest DEF PagedInv
  <2>2. View(p).Store \in Seq(Nat)
    BY <2>1 DEF Honest, Page
  <2>3. DOMAIN View(p).Store = 1 .. Len(View(p).Store)
    BY <2>2
  <2> QED
    BY <2>1, <2>3 DEF Honest, OnPage
<1> QED
  BY <1>1, NodeInductive, PTL

\* An applied proposal is missing from its page only through the hand-off race
\* (raft.go:356), a torn page file (paged_dns_store.go:111) or a page that was
\* not in the leader's memory (paged_dns_store.go:532).
THEOREM NodeLossExcused == NodeSpec => []PageLossExcused
<1>1. PagedInv => PageLossExcused
  BY DEF PagedInv, CoverInv, Complete, PageLossExcused
<1> QED
  BY <1>1, NodeInductive, PTL

=============================================================================
