--------------------------- MODULE NodeCacheProofs ---------------------------
(***************************************************************************)
(* The safety of NodeCache for any number of machines and records and any  *)
(* length of a second: what a cache holds, and what is on its way to one,  *)
(* can be traced to an answer from outside.                                *)
(***************************************************************************)
EXTENDS NodeCache, FiniteSetTheorems, TLAPS

\* A handler that caches an answer has its records, and is not too late.
HandlerInv ==
  \A n \in Node :
    LET h == handler[n]
    IN IF h.step = "idle" THEN h.todo = {}
       ELSE /\ h.todo # {} /\ h.ttl \in TTLs /\ h.id >= 1
            /\ h.at <= now /\ now <= h.at + MaxDelay
            /\ \A rr \in h.todo : h.at + h.ttl * Second \in dues[rr]

\* So has a whisper, which shows its record's Ttl or 0.
WhisperInv ==
  \A w \in whispers :
    /\ w.at <= now /\ now <= w.at + MaxDelay
    /\ w.at + w.ttl * Second \in dues[w.rr]
    /\ w.body \in {0, w.ttl}

\* An entry of a cache was made at most MaxDelay after an answer; one that does
\* not show the Ttl 0 lives at least as long as an answer.
CacheInv ==
  \A n \in Node, rr \in Record :
    LET e == cache[n][rr]
    IN e # NoEntry =>
         /\ e.ttl \in {0} \cup TTLs /\ e.createTime <= now
         /\ \E due \in dues[rr] :
              e.createTime + e.ttl * Second <= due + MaxDelay
         /\ e.ttl # 0 => \E due \in dues[rr] :
                           due <= e.createTime + e.ttl * Second

\* No answer that held the record is over.
Fresh(rr) == dues[rr] # {} /\ \A due \in dues[rr] : now < due

\* The machine m needs no other whisper of a record.
Has(m, rr) ==
  \/ rr \in Served(m)
  \/ \E w \in whispers : w.to = m /\ w.rr = rr
  \/ <<m, rr>> \in spoiled

\* A handler that has sent its whispers of a record may forget it.
SpawnedInv ==
  \A n \in Node :
    handler[n].step \in {"spawned", "zero"} /\ Fresh(Current(n)) =>
      \A m \in Node \ {n} : Has(m, Current(n))

NodeCacheInv ==
  /\ TypeOK /\ HandlerInv /\ WhisperInv /\ CacheInv
  /\ SpawnedInv /\ EveryNodeLearns

\* An entry is valid as long as its Ttl says (getCacheRecords rounds down).
LEMMA ValidUntil ==
  ASSUME NEW t \in Nat, NEW created \in Nat, created <= t, NEW ttl \in Nat
  PROVE  (t - created) \div Second < ttl <=> t < created + ttl * Second
<1>1. t - created \in Nat /\ Second \in Nat \ {0}
  BY CacheAssumption
<1> DEFINE age == t - created
<1> HIDE DEF age
<1>2. ASSUME NEW s \in Nat \ {0}, age \in Nat
      PROVE  age \div s < ttl <=> age < ttl * s
  BY <1>2
<1>3. ttl * Second \in Nat
  BY <1>1
<1> QED
  BY <1>1, <1>2, <1>3 DEF age

\* The record a handler is at is one of its records.
LEMMA CurrentIsTodo ==
  ASSUME NEW n, handler[n].todo # {}
  PROVE  Current(n) \in handler[n].todo
BY DEF Current

\* A Ttl that is printed or stored fits its type.
LEMMA TtlRange ==
  \A t \in {0} \cup TTLs : t \in Nat /\ t \in 0 .. TtlModulus - 1
<1>1. TTLs \subseteq 0 .. TtlModulus - 1 /\ TtlModulus \in Nat \ {0}
  BY CacheAssumption
<1> QED
  BY <1>1

\* Every step keeps the types.
LEMMA TypesKept ==
  ASSUME TypeOK, HandlerInv, [Next]_vars
  PROVE  TypeOK'
<1>1. ASSUME NEW n \in Node, NEW rrs \in (SUBSET Record) \ {{}},
             NEW ttl \in TTLs, Exchange(n, rrs, ttl)
      PROVE  TypeOK'
  <2>1. IsFiniteSet(rrs) /\ rrs # {} /\ Cardinality(rrs) \in Nat
    <3>1. rrs \in SUBSET Record /\ rrs # {} /\ IsFiniteSet(Record)
      BY CacheAssumption
    <3>2. IsFiniteSet(rrs)
      BY <3>1, FS_Subset
    <3> QED
      BY <3>1, <3>2, FS_CardinalityType
  <2>2. Cardinality(rrs) >= 1
    BY <2>1, FS_EmptySet
  <2>3. brought + Cardinality(rrs) \in 0 .. MaxBrought
        /\ brought + 1 \in 0 .. MaxBrought
    BY <1>1, <2>1, <2>2, CacheAssumption DEF Exchange, TypeOK
  <2>4. [step |-> "next", todo |-> rrs, ttl |-> ttl, at |-> now,
         id |-> brought + 1] \in Handler
    BY <2>3 DEF TypeOK, Handler
  <2>5. now + ttl * Second \in Nat
    <3>1. now \in Nat /\ ttl \in Nat /\ Second \in Nat
      BY CacheAssumption DEF TypeOK
    <3>2. ttl * Second \in Nat
      BY <3>1
    <3> QED
      BY <3>1, <3>2
  <2>6. handler' \in [Node -> Handler] /\ dues' \in [Record -> SUBSET Nat]
    BY <1>1, <2>4, <2>5 DEF Exchange, TypeOK
  <2> QED
    BY <1>1, <2>3, <2>6 DEF Exchange, TypeOK
<1>2. ASSUME NEW n \in Node, WhisperAddCacheRecord(n)
      PROVE  TypeOK'
  <2>1. /\ handler[n] \in Handler /\ handler[n].todo # {}
        /\ handler[n].ttl \in TTLs /\ handler[n].id >= 1
    BY <1>2 DEF WhisperAddCacheRecord, TypeOK, HandlerInv
  <2>2. Current(n) \in Record
    BY <2>1, CurrentIsTodo DEF Handler
  <2>3. \A m \in Node : NewWhisper(n, m, Current(n)) \in Whisper
    BY <2>1, <2>2, CacheAssumption DEF NewWhisper, Whisper, Handler
  <2>4. whispers' \subseteq Whisper
    BY <1>2, <2>3 DEF WhisperAddCacheRecord, TypeOK
  <2>5. handler' \in [Node -> Handler]
    BY <1>2 DEF WhisperAddCacheRecord, TypeOK, Handler
  <2> QED
    BY <1>2, <2>4, <2>5 DEF WhisperAddCacheRecord, TypeOK
<1>3. ASSUME NEW n \in Node, ZeroTtl(n)
      PROVE  TypeOK'
  BY <1>3, CacheAssumption
     DEF ZeroTtl, TypeOK, Handler, Whisper, Entry, NoEntry, Idle
<1>4. ASSUME NEW n \in Node, InsertAndRestore(n)
      PROVE  TypeOK'
  <2> DEFINE left == handler[n].todo \ {Current(n)}
  <2>1. handler[n] \in Handler /\ now \in 0 .. MaxTime
    BY DEF TypeOK
  <2>2. /\ [ttl |-> handler[n].ttl, createTime |-> now] \in Entry
        /\ Idle \in Handler
        /\ [handler[n] EXCEPT !.step = "next", !.todo = left] \in Handler
    <3>1. [ttl |-> handler[n].ttl, createTime |-> now] \in Entry
      BY <2>1 DEF Handler, Entry
    <3>2. Idle \in Handler
      BY CacheAssumption DEF Handler, Idle
    <3>3. [handler[n] EXCEPT !.step = "next", !.todo = left] \in Handler
      BY <2>1 DEF Handler
    <3> QED
      BY <3>1, <3>2, <3>3
  <2>3. cache' \in [Node -> [Record -> Entry]]
    BY <1>4, <2>2 DEF InsertAndRestore, TypeOK
  <2>4. handler' \in [Node -> Handler]
    BY <1>4, <2>2 DEF InsertAndRestore, TypeOK
  <2> QED
    BY <1>4, <2>3, <2>4 DEF InsertAndRestore, TypeOK
<1>5. ASSUME NEW n \in Node, GetCacheRecords(n)
      PROVE  TypeOK'
  BY <1>5, CacheAssumption
     DEF GetCacheRecords, TypeOK, Handler, Whisper, Entry, NoEntry, Idle
<1>6. ASSUME NEW n \in Node, Crash(n)
      PROVE  TypeOK'
  BY <1>6, CacheAssumption
     DEF Crash, TypeOK, Handler, Whisper, Entry, NoEntry, Idle
<1>7. ASSUME NEW w \in whispers, ReadBody(w)
      PROVE  TypeOK'
  <2>1. w \in Whisper
    BY DEF TypeOK
  <2>2. SharedTtl(w) \in {0, w.ttl}
    BY DEF SharedTtl
  <2>3. [w EXCEPT !.step = "body", !.body = SharedTtl(w)] \in Whisper
    BY <2>1, <2>2 DEF Whisper
  <2>4. whispers' \subseteq Whisper /\ spoiled' \subseteq Node \X Record
    BY <1>7, <2>1, <2>3 DEF ReadBody, TypeOK, Whisper
  <2> QED
    BY <1>7, <2>4 DEF ReadBody, TypeOK
<1>8. ASSUME NEW w \in whispers, ReadLengthAndDo(w)
      PROVE  TypeOK'
  <2>1. w \in Whisper
    BY DEF TypeOK
  <2>2. SharedTtl(w) \in {0, w.ttl}
    BY DEF SharedTtl
  <2>3. [w EXCEPT !.step = "sent"] \in Whisper
    BY <2>1, <2>2 DEF Whisper
  <2>4. whispers' \subseteq Whisper /\ spoiled' \subseteq Node \X Record
    BY <1>8, <2>1, <2>3 DEF ReadLengthAndDo, TypeOK, Whisper
  <2> QED
    BY <1>8, <2>4 DEF ReadLengthAndDo, TypeOK
<1>9. ASSUME NEW w \in whispers, AddCache(w)
      PROVE  TypeOK'
  BY <1>9, CacheAssumption
     DEF AddCache, TypeOK, Handler, Whisper, Entry, NoEntry, Idle
<1>10. ASSUME NEW w \in whispers, LoseWhisper(w)
       PROVE  TypeOK'
  BY <1>10, CacheAssumption
     DEF LoseWhisper, TypeOK, Handler, Whisper, Entry, NoEntry, Idle
<1>11. CASE Tick
  BY <1>11, CacheAssumption
     DEF Tick, TypeOK, Handler, Whisper, Entry, NoEntry, Idle
<1>12. CASE UNCHANGED vars
  BY <1>12, CacheAssumption
     DEF vars, TypeOK, Handler, Whisper, Entry, NoEntry, Idle
<1> QED
  BY <1>1, <1>2, <1>3, <1>4, <1>5, <1>6, <1>7, <1>8, <1>9, <1>10, <1>11, <1>12
     DEF Next

\* What a handler caches comes from an answer.
LEMMA HandlerKept ==
  ASSUME TypeOK, HandlerInv, [Next]_vars
  PROVE  HandlerInv'
<1>1. ASSUME NEW n \in Node, NEW rrs \in (SUBSET Record) \ {{}},
             NEW ttl \in TTLs, Exchange(n, rrs, ttl)
      PROVE  HandlerInv'
  <2>1. /\ handler' = [handler EXCEPT ![n] =
                         [step |-> "next", todo |-> rrs, ttl |-> ttl,
                          at |-> now, id |-> brought + 1]]
        /\ UNCHANGED now
    BY <1>1 DEF Exchange
  <2>2. \A rr \in Record : dues[rr] \subseteq dues'[rr]
    BY <1>1 DEF Exchange, TypeOK
  <2>3. \A rr \in rrs : now + ttl * Second \in dues'[rr]
    BY <1>1 DEF Exchange, TypeOK
  <2>4. \A k \in Node : handler[k] \in Handler
    BY DEF TypeOK
  <2>5. ASSUME NEW k \in Node
        PROVE  LET h == handler'[k]
               IN IF h.step = "idle" THEN h.todo = {}
                  ELSE /\ h.todo # {} /\ h.ttl \in TTLs /\ h.id >= 1
                       /\ h.at <= now' /\ now' <= h.at + MaxDelay
                       /\ \A rr \in h.todo : h.at + h.ttl * Second \in dues'[rr]
    <3>1. CASE k = n
      <4>1. /\ handler'[k].step = "next" /\ handler'[k].todo = rrs
            /\ handler'[k].ttl = ttl /\ handler'[k].at = now
            /\ handler'[k].id = brought + 1
        BY <2>1, <3>1 DEF TypeOK
      <4>2. now \in Nat /\ brought \in Nat /\ MaxDelay \in Nat /\ now' = now
        BY <2>1, CacheAssumption DEF TypeOK
      <4>3. now <= now + MaxDelay /\ brought + 1 >= 1 /\ now <= now
        BY <4>2
      <4>4. rrs # {} /\ handler'[k].step # "idle"
        BY <4>1
      <4> QED
        BY <2>3, <4>1, <4>2, <4>3, <4>4
    <3>2. CASE k # n
      <4>1. handler'[k] = handler[k]
        BY <2>1, <3>2 DEF TypeOK
      <4> QED
        BY <2>1, <2>2, <2>4, <4>1 DEF HandlerInv, Handler
    <3> QED
      BY <3>1, <3>2
  <2> QED
    BY <2>5 DEF HandlerInv
<1>2. ASSUME NEW n \in Node, WhisperAddCacheRecord(n)
      PROVE  HandlerInv'
  BY <1>2, CacheAssumption
     DEF WhisperAddCacheRecord, NewWhisper, TypeOK, HandlerInv, Handler, Idle
<1>3. ASSUME NEW n \in Node, ZeroTtl(n)
      PROVE  HandlerInv'
  BY <1>3, CacheAssumption DEF ZeroTtl, TypeOK, HandlerInv, Handler, Idle
<1>4. ASSUME NEW n \in Node, InsertAndRestore(n)
      PROVE  HandlerInv'
  BY <1>4, CacheAssumption
     DEF InsertAndRestore, TypeOK, HandlerInv, Handler, Idle
<1>5. ASSUME NEW n \in Node, GetCacheRecords(n)
      PROVE  HandlerInv'
  BY <1>5, CacheAssumption
     DEF GetCacheRecords, TypeOK, HandlerInv, Handler, Idle
<1>6. ASSUME NEW n \in Node, Crash(n)
      PROVE  HandlerInv'
  BY <1>6, CacheAssumption DEF Crash, TypeOK, HandlerInv, Handler, Idle
<1>7. ASSUME NEW w \in whispers, ReadBody(w)
      PROVE  HandlerInv'
  BY <1>7, CacheAssumption DEF ReadBody, TypeOK, HandlerInv, Handler, Idle
<1>8. ASSUME NEW w \in whispers, ReadLengthAndDo(w)
      PROVE  HandlerInv'
  BY <1>8, CacheAssumption
     DEF ReadLengthAndDo, TypeOK, HandlerInv, Handler, Idle
<1>9. ASSUME NEW w \in whispers, AddCache(w)
      PROVE  HandlerInv'
  BY <1>9, CacheAssumption DEF AddCache, TypeOK, HandlerInv, Handler, Idle
<1>10. ASSUME NEW w \in whispers, LoseWhisper(w)
       PROVE  HandlerInv'
  BY <1>10, CacheAssumption DEF LoseWhisper, TypeOK, HandlerInv, Handler, Idle
<1>11. CASE Tick
  BY <1>11, CacheAssumption DEF Tick, TypeOK, HandlerInv, Handler, Idle
<1>12. CASE UNCHANGED vars
  BY <1>12, CacheAssumption DEF vars, TypeOK, HandlerInv, Handler, Idle
<1> QED
  BY <1>1, <1>2, <1>3, <1>4, <1>5, <1>6, <1>7, <1>8, <1>9, <1>10, <1>11, <1>12
     DEF Next

\* What a whisper brings comes from an answer.
LEMMA WhisperKept ==
  ASSUME TypeOK, HandlerInv, WhisperInv, [Next]_vars
  PROVE  WhisperInv'
<1>1. ASSUME NEW n \in Node, NEW rrs \in (SUBSET Record) \ {{}},
             NEW ttl \in TTLs, Exchange(n, rrs, ttl)
      PROVE  WhisperInv'
  BY <1>1, CacheAssumption
     DEF Exchange, TypeOK, HandlerInv, WhisperInv, Whisper, SharedTtl
<1>2. ASSUME NEW n \in Node, WhisperAddCacheRecord(n)
      PROVE  WhisperInv'
  <2>1. /\ handler[n] \in Handler /\ handler[n].todo # {}
        /\ handler[n].at <= now /\ now <= handler[n].at + MaxDelay
        /\ \A rr \in handler[n].todo :
             handler[n].at + handler[n].ttl * Second \in dues[rr]
    BY <1>2 DEF WhisperAddCacheRecord, TypeOK, HandlerInv
  <2>2. Current(n) \in handler[n].todo
    BY <2>1, CurrentIsTodo
  <2>3. ASSUME NEW m \in Node
        PROVE  LET v == NewWhisper(n, m, Current(n))
               IN /\ v.at <= now /\ now <= v.at + MaxDelay
                  /\ v.at + v.ttl * Second \in dues[v.rr]
                  /\ v.body \in {0, v.ttl}
    BY <2>1, <2>2 DEF NewWhisper
  <2> QED
    BY <1>2, <2>3 DEF WhisperAddCacheRecord, WhisperInv
<1>3. ASSUME NEW n \in Node, ZeroTtl(n)
      PROVE  WhisperInv'
  BY <1>3, CacheAssumption
     DEF ZeroTtl, TypeOK, HandlerInv, WhisperInv, Whisper, SharedTtl
<1>4. ASSUME NEW n \in Node, InsertAndRestore(n)
      PROVE  WhisperInv'
  BY <1>4, CacheAssumption
     DEF InsertAndRestore, TypeOK, HandlerInv, WhisperInv, Whisper, SharedTtl
<1>5. ASSUME NEW n \in Node, GetCacheRecords(n)
      PROVE  WhisperInv'
  BY <1>5, CacheAssumption
     DEF GetCacheRecords, TypeOK, HandlerInv, WhisperInv, Whisper, SharedTtl
<1>6. ASSUME NEW n \in Node, Crash(n)
      PROVE  WhisperInv'
  BY <1>6, CacheAssumption
     DEF Crash, TypeOK, HandlerInv, WhisperInv, Whisper, SharedTtl
<1>7. ASSUME NEW w \in whispers, ReadBody(w)
      PROVE  WhisperInv'
  BY <1>7, CacheAssumption
     DEF ReadBody, TypeOK, HandlerInv, WhisperInv, Whisper, SharedTtl
<1>8. ASSUME NEW w \in whispers, ReadLengthAndDo(w)
      PROVE  WhisperInv'
  BY <1>8, CacheAssumption
     DEF ReadLengthAndDo, TypeOK, HandlerInv, WhisperInv, Whisper, SharedTtl
<1>9. ASSUME NEW w \in whispers, AddCache(w)
      PROVE  WhisperInv'
  BY <1>9, CacheAssumption
     DEF AddCache, TypeOK, HandlerInv, WhisperInv, Whisper, SharedTtl
<1>10. ASSUME NEW w \in whispers, LoseWhisper(w)
       PROVE  WhisperInv'
  BY <1>10, CacheAssumption
     DEF LoseWhisper, TypeOK, HandlerInv, WhisperInv, Whisper, SharedTtl
<1>11. CASE Tick
  BY <1>11, CacheAssumption
     DEF Tick, TypeOK, HandlerInv, WhisperInv, Whisper, SharedTtl
<1>12. CASE UNCHANGED vars
  BY <1>12, CacheAssumption
     DEF vars, TypeOK, HandlerInv, WhisperInv, Whisper, SharedTtl
<1> QED
  BY <1>1, <1>2, <1>3, <1>4, <1>5, <1>6, <1>7, <1>8, <1>9, <1>10, <1>11, <1>12
     DEF Next

\* An entry that is made at most MaxDelay after an answer, with the answer's Ttl
\* or with 0 (dns_store.go:118-146).
LEMMA EntryMade ==
  ASSUME TypeOK, CacheInv, NEW n \in Node, NEW rr \in Record,
         NEW at \in Nat, NEW ttl \in TTLs, NEW shown \in {0, ttl},
         at <= now, now <= at + MaxDelay, at + ttl * Second \in dues[rr],
         cache' = [cache EXCEPT ![n][rr] =
                     [ttl |-> shown, createTime |-> now]],
         UNCHANGED <<now, dues>>
  PROVE  CacheInv'
<1>1. /\ now \in Nat /\ ttl \in Nat /\ Second \in Nat /\ MaxDelay \in Nat
      /\ ttl * Second \in Nat /\ 0 * Second = 0
  BY CacheAssumption DEF TypeOK
<1>2. now + shown * Second <= at + ttl * Second + MaxDelay
  <2>1. CASE shown = 0
    BY <1>1, <2>1
  <2>2. CASE shown = ttl
    BY <1>1, <2>2
  <2> QED
    BY <2>1, <2>2
<1>3. shown # 0 => at + ttl * Second <= now + shown * Second
  BY <1>1
<1>4. ASSUME NEW m \in Node, NEW r \in Record
      PROVE  cache'[m][r] = IF m = n /\ r = rr
                            THEN [ttl |-> shown, createTime |-> now]
                            ELSE cache[m][r]
  BY DEF TypeOK
<1> QED
  BY <1>1, <1>2, <1>3, <1>4 DEF CacheInv

\* So do the entries.
LEMMA CacheKept ==
  ASSUME TypeOK, HandlerInv, WhisperInv, CacheInv, [Next]_vars
  PROVE  CacheInv'
<1>1. ASSUME NEW n \in Node, NEW rrs \in (SUBSET Record) \ {{}},
             NEW ttl \in TTLs, Exchange(n, rrs, ttl)
      PROVE  CacheInv'
  BY <1>1, CacheAssumption DEF Exchange, TypeOK, CacheInv, NoEntry
<1>2. ASSUME NEW n \in Node, WhisperAddCacheRecord(n)
      PROVE  CacheInv'
  BY <1>2, CacheAssumption
     DEF WhisperAddCacheRecord, NewWhisper, TypeOK, CacheInv, NoEntry
<1>3. ASSUME NEW n \in Node, ZeroTtl(n)
      PROVE  CacheInv'
  BY <1>3, CacheAssumption DEF ZeroTtl, TypeOK, CacheInv, NoEntry
<1>4. ASSUME NEW n \in Node, InsertAndRestore(n)
      PROVE  CacheInv'
  <2>1. /\ handler[n] \in Handler /\ handler[n].todo # {}
        /\ handler[n].ttl \in TTLs
        /\ handler[n].at <= now /\ now <= handler[n].at + MaxDelay
        /\ \A rr \in handler[n].todo :
             handler[n].at + handler[n].ttl * Second \in dues[rr]
    BY <1>4 DEF InsertAndRestore, TypeOK, HandlerInv
  <2>2. Current(n) \in handler[n].todo
    BY <2>1, CurrentIsTodo
  <2>3. cache' = [cache EXCEPT ![n][Current(n)] =
                    [ttl |-> handler[n].ttl, createTime |-> now]]
        /\ UNCHANGED <<now, dues>>
    BY <1>4 DEF InsertAndRestore
  <2>4. handler[n].at \in Nat /\ Current(n) \in Record
    BY <2>1, <2>2, CacheAssumption DEF Handler
  <2> QED
    BY <2>1, <2>2, <2>3, <2>4, EntryMade
<1>5. ASSUME NEW n \in Node, GetCacheRecords(n)
      PROVE  CacheInv'
  BY <1>5, CacheAssumption DEF GetCacheRecords, TypeOK, CacheInv, NoEntry
<1>6. ASSUME NEW n \in Node, Crash(n)
      PROVE  CacheInv'
  BY <1>6, CacheAssumption DEF Crash, TypeOK, CacheInv, NoEntry
<1>7. ASSUME NEW w \in whispers, ReadBody(w)
      PROVE  CacheInv'
  BY <1>7, CacheAssumption DEF ReadBody, TypeOK, CacheInv, NoEntry
<1>8. ASSUME NEW w \in whispers, ReadLengthAndDo(w)
      PROVE  CacheInv'
  BY <1>8, CacheAssumption DEF ReadLengthAndDo, TypeOK, CacheInv, NoEntry
<1>9. ASSUME NEW w \in whispers, AddCache(w)
      PROVE  CacheInv'
  <2>1. /\ w \in Whisper /\ w.at <= now /\ now <= w.at + MaxDelay
        /\ w.at + w.ttl * Second \in dues[w.rr] /\ w.body \in {0, w.ttl}
    BY DEF TypeOK, WhisperInv
  <2>2. cache' = [cache EXCEPT ![w.to][w.rr] =
                    [ttl |-> w.body, createTime |-> now]]
        /\ UNCHANGED <<now, dues>>
    BY <1>9 DEF AddCache
  <2>3. w.at \in Nat /\ w.ttl \in TTLs /\ w.to \in Node /\ w.rr \in Record
    BY <2>1, CacheAssumption DEF Whisper
  <2> QED
    BY <2>1, <2>2, <2>3, EntryMade
<1>10. ASSUME NEW w \in whispers, LoseWhisper(w)
       PROVE  CacheInv'
  BY <1>10, CacheAssumption DEF LoseWhisper, TypeOK, CacheInv, NoEntry
<1>11. CASE Tick
  <2>1. now' = now + 1 /\ UNCHANGED <<cache, dues>>
    BY <1>11 DEF Tick
  <2>2. \A n \in Node, rr \in Record : cache[n][rr] \in Entry
    BY DEF TypeOK
  <2>3. ASSUME NEW e \in Entry, e.createTime <= now
        PROVE  e.createTime <= now'
    BY <2>1, <2>3 DEF Entry, TypeOK
  <2> QED
    BY <2>1, <2>2, <2>3 DEF CacheInv
<1>12. CASE UNCHANGED vars
  BY <1>12, CacheAssumption DEF vars, TypeOK, CacheInv, NoEntry
<1> QED
  BY <1>1, <1>2, <1>3, <1>4, <1>5, <1>6, <1>7, <1>8, <1>9, <1>10, <1>11, <1>12
     DEF Next

---------------------------------------------------------------------------
(* Every node learns.                                                      *)

\* Time goes on, and the answers that held a record stay known.
LEMMA TimeGoesOn ==
  ASSUME TypeOK, [Next]_vars
  PROVE  now' >= now /\ \A rr \in Record : dues[rr] \subseteq dues'[rr]
<1>1. ASSUME NEW n \in Node, NEW rrs \in (SUBSET Record) \ {{}},
             NEW ttl \in TTLs, Exchange(n, rrs, ttl)
      PROVE  now' >= now /\ \A rr \in Record : dues[rr] \subseteq dues'[rr]
  BY <1>1 DEF Exchange, TypeOK
<1>2. ASSUME NEW n \in Node, WhisperAddCacheRecord(n)
      PROVE  now' >= now /\ \A rr \in Record : dues[rr] \subseteq dues'[rr]
  BY <1>2 DEF WhisperAddCacheRecord, NewWhisper, TypeOK
<1>3. ASSUME NEW n \in Node, ZeroTtl(n)
      PROVE  now' >= now /\ \A rr \in Record : dues[rr] \subseteq dues'[rr]
  BY <1>3 DEF ZeroTtl, TypeOK
<1>4. ASSUME NEW n \in Node, InsertAndRestore(n)
      PROVE  now' >= now /\ \A rr \in Record : dues[rr] \subseteq dues'[rr]
  BY <1>4 DEF InsertAndRestore, TypeOK
<1>5. ASSUME NEW n \in Node, GetCacheRecords(n)
      PROVE  now' >= now /\ \A rr \in Record : dues[rr] \subseteq dues'[rr]
  BY <1>5 DEF GetCacheRecords, TypeOK
<1>6. ASSUME NEW n \in Node, Crash(n)
      PROVE  now' >= now /\ \A rr \in Record : dues[rr] \subseteq dues'[rr]
  BY <1>6 DEF Crash, TypeOK
<1>7. ASSUME NEW w \in whispers, ReadBody(w)
      PROVE  now' >= now /\ \A rr \in Record : dues[rr] \subseteq dues'[rr]
  BY <1>7 DEF ReadBody, TypeOK
<1>8. ASSUME NEW w \in whispers, ReadLengthAndDo(w)
      PROVE  now' >= now /\ \A rr \in Record : dues[rr] \subseteq dues'[rr]
  BY <1>8 DEF ReadLengthAndDo, TypeOK
<1>9. ASSUME NEW w \in whispers, AddCache(w)
      PROVE  now' >= now /\ \A rr \in Record : dues[rr] \subseteq dues'[rr]
  BY <1>9 DEF AddCache, TypeOK
<1>10. ASSUME NEW w \in whispers, LoseWhisper(w)
       PROVE  now' >= now /\ \A rr \in Record : dues[rr] \subseteq dues'[rr]
  BY <1>10 DEF LoseWhisper, TypeOK
<1>11. CASE Tick
  BY <1>11 DEF Tick, TypeOK
<1>12. CASE UNCHANGED vars
  BY <1>12 DEF vars, TypeOK
<1> QED
  BY <1>1, <1>2, <1>3, <1>4, <1>5, <1>6, <1>7, <1>8, <1>9, <1>10, <1>11, <1>12
     DEF Next

\* What is fresh was fresh, unless no answer held it.
LEMMA WasFresh ==
  ASSUME TypeOK, [Next]_vars, NEW rr \in Record, dues[rr] # {}, Fresh(rr)'
  PROVE  Fresh(rr)
<1>1. now' >= now /\ dues[rr] \subseteq dues'[rr]
  BY TimeGoesOn
<1>2. now \in Nat /\ now' \in Nat /\ dues[rr] \subseteq Nat
  <2>1. now' \in {now, now + 1}
    BY DEF Next, Exchange, WhisperAddCacheRecord, ZeroTtl, InsertAndRestore,
           GetCacheRecords, Crash, ReadBody, ReadLengthAndDo, AddCache,
           LoseWhisper, Tick, vars
  <2> QED
    BY <2>1 DEF TypeOK
<1>3. ASSUME NEW due \in dues[rr]
      PROVE  now < due
  <2>1. due \in Nat /\ now' < due
    BY <1>1, <1>2 DEF Fresh
  <2> QED
    BY <1>1, <1>2, <2>1
<1> QED
  BY <1>3 DEF Fresh

\* An entry made of an answer that is not over is valid.
LEMMA NewEntryServed ==
  ASSUME TypeOK, NEW n \in Node, NEW rr \in Record, NEW at \in Nat, at <= now,
         NEW ttl \in TTLs, at + ttl * Second \in dues[rr], Fresh(rr),
         cache' = [cache EXCEPT ![n][rr] =
                     [ttl |-> ttl, createTime |-> now]],
         UNCHANGED now
  PROVE  rr \in Served(n)'
<1>1. now \in Nat /\ ttl \in Nat /\ ttl * Second \in Nat
  BY CacheAssumption DEF TypeOK
<1>2. now < now + ttl * Second
  BY <1>1 DEF Fresh
<1>3. (now - now) \div Second < ttl
  BY <1>1, <1>2, ValidUntil
<1>4. cache'[n][rr] = [ttl |-> ttl, createTime |-> now]
  BY DEF TypeOK
<1>5. cache'[n][rr] # NoEntry
  BY <1>1, <1>4 DEF NoEntry
<1> QED
  BY <1>3, <1>4, <1>5 DEF Served, Valid, TimeDiff

\* A machine that has what it needs of a fresh record keeps it.
LEMMA HasStays ==
  ASSUME TypeOK, HandlerInv, WhisperInv, CacheInv, [Next]_vars,
         NEW m \in Node, NEW rr \in Record, dues[rr] # {}, Fresh(rr)',
         Has(m, rr)
  PROVE  Has(m, rr)'
<1>a. Fresh(rr)
  BY WasFresh
<1>1. ASSUME NEW n \in Node, NEW rrs \in (SUBSET Record) \ {{}},
             NEW ttl \in TTLs, Exchange(n, rrs, ttl)
      PROVE  Has(m, rr)'
  BY <1>1 DEF Exchange, TypeOK, Has, Served, Valid, TimeDiff
<1>2. ASSUME NEW n \in Node, WhisperAddCacheRecord(n)
      PROVE  Has(m, rr)'
  BY <1>2
     DEF WhisperAddCacheRecord, NewWhisper, TypeOK, Has, Served, Valid,
         TimeDiff
<1>3. ASSUME NEW n \in Node, ZeroTtl(n)
      PROVE  Has(m, rr)'
  BY <1>3 DEF ZeroTtl, TypeOK, Has, Served, Valid, TimeDiff
<1>4. ASSUME NEW n \in Node, InsertAndRestore(n)
      PROVE  Has(m, rr)'
  <2> DEFINE h == handler[n]
  <2>1. /\ h \in Handler /\ h.todo # {} /\ h.ttl \in TTLs /\ h.at <= now
        /\ \A r \in h.todo : h.at + h.ttl * Second \in dues[r]
    BY <1>4 DEF InsertAndRestore, TypeOK, HandlerInv
  <2>2. Current(n) \in h.todo
    BY <2>1, CurrentIsTodo
  <2>3. cache' = [cache EXCEPT ![n][Current(n)] =
                    [ttl |-> h.ttl, createTime |-> now]]
        /\ UNCHANGED <<now, whispers, spoiled>>
    BY <1>4 DEF InsertAndRestore
  <2>4. CASE m = n /\ rr = Current(n)
    <3>1. h.at \in Nat
      BY <2>1, CacheAssumption DEF Handler
    <3>2. rr \in Served(m)'
      BY <1>a, <2>1, <2>2, <2>3, <2>4, <3>1, NewEntryServed
    <3> QED
      BY <3>2 DEF Has
  <2>5. CASE ~(m = n /\ rr = Current(n))
    <3>1. cache'[m][rr] = cache[m][rr]
      BY <2>3, <2>5 DEF TypeOK
    <3> QED
      BY <2>3, <3>1 DEF Has, Served, Valid, TimeDiff
  <2> QED
    BY <2>4, <2>5
<1>5. ASSUME NEW n \in Node, GetCacheRecords(n)
      PROVE  Has(m, rr)'
  BY <1>5 DEF GetCacheRecords, TypeOK, Has, Served, Valid, TimeDiff
<1>6. ASSUME NEW n \in Node, Crash(n)
      PROVE  Has(m, rr)'
  BY <1>6 DEF Crash, TypeOK, Has, Served, Valid, TimeDiff
<1>7. ASSUME NEW w \in whispers, ReadBody(w)
      PROVE  Has(m, rr)'
  <2> DEFINE v == [w EXCEPT !.step = "body", !.body = SharedTtl(w)]
  <2>1. w \in Whisper
    BY DEF TypeOK
  <2>2. v.to = w.to /\ v.rr = w.rr
    BY <2>1 DEF Whisper
  <2>3. \/ whispers' = (whispers \ {w}) \cup {v}
        \/ <<w.to, w.rr>> \in spoiled' /\ whispers' = whispers \ {w}
    BY <1>7 DEF ReadBody
  <2>4. UNCHANGED <<now, cache>> /\ spoiled \subseteq spoiled'
    BY <1>7 DEF ReadBody
  <2> HIDE DEF v
  <2> QED
    BY <2>2, <2>3, <2>4 DEF Has, Served, Valid, TimeDiff
<1>8. ASSUME NEW w \in whispers, ReadLengthAndDo(w)
      PROVE  Has(m, rr)'
  <2> DEFINE v == [w EXCEPT !.step = "sent"]
  <2>1. w \in Whisper
    BY DEF TypeOK
  <2>2. v.to = w.to /\ v.rr = w.rr
    BY <2>1 DEF Whisper
  <2>3. \/ whispers' = (whispers \ {w}) \cup {v}
        \/ <<w.to, w.rr>> \in spoiled' /\ whispers' = whispers \ {w}
    BY <1>8 DEF ReadLengthAndDo
  <2>4. UNCHANGED <<now, cache>> /\ spoiled \subseteq spoiled'
    BY <1>8 DEF ReadLengthAndDo
  <2> HIDE DEF v
  <2> QED
    BY <2>2, <2>3, <2>4 DEF Has, Served, Valid, TimeDiff
<1>9. ASSUME NEW w \in whispers, AddCache(w)
      PROVE  Has(m, rr)'
  <2>1. /\ w \in Whisper /\ w.at <= now /\ w.body \in {0, w.ttl}
        /\ w.at + w.ttl * Second \in dues[w.rr]
    BY DEF TypeOK, WhisperInv
  <2>2. /\ cache' = [cache EXCEPT ![w.to][w.rr] =
                       [ttl |-> w.body, createTime |-> now]]
        /\ whispers' = whispers \ {w}
        /\ spoiled' = IF w.body = 0 THEN spoiled \cup {<<w.to, w.rr>>}
                      ELSE spoiled
        /\ UNCHANGED now
    BY <1>9 DEF AddCache
  <2>3. CASE m = w.to /\ rr = w.rr /\ w.body = 0
    BY <2>2, <2>3 DEF Has
  <2>4. CASE m = w.to /\ rr = w.rr /\ w.body # 0
    <3>1. w.at \in Nat /\ w.ttl \in TTLs /\ w.body = w.ttl
      BY <2>1, <2>4, CacheAssumption DEF Whisper
    <3>2. rr \in Served(m)'
      BY <1>a, <2>1, <2>2, <2>4, <3>1, NewEntryServed
    <3> QED
      BY <3>2 DEF Has
  <2>5. CASE ~(m = w.to /\ rr = w.rr)
    <3>1. cache'[m][rr] = cache[m][rr]
      BY <2>1, <2>2, <2>5 DEF TypeOK, Whisper
    <3> QED
      BY <2>2, <2>5, <3>1 DEF Has, Served, Valid, TimeDiff
  <2> QED
    BY <2>3, <2>4, <2>5
<1>10. ASSUME NEW w \in whispers, LoseWhisper(w)
       PROVE  Has(m, rr)'
  BY <1>10 DEF LoseWhisper, TypeOK, Has, Served, Valid, TimeDiff
<1>11. CASE Tick
  <2> DEFINE e == cache[m][rr]
  <2>1. now' = now + 1 /\ UNCHANGED <<cache, whispers, spoiled>>
    BY <1>11 DEF Tick
  <2>2. CASE rr \in Served(m)
    <3>1. /\ e # NoEntry /\ (now - e.createTime) \div Second < e.ttl
          /\ e \in Entry /\ now \in Nat
      BY <2>2 DEF Served, Valid, TimeDiff, TypeOK
    <3>2. /\ e.createTime <= now /\ e.ttl \in {0} \cup TTLs
          /\ e.ttl # 0 => \E due \in dues[rr] :
                            due <= e.createTime + e.ttl * Second
      BY <3>1 DEF CacheInv
    <3>3. e.ttl \in Nat /\ e.createTime \in Nat /\ now' \in Nat
          /\ Second \in Nat /\ e.ttl * Second \in Nat
      <4>1. e.ttl \in Nat /\ e.createTime \in Nat /\ Second \in Nat
        <5>1. \A t \in {0} \cup TTLs : t \in Nat
          BY TtlRange
        <5>2. e.createTime \in 0 .. MaxTime
          BY <3>1 DEF Entry
        <5>3. MaxTime \in Nat /\ Second \in Nat
          BY CacheAssumption
        <5>4. e.ttl \in {0} \cup TTLs
          BY <3>2
        <5>5. e.ttl \in Nat
          BY <5>1, <5>4
        <5> QED
          BY <5>2, <5>3, <5>5
      <4>2. now' \in Nat
        BY <2>1, <3>1
      <4> QED
        BY <4>1, <4>2
    <3>4. e.ttl # 0
      <4>1. SUFFICES ASSUME e.ttl = 0 PROVE FALSE
        OBVIOUS
      <4>2. now < e.createTime + 0 * Second
        BY <3>1, <3>2, <3>3, <4>1, ValidUntil
      <4> QED
        BY <3>1, <3>2, <3>3, <4>2
    <3>5. PICK due \in dues[rr] : due <= e.createTime + e.ttl * Second
      BY <3>2, <3>4
    <3>6. due \in Nat /\ now' < due
      BY <1>a, TimeGoesOn DEF Fresh, TypeOK
    <3>7. now' < e.createTime + e.ttl * Second /\ e.createTime <= now'
      BY <2>1, <3>1, <3>2, <3>3, <3>5, <3>6
    <3>8. (now' - e.createTime) \div Second < e.ttl
      BY <3>3, <3>7, ValidUntil
    <3> QED
      BY <2>1, <3>1, <3>8 DEF Has, Served, Valid, TimeDiff
  <2> QED
    BY <2>1, <2>2 DEF Has
<1>12. CASE UNCHANGED vars
  BY <1>12 DEF vars, TypeOK, Has, Served, Valid, TimeDiff
<1> QED
  BY <1>1, <1>2, <1>3, <1>4, <1>5, <1>6, <1>7, <1>8, <1>9, <1>10, <1>11, <1>12
     DEF Next

\* The records a handler has still to cache do not vanish from it.
LEMMA TodoStays ==
  ASSUME TypeOK, HandlerInv, [Next]_vars,
         NEW k \in Node, NEW rr \in handler[k].todo
  PROVE  \/ rr \in handler'[k].todo
         \/ Crash(k)
         \/ InsertAndRestore(k) /\ rr = Current(k)
<1>1. ASSUME NEW n \in Node, NEW rrs \in (SUBSET Record) \ {{}},
             NEW ttl \in TTLs, Exchange(n, rrs, ttl)
      PROVE  \/ rr \in handler'[k].todo
             \/ Crash(k)
             \/ InsertAndRestore(k) /\ rr = Current(k)
  BY <1>1 DEF Exchange, TypeOK, HandlerInv, Handler, Idle
<1>2. ASSUME NEW n \in Node, WhisperAddCacheRecord(n)
      PROVE  \/ rr \in handler'[k].todo
             \/ Crash(k)
             \/ InsertAndRestore(k) /\ rr = Current(k)
  BY <1>2
     DEF WhisperAddCacheRecord, NewWhisper, TypeOK, HandlerInv, Handler, Idle
<1>3. ASSUME NEW n \in Node, ZeroTtl(n)
      PROVE  \/ rr \in handler'[k].todo
             \/ Crash(k)
             \/ InsertAndRestore(k) /\ rr = Current(k)
  BY <1>3 DEF ZeroTtl, TypeOK, HandlerInv, Handler, Idle
<1>4. ASSUME NEW n \in Node, InsertAndRestore(n)
      PROVE  \/ rr \in handler'[k].todo
             \/ Crash(k)
             \/ InsertAndRestore(k) /\ rr = Current(k)
  BY <1>4 DEF InsertAndRestore, TypeOK, HandlerInv, Handler, Idle
<1>5. ASSUME NEW n \in Node, GetCacheRecords(n)
      PROVE  \/ rr \in handler'[k].todo
             \/ Crash(k)
             \/ InsertAndRestore(k) /\ rr = Current(k)
  BY <1>5 DEF GetCacheRecords, TypeOK, HandlerInv, Handler, Idle
<1>6. ASSUME NEW n \in Node, Crash(n)
      PROVE  \/ rr \in handler'[k].todo
             \/ Crash(k)
             \/ InsertAndRestore(k) /\ rr = Current(k)
  BY <1>6 DEF Crash, TypeOK, HandlerInv, Handler, Idle
<1>7. ASSUME NEW w \in whispers, ReadBody(w)
      PROVE  \/ rr \in handler'[k].todo
             \/ Crash(k)
             \/ InsertAndRestore(k) /\ rr = Current(k)
  BY <1>7 DEF ReadBody, TypeOK, HandlerInv, Handler, Idle
<1>8. ASSUME NEW w \in whispers, ReadLengthAndDo(w)
      PROVE  \/ rr \in handler'[k].todo
             \/ Crash(k)
             \/ InsertAndRestore(k) /\ rr = Current(k)
  BY <1>8 DEF ReadLengthAndDo, TypeOK, HandlerInv, Handler, Idle
<1>9. ASSUME NEW w \in whispers, AddCache(w)
      PROVE  \/ rr \in handler'[k].todo
             \/ Crash(k)
             \/ InsertAndRestore(k) /\ rr = Current(k)
  BY <1>9 DEF AddCache, TypeOK, HandlerInv, Handler, Idle
<1>10. ASSUME NEW w \in whispers, LoseWhisper(w)
       PROVE  \/ rr \in handler'[k].todo
              \/ Crash(k)
              \/ InsertAndRestore(k) /\ rr = Current(k)
  BY <1>10 DEF LoseWhisper, TypeOK, HandlerInv, Handler, Idle
<1>11. CASE Tick
  BY <1>11 DEF Tick, TypeOK, HandlerInv, Handler, Idle
<1>12. CASE UNCHANGED vars
  BY <1>12 DEF vars, TypeOK, HandlerInv, Handler, Idle
<1> QED
  BY <1>1, <1>2, <1>3, <1>4, <1>5, <1>6, <1>7, <1>8, <1>9, <1>10, <1>11, <1>12
     DEF Next

\* A handler goes past its whispers only after it has sent them.
LEMMA SpawnedStays ==
  ASSUME TypeOK, HandlerInv, [Next]_vars,
         NEW k \in Node, handler'[k].step \in {"spawned", "zero"}
  PROVE  /\ handler'[k].todo = handler[k].todo
         /\ \/ handler[k].step \in {"spawned", "zero"}
            \/ WhisperAddCacheRecord(k)
<1>1. ASSUME NEW n \in Node, NEW rrs \in (SUBSET Record) \ {{}},
             NEW ttl \in TTLs, Exchange(n, rrs, ttl)
      PROVE  /\ handler'[k].todo = handler[k].todo
             /\ \/ handler[k].step \in {"spawned", "zero"}
                \/ WhisperAddCacheRecord(k)
  BY <1>1 DEF Exchange, TypeOK, HandlerInv, Handler, Idle
<1>2. ASSUME NEW n \in Node, WhisperAddCacheRecord(n)
      PROVE  /\ handler'[k].todo = handler[k].todo
             /\ \/ handler[k].step \in {"spawned", "zero"}
                \/ WhisperAddCacheRecord(k)
  <2>1. /\ handler' = [handler EXCEPT ![n].step = "spawned"]
        /\ handler \in [Node -> Handler]
    BY <1>2 DEF WhisperAddCacheRecord, TypeOK
  <2>2. /\ handler'[k].todo = handler[k].todo
        /\ k # n => handler'[k] = handler[k]
    BY <2>1 DEF Handler
  <2> QED
    BY <1>2, <2>2
<1>3. ASSUME NEW n \in Node, ZeroTtl(n)
      PROVE  /\ handler'[k].todo = handler[k].todo
             /\ \/ handler[k].step \in {"spawned", "zero"}
                \/ WhisperAddCacheRecord(k)
  BY <1>3 DEF ZeroTtl, TypeOK, HandlerInv, Handler, Idle
<1>4. ASSUME NEW n \in Node, InsertAndRestore(n)
      PROVE  /\ handler'[k].todo = handler[k].todo
             /\ \/ handler[k].step \in {"spawned", "zero"}
                \/ WhisperAddCacheRecord(k)
  BY <1>4 DEF InsertAndRestore, TypeOK, HandlerInv, Handler, Idle
<1>5. ASSUME NEW n \in Node, GetCacheRecords(n)
      PROVE  /\ handler'[k].todo = handler[k].todo
             /\ \/ handler[k].step \in {"spawned", "zero"}
                \/ WhisperAddCacheRecord(k)
  BY <1>5 DEF GetCacheRecords, TypeOK, HandlerInv, Handler, Idle
<1>6. ASSUME NEW n \in Node, Crash(n)
      PROVE  /\ handler'[k].todo = handler[k].todo
             /\ \/ handler[k].step \in {"spawned", "zero"}
                \/ WhisperAddCacheRecord(k)
  BY <1>6 DEF Crash, TypeOK, HandlerInv, Handler, Idle
<1>7. ASSUME NEW w \in whispers, ReadBody(w)
      PROVE  /\ handler'[k].todo = handler[k].todo
             /\ \/ handler[k].step \in {"spawned", "zero"}
                \/ WhisperAddCacheRecord(k)
  BY <1>7 DEF ReadBody, TypeOK, HandlerInv, Handler, Idle
<1>8. ASSUME NEW w \in whispers, ReadLengthAndDo(w)
      PROVE  /\ handler'[k].todo = handler[k].todo
             /\ \/ handler[k].step \in {"spawned", "zero"}
                \/ WhisperAddCacheRecord(k)
  BY <1>8 DEF ReadLengthAndDo, TypeOK, HandlerInv, Handler, Idle
<1>9. ASSUME NEW w \in whispers, AddCache(w)
      PROVE  /\ handler'[k].todo = handler[k].todo
             /\ \/ handler[k].step \in {"spawned", "zero"}
                \/ WhisperAddCacheRecord(k)
  BY <1>9 DEF AddCache, TypeOK, HandlerInv, Handler, Idle
<1>10. ASSUME NEW w \in whispers, LoseWhisper(w)
       PROVE  /\ handler'[k].todo = handler[k].todo
              /\ \/ handler[k].step \in {"spawned", "zero"}
                 \/ WhisperAddCacheRecord(k)
  BY <1>10 DEF LoseWhisper, TypeOK, HandlerInv, Handler, Idle
<1>11. CASE Tick
  BY <1>11 DEF Tick, TypeOK, HandlerInv, Handler, Idle
<1>12. CASE UNCHANGED vars
  BY <1>12 DEF vars, TypeOK, HandlerInv, Handler, Idle
<1> QED
  BY <1>1, <1>2, <1>3, <1>4, <1>5, <1>6, <1>7, <1>8, <1>9, <1>10, <1>11, <1>12
     DEF Next

\* Whispers are sent before the record is forgotten.
LEMMA SpawnedKept ==
  ASSUME TypeOK, HandlerInv, HandlerInv', WhisperInv, CacheInv, SpawnedInv,
         [Next]_vars
  PROVE  SpawnedInv'
<1> SUFFICES ASSUME NEW k \in Node, handler'[k].step \in {"spawned", "zero"},
                    Fresh(Current(k))', NEW m \in Node \ {k}
             PROVE  Has(m, Current(k))'
  BY DEF SpawnedInv
<1>1. /\ handler'[k].todo = handler[k].todo
      /\ handler[k].step \in {"spawned", "zero"} \/ WhisperAddCacheRecord(k)
  BY SpawnedStays
<1>2. Current(k)' = Current(k)
  BY <1>1 DEF Current
<1>3. handler[k].step # "idle" /\ handler[k].todo # {}
  BY <1>1 DEF HandlerInv, WhisperAddCacheRecord
<1>4. Current(k) \in handler[k].todo
  BY <1>3, CurrentIsTodo
<1>5. Current(k) \in Record /\ dues[Current(k)] # {}
  BY <1>3, <1>4 DEF HandlerInv, TypeOK, Handler
<1>6. Fresh(Current(k))
  BY <1>2, <1>5, WasFresh DEF Fresh
<1>7. CASE handler[k].step \in {"spawned", "zero"}
  <2>1. Has(m, Current(k))
    BY <1>6, <1>7 DEF SpawnedInv
  <2>2. ASSUME NEW rr, rr = Current(k)
        PROVE  Has(m, rr)'
    <3>1. rr \in Record /\ dues[rr] # {} /\ Fresh(rr)' /\ Has(m, rr)
      BY <1>2, <1>5, <2>1, <2>2 DEF Fresh
    <3> QED
      BY <3>1, HasStays
  <2> QED
    BY <1>2, <2>2 DEF Has
<1>8. CASE WhisperAddCacheRecord(k)
  <2>1. NewWhisper(k, m, Current(k)) \in whispers'
    BY <1>8 DEF WhisperAddCacheRecord
  <2>2. /\ NewWhisper(k, m, Current(k)).to = m
        /\ NewWhisper(k, m, Current(k)).rr = Current(k)
    BY DEF NewWhisper
  <2> QED
    BY <1>2, <2>1, <2>2 DEF Has
<1> QED
  BY <1>1, <1>7, <1>8

\* No machine is forgotten while the record is fresh (dns_store.go:88-146).
LEMMA LearnsKept ==
  ASSUME TypeOK, HandlerInv, WhisperInv, CacheInv, SpawnedInv, EveryNodeLearns,
         [Next]_vars
  PROVE  EveryNodeLearns'
<1> SUFFICES ASSUME NEW n \in Node, NEW rr \in Record, Fresh(rr)'
             PROVE  Has(n, rr)' \/ \E k \in Node : rr \in handler'[k].todo
  BY DEF EveryNodeLearns, OnItsWay, Has, Fresh
<1>1. CASE dues[rr] = {}
  <2>1. dues'[rr] # dues[rr]
    BY <1>1 DEF Fresh
  <2>2. PICK k \in Node, rrs \in (SUBSET Record) \ {{}}, ttl \in TTLs :
          Exchange(k, rrs, ttl)
    BY <2>1
       DEF Next, WhisperAddCacheRecord, ZeroTtl, InsertAndRestore,
           GetCacheRecords, Crash, ReadBody, ReadLengthAndDo, AddCache,
           LoseWhisper, Tick, vars
  <2>3. rr \in rrs
    BY <2>1, <2>2 DEF Exchange
  <2> QED
    BY <2>2, <2>3 DEF Exchange, TypeOK
<1>2. CASE dues[rr] # {} /\ Has(n, rr)
  BY <1>2, HasStays
<1>3. CASE dues[rr] # {} /\ ~Has(n, rr)
  <2>1. Fresh(rr)
    BY <1>3, WasFresh
  <2>2. PICK k \in Node : rr \in handler[k].todo
    BY <1>3, <2>1 DEF EveryNodeLearns, OnItsWay, Has, Fresh
  <2>3. CASE Crash(k)
    <3>1. <<n, rr>> \in spoiled'
      BY <2>2, <2>3 DEF Crash
    <3> QED
      BY <3>1 DEF Has
  <2>4. CASE InsertAndRestore(k) /\ rr = Current(k)
    <3>1. CASE n = k
      <4>1. /\ handler[k] \in Handler /\ handler[k].ttl \in TTLs
            /\ handler[k].at <= now
            /\ handler[k].at + handler[k].ttl * Second \in dues[rr]
        BY <2>2, <2>4 DEF InsertAndRestore, TypeOK, HandlerInv
      <4>2. handler[k].at \in Nat
        BY <4>1, CacheAssumption DEF Handler
      <4>3. cache' = [cache EXCEPT ![k][rr] =
                        [ttl |-> handler[k].ttl, createTime |-> now]]
            /\ UNCHANGED now
        BY <2>4 DEF InsertAndRestore
      <4>4. rr \in Served(k)'
        BY <2>1, <4>1, <4>2, <4>3, NewEntryServed
      <4> QED
        BY <3>1, <4>4 DEF Has
    <3>2. CASE n # k
      BY <1>3, <2>1, <2>4, <3>2 DEF SpawnedInv, InsertAndRestore
    <3> QED
      BY <3>1, <3>2
  <2> QED
    BY <2>2, <2>3, <2>4, TodoStays
<1> QED
  BY <1>1, <1>2, <1>3

---------------------------------------------------------------------------
\* The invariant of empty caches.
LEMMA NodeCacheInvInit == Init => NodeCacheInv
<1> SUFFICES ASSUME Init PROVE NodeCacheInv
  OBVIOUS
<1>1. TypeOK
  <2>1. NoEntry \in Entry /\ Idle \in Handler
    BY CacheAssumption DEF NoEntry, Entry, Idle, Handler
  <2> QED
    BY <2>1, CacheAssumption DEF Init, TypeOK
<1>2. HandlerInv /\ WhisperInv /\ CacheInv
  BY DEF Init, HandlerInv, WhisperInv, CacheInv, Idle
<1>3. SpawnedInv /\ EveryNodeLearns
  BY DEF Init, SpawnedInv, EveryNodeLearns, Idle
<1> QED
  BY <1>1, <1>2, <1>3 DEF NodeCacheInv

\* The step lemmas together: no step of a handler, a whispering goroutine, the
\* clock or a crash breaks the invariant.
LEMMA NodeCacheInvStep == NodeCacheInv /\ [Next]_vars => NodeCacheInv'
BY TypesKept, HandlerKept, WhisperKept, CacheKept, SpawnedKept, LearnsKept
   DEF NodeCacheInv

\* The inductive invariant of the caches of a cluster (dns_store.go:70-215,
\* httpapi.go:118-145).
THEOREM NodeCacheInductive == Spec => []NodeCacheInv
BY NodeCacheInvInit, NodeCacheInvStep, PTL DEF Spec

\* Type correctness.
THEOREM NodeCacheTypes == Spec => []TypeOK
<1>1. NodeCacheInv => TypeOK
  BY DEF NodeCacheInv
<1> QED
  BY <1>1, NodeCacheInductive, PTL

\* No machine hands out a record longer than its last answer allows, but for
\* MaxDelay and what getCacheRecords rounds away (dns_store.go:141 and 209-213).
THEOREM StalenessIsBounded == Spec => []BoundedStaleness
<1>1. NodeCacheInv => BoundedStaleness
  <2> SUFFICES ASSUME NodeCacheInv, NEW n \in Node, NEW rr \in Served(n)
               PROVE  \E due \in dues[rr] :
                        now + Remaining(cache[n][rr]) * Second
                          <= due + MaxDelay + Second - 1
    BY DEF BoundedStaleness
  <2> DEFINE e == cache[n][rr]
             age == TimeDiff(e)
  <2>1. rr \in Record /\ e # NoEntry /\ age < e.ttl
    BY DEF Served, Valid
  <2>2. /\ e.ttl \in {0} \cup TTLs /\ e.createTime <= now /\ e \in Entry
        /\ now \in Nat /\ dues[rr] \subseteq Nat
    BY <2>1 DEF NodeCacheInv, CacheInv, TypeOK
  <2>3. PICK due \in dues[rr] : e.createTime + e.ttl * Second <= due + MaxDelay
    BY <2>1 DEF NodeCacheInv, CacheInv
  <2>4. /\ e.createTime \in Nat /\ e.ttl \in 0 .. TtlModulus - 1 /\ due \in Nat
        /\ Second \in Nat \ {0} /\ TtlModulus \in Nat \ {0} /\ MaxDelay \in Nat
    <3>1. \A t \in {0} \cup TTLs : t \in 0 .. TtlModulus - 1
      BY TtlRange
    <3>2. e.createTime \in 0 .. MaxTime
      BY <2>2 DEF Entry
    <3>3. /\ MaxTime \in Nat /\ MaxDelay \in Nat
          /\ Second \in Nat \ {0} /\ TtlModulus \in Nat \ {0}
      BY CacheAssumption
    <3>4. e.ttl \in {0} \cup TTLs
      BY <2>2
    <3>5. e.ttl \in 0 .. TtlModulus - 1
      BY <3>1, <3>4
    <3>6. due \in Nat
      BY <2>2, <2>3
    <3> QED
      BY <3>2, <3>3, <3>5, <3>6
  <2> HIDE DEF e
  <2>5. /\ age \in Nat /\ now - e.createTime < age * Second + Second
    <3>1. ASSUME NEW a \in Nat, NEW s \in Nat \ {0}
          PROVE  a \div s \in Nat /\ a < (a \div s) * s + s
      OBVIOUS
    <3>2. now - e.createTime \in Nat
      BY <2>2, <2>4
    <3> QED
      BY <2>4, <3>1, <3>2 DEF TimeDiff
  <2> HIDE DEF age
  <2>6. Remaining(e) = e.ttl - age
    <3>1. e.ttl - age \in 0 .. TtlModulus - 1
      BY <2>1, <2>4, <2>5
    <3>2. ASSUME NEW a \in Nat, NEW s \in Nat \ {0}, a < s
          PROVE  a % s = a
      BY <3>2
    <3> QED
      BY <2>4, <3>1, <3>2 DEF Remaining, age
  <2>7. (e.ttl - age) * Second = e.ttl * Second - age * Second
    BY <2>4, <2>5
  <2>8. now + (e.ttl - age) * Second <= due + MaxDelay + Second - 1
    <3>1. e.ttl * Second \in Nat /\ age * Second \in Nat
      BY <2>4, <2>5
    <3> QED
      BY <2>2, <2>3, <2>4, <2>5, <2>7, <3>1
  <2> QED
    BY <2>3, <2>6, <2>8 DEF e
<1> QED
  BY <1>1, NodeCacheInductive, PTL

\* A fresh record is served by every machine, is on its way to it, or was lost
\* for one of the three reasons that spoil a copy (dns_store.go:88-110 and
\* 138-146).
THEOREM AllLearn == Spec => []EveryNodeLearns
<1>1. NodeCacheInv => EveryNodeLearns
  BY DEF NodeCacheInv
<1> QED
  BY <1>1, NodeCacheInductive, PTL
==============================================================================
