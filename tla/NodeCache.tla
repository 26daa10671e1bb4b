------------------------------ MODULE NodeCache ------------------------------
(***************************************************************************)
(* The caches of the dns_servers of one raft cluster (dns/dns_store.go     *)
(* whisperAddCacheRecord, addCacheRecord, addCacheRecords,                 *)
(* getCacheRecords; dns/paged_dns_store.go has the same code over its own  *)
(* store; the /addcache handler of dns/httpapi.go and dns/paged_httpapi.go; *)
(* the caching part of HandleRecursiveQuery in dns/dns.go).                *)
(*                                                                         *)
(* A server that gets an answer from outside caches its records one by one *)
(* and has a goroutine per record and peer pass each on ("whisper").  The  *)
(* goroutine prints the record twice, for the body and for the length of   *)
(* the request, while addCacheRecord sets the Ttl of that very record to 0 *)
(* for a moment, to print the key of the cache.                            *)
(*                                                                         *)
(* Abstraction: the records are those of one name and type.  Time is       *)
(* counted in ticks, Second of them to a second; a Ttl is in seconds.      *)
(* External: the answers of 8.8.8.8, the network and the scheduler, which  *)
(* together take at most MaxDelay from an answer to its last whisper.      *)
(***************************************************************************)
EXTENDS Integers, FiniteSets

CONSTANTS
  Node,        \* the machines of the cluster
  Record,      \* the records outside answers may hold
  Second,      \* ticks per second
  TtlModulus,  \* the range of a Ttl: 2^32 in the code
  TTLs,        \* the Ttls outside answers come with
  Wide,        \* the Ttls that print in more than one digit
  MaxDelay,    \* ticks from an answer to the last insertion it causes
  MaxTime,     \* bound on now
  MaxBrought,  \* bound on the records answers from outside bring
  MaxCrashes   \* bound on the crashes

ASSUME CacheAssumption ==
  /\ Second \in Nat \ {0} /\ TtlModulus \in Nat \ {0}
  /\ TTLs \subseteq 0 .. TtlModulus - 1 /\ Wide \subseteq TTLs
  /\ MaxDelay \in Nat /\ MaxTime \in Nat /\ MaxBrought \in Nat
  /\ MaxCrashes \in Nat /\ IsFiniteSet(Record)

VARIABLES
  now,       \* the clock
  cache,     \* s.cache: [ttl, createTime] for each record cached
  handler,   \* the query handler of each node that caches an answer
  whispers,  \* the whisper goroutines and their requests
  dues,      \* history: when the answers that held a record are over
  spoiled,   \* history: <<node, record>> of lost copies and copies with Ttl 0
  brought,   \* the records answers from outside have brought
  crashes

vars == <<now, cache, handler, whispers, dues, spoiled, brought, crashes>>

NoEntry == [ttl |-> -1, createTime |-> 0]
Entry == [ttl : {-1, 0} \cup TTLs, createTime : 0 .. MaxTime]

Idle == [step |-> "idle", todo |-> {}, ttl |-> 0, at |-> 0, id |-> 0]
Handler == [step : {"idle", "next", "spawned", "zero"}, todo : SUBSET Record,
            ttl : {0} \cup TTLs, at : 0 .. MaxTime, id : 0 .. MaxBrought]

Whisper == [from : Node, to : Node, rr : Record, ttl : TTLs, at : 0 .. MaxTime,
            id : 1 .. MaxBrought, step : {"new", "body", "sent"},
            body : {0} \cup TTLs]

TypeOK ==
  /\ now \in 0 .. MaxTime
  /\ cache \in [Node -> [Record -> Entry]]
  /\ handler \in [Node -> Handler]
  /\ whispers \subseteq Whisper
  /\ dues \in [Record -> SUBSET Nat]
  /\ spoiled \subseteq Node \X Record
  /\ brought \in 0 .. MaxBrought /\ crashes \in 0 .. MaxCrashes

---------------------------------------------------------------------------
\* uint32(time.Since(createTime).Seconds())
TimeDiff(e) == (now - e.createTime) \div Second

\* The check of getCacheRecords.
Valid(e) == TimeDiff(e) < e.ttl

\* crInfo.ttl - timeDiff, a uint32.
Remaining(e) == (e.ttl - TimeDiff(e)) % TtlModulus

\* HandleRecursiveQuery: an answer with these records has come from outside;
\* records of the root are left out (addCacheRecord returns at once).
Exchange(n, rrs, ttl) ==
  /\ handler[n].step = "idle"
  /\ brought + Cardinality(rrs) <= MaxBrought
  /\ handler' = [handler EXCEPT ![n] =
                   [step |-> "next", todo |-> rrs, ttl |-> ttl, at |-> now,
                    id |-> brought + 1]]
  /\ dues' = [rr \in Record |->
                IF rr \in rrs THEN dues[rr] \cup {now + ttl * Second}
                ELSE dues[rr]]
  /\ brought' = brought + Cardinality(rrs)
  /\ UNCHANGED <<now, cache, whispers, spoiled, crashes>>

\* The record being cached: the records come in an order of the answer's own.
Current(n) == CHOOSE rr \in handler[n].todo : TRUE

NewWhisper(n, m, rr) ==
  [from |-> n, to |-> m, rr |-> rr, ttl |-> handler[n].ttl,
   at |-> handler[n].at, id |-> handler[n].id, step |-> "new", body |-> 0]

\* Mutant: the machine skipped is not this one but the next.
WhisperSkipsPeer(n) ==
  /\ handler[n].step = "next"
  /\ \E skip \in Node \ {n} :
       whispers' = whispers \cup
         {NewWhisper(n, m, Current(n)) : m \in Node \ {skip}}
  /\ handler' = [handler EXCEPT ![n].step = "spawned"]
  /\ UNCHANGED <<now, cache, dues, spoiled, brought, crashes>>

\* addCacheRecord with whisper set: a goroutine for every other machine.
WhisperAddCacheRecord(n) ==
  /\ handler[n].step = "next"
  /\ whispers' = whispers \cup
       {NewWhisper(n, m, Current(n)) : m \in Node \ {n}}
  /\ handler' = [handler EXCEPT ![n].step = "spawned"]
  /\ UNCHANGED <<now, cache, dues, spoiled, brought, crashes>>

\* The maps for the name and type are at hand; rr.Header().Ttl = 0.
ZeroTtl(n) ==
  /\ handler[n].step = "spawned"
  /\ handler' = [handler EXCEPT ![n].step = "zero"]
  /\ UNCHANGED <<now, cache, whispers, dues, spoiled, brought, crashes>>

\* The entry is made and the Ttl restored; the loop of addCacheRecords goes on.
InsertAndRestore(n) ==
  /\ handler[n].step = "zero"
  /\ LET h == handler[n]
         left == h.todo \ {Current(n)}
     IN /\ cache' = [cache EXCEPT ![n][Current(n)] =
                       [ttl |-> h.ttl, createTime |-> now]]
        /\ handler' = [handler EXCEPT ![n] =
                         IF left = {} THEN Idle
                         ELSE [h EXCEPT !.step = "next", !.todo = left]]
  /\ UNCHANGED <<now, whispers, dues, spoiled, brought, crashes>>

\* The Ttl a goroutine sees in the record it shares with the handler of the
\* answer.
SharedTtl(w) ==
  LET h == handler[w.from]
  IN IF h.step = "zero" /\ Current(w.from) = w.rr /\ h.id = w.id THEN 0
     ELSE w.ttl

\* strings.NewReader(rr.String())
ReadBody(w) ==
  /\ w.step = "new"
  /\ whispers' = (whispers \ {w}) \cup
       {[w EXCEPT !.step = "body", !.body = SharedTtl(w)]}
  /\ UNCHANGED <<now, cache, handler, dues, spoiled, brought, crashes>>

\* len(rr.String()) and Do: a request whose body is not as long as it says
\* fails in the client.
ReadLengthAndDo(w) ==
  /\ w.step = "body"
  /\ IF SharedTtl(w) # w.body /\ w.ttl \in Wide
     THEN /\ whispers' = whispers \ {w}
          /\ spoiled' = spoiled \cup {<<w.to, w.rr>>}
     ELSE /\ whispers' = (whispers \ {w}) \cup {[w EXCEPT !.step = "sent"]}
          /\ UNCHANGED spoiled
  /\ UNCHANGED <<now, cache, handler, dues, brought, crashes>>

\* Mutant: a whispered record is whispered again.
AddCacheAndWhisper(w) ==
  /\ w.step = "sent"
  /\ cache' = [cache EXCEPT ![w.to][w.rr] =
                 [ttl |-> w.body, createTime |-> now]]
  /\ whispers' = (whispers \ {w}) \cup
       {[w EXCEPT !.from = w.to, !.to = m, !.at = now] : m \in Node \ {w.to}}
  /\ spoiled' = IF w.body = 0 THEN spoiled \cup {<<w.to, w.rr>>} ELSE spoiled
  /\ UNCHANGED <<now, handler, dues, brought, crashes>>

\* Mutant: what is stored is when the record is over.
AddCacheDeadline(w) ==
  /\ w.step = "sent"
  /\ cache' = [cache EXCEPT ![w.to][w.rr] =
                 [ttl |-> now + w.body * Second, createTime |-> now]]
  /\ whispers' = whispers \ {w}
  /\ UNCHANGED <<now, handler, dues, spoiled, brought, crashes>>

\* The /addcache handler of the peer.
AddCache(w) ==
  /\ w.step = "sent"
  /\ cache' = [cache EXCEPT ![w.to][w.rr] =
                 [ttl |-> w.body, createTime |-> now]]
  /\ whispers' = whispers \ {w}
  /\ spoiled' = IF w.body = 0 THEN spoiled \cup {<<w.to, w.rr>>} ELSE spoiled
  /\ UNCHANGED <<now, handler, dues, brought, crashes>>

\* The request is lost, or the peer cannot be reached; there is no retry.
LoseWhisper(w) ==
  /\ w.step = "sent"
  /\ whispers' = whispers \ {w}
  /\ spoiled' = spoiled \cup {<<w.to, w.rr>>}
  /\ UNCHANGED <<now, cache, handler, dues, brought, crashes>>

\* getCacheRecords, called by a question: entries that are over are deleted.
GetCacheRecords(n) ==
  /\ \E rr \in Record : cache[n][rr] # NoEntry /\ ~Valid(cache[n][rr])
  /\ cache' = [cache EXCEPT ![n] = [rr \in Record |->
                 IF Valid(cache[n][rr]) THEN cache[n][rr] ELSE NoEntry]]
  /\ UNCHANGED <<now, handler, whispers, dues, spoiled, brought, crashes>>

\* The process ends, for instance because the runtime finds two handlers in the
\* cache's maps, which no lock protects, and is started again.  What it had not
\* yet handed to the network is not whispered.
Crash(n) ==
  /\ crashes < MaxCrashes
  /\ crashes' = crashes + 1
  /\ cache' = [cache EXCEPT ![n] = [rr \in Record |-> NoEntry]]
  /\ handler' = [handler EXCEPT ![n] = Idle]
  /\ LET unsent == {w \in whispers : w.from = n /\ w.step # "sent"}
     IN /\ whispers' = whispers \ unsent
        /\ spoiled' = spoiled \cup ({n} \X Record)
                        \cup (Node \X handler[n].todo)
                        \cup {<<w.to, w.rr>> : w \in unsent}
  /\ UNCHANGED <<now, dues, brought>>

Tick ==
  /\ now < MaxTime
  /\ \A w \in whispers : now < w.at + MaxDelay
  /\ \A n \in Node : handler[n].step # "idle" => now < handler[n].at + MaxDelay
  /\ now' = now + 1
  /\ UNCHANGED <<cache, handler, whispers, dues, spoiled, brought, crashes>>

Init ==
  /\ now = 0
  /\ cache = [n \in Node |-> [rr \in Record |-> NoEntry]]
  /\ handler = [n \in Node |-> Idle]
  /\ whispers = {}
  /\ dues = [rr \in Record |-> {}]
  /\ spoiled = {}
  /\ brought = 0 /\ crashes = 0

Next ==
  \/ \E n \in Node :
       \/ \E rrs \in (SUBSET Record) \ {{}}, ttl \in TTLs :
            Exchange(n, rrs, ttl)
       \/ WhisperAddCacheRecord(n) \/ ZeroTtl(n) \/ InsertAndRestore(n)
       \/ GetCacheRecords(n)
       \/ Crash(n)
  \/ \E w \in whispers :
       ReadBody(w) \/ ReadLengthAndDo(w) \/ AddCache(w) \/ LoseWhisper(w)
  \/ Tick

Spec == Init /\ [][Next]_vars

---------------------------------------------------------------------------
\* What getCacheRecords would return now.
Served(n) == {rr \in Record : cache[n][rr] # NoEntry /\ Valid(cache[n][rr])}

\* No server hands out a record for longer than the last outside answer that
\* held it allows, but for the time the answer took to reach it and for the
\* fraction of a second that getCacheRecords rounds away: a whisper starts the
\* record's life anew at the peer, so it must never be passed on
\* (dns_store.go:141 and 209-213, httpapi.go:139).
BoundedStaleness ==
  \A n \in Node : \A rr \in Served(n) : \E due \in dues[rr] :
    now + Remaining(cache[n][rr]) * Second <= due + MaxDelay + Second - 1

\* The copy of a record that n is still to get.
OnItsWay(n, rr) ==
  \/ rr \in handler[n].todo
  \/ \E m \in Node \ {n} : rr \in handler[m].todo
  \/ \E w \in whispers : w.to = n /\ w.rr = rr

\* While no answer that held a record is over, every server of the cluster
\* serves the record, or is about to, or has lost its copy: to a failed
\* request, to a crash, or to the moment in which addCacheRecord shows the
\* whisper goroutines a Ttl of 0 (dns_store.go:88-110 and 138-146).  Entries
\* are not lost to lookups, to other answers or to whispers out of order.
EveryNodeLearns ==
  \A n \in Node, rr \in Record :
    dues[rr] # {} /\ (\A due \in dues[rr] : now < due) =>
      rr \in Served(n) \/ OnItsWay(n, rr) \/ <<n, rr>> \in spoiled
=============================================================================
