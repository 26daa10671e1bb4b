------------------------------ MODULE CacheMaps ------------------------------
(***************************************************************************)
(* The maps behind a cache of DNS records, used by many query handlers at  *)
(* once: getCacheRecords and addCacheRecord of the hash server             *)
(* (dns/hash_server/hash_server.go), of a dns_server with a plain store    *)
(* (dns/dns_store.go) and of one with a paged store                        *)
(* (dns/paged_dns_store.go).  The three differ in what they lock:          *)
(*                                                                         *)
(*          finding the name's map   looking up          inserting         *)
(*   hash   inside the ARC cache     store.mu, shared    store.mu          *)
(*   flat   lookups: s.mu, shared    s.mu, shared        no lock           *)
(*   paged  lookups: s.mu            s.mu                no lock           *)
(*                                                                         *)
(* An access of a Go map that meets a write of it may end the process.     *)
(*                                                                         *)
(* Abstraction: one name; other names matter to the hash server's cache    *)
(* only in that they may evict this one.  A record of the map is fresh     *)
(* until its Ttl is over, then old, then gone when a lookup has met it.    *)
(* External: the ARC cache of hashicorp/golang-lru, which locks itself.    *)
(***************************************************************************)
EXTENDS Integers, Sequences, FiniteSets, Functions

CONSTANTS
  Kinds,    \* the caches considered: "hash", "flat", "paged"
  Handler,  \* the goroutines that handle queries
  Map,      \* the maps of records, enough for every one in use
  Answers,  \* the answers cached: sequences of records of the name
  Types,    \* the record types
  TypeOf,   \* the type of each record
  NoMap

Record == UNION {Range(answer) : answer \in Answers}

ASSUME CacheMapsAssumption ==
  /\ Kinds \subseteq {"hash", "flat", "paged"} /\ NoMap \notin Map
  /\ TypeOf \in [Record -> Types]
  /\ \A answer \in Answers : answer \in Seq(Record) /\ answer # <<>>
  /\ Cardinality(Map) > Cardinality(Handler)

VARIABLES
  kind,       \* which of the caches this is
  current,    \* the map the cache holds for the name
  maps,       \* the state of each record in each map
  op,         \* what each handler is doing
  disturbed,  \* history: an add has met an eviction, or an add as new as it
  added       \* history: the records that have been added, unless disturbed

vars == <<kind, current, maps, op, disturbed, added>>

Idle == [step |-> "idle", todo |-> <<>>, map |-> NoMap, type |-> "none"]

AddSteps == {"get", "put", "lock", "insert"}

LookupSteps == {"find", "rlock", "read"}

Op == [step : {"idle"} \cup AddSteps \cup LookupSteps, todo : Seq(Record),
       map : Map \cup {NoMap}, type : Types \cup {"none"}]

At(steps) == {h \in Handler : op[h].step \in steps}

TypeOK ==
  /\ kind \in Kinds
  /\ current \in Map \cup {NoMap}
  /\ maps \in [Map -> [Record -> {"none", "fresh", "old", "gone"}]]
  /\ op \in [Handler -> Op]
  /\ \A h \in At({"put", "lock", "insert", "rlock", "read"}) : op[h].map # NoMap
  /\ disturbed \in BOOLEAN
  /\ added \subseteq Record

EmptyMap == [rr \in Record |-> "none"]

\* A new map: one that nobody refers to.
New == {m \in Map : m # current /\ \A h \in Handler : op[h].map # m}

\* What a map holds is garbage once neither the cache nor a handler refers to
\* it.
Collect(cur, ops, ms) ==
  [m \in Map |-> IF m = cur \/ \E h \in Handler : ops[h].map = m
                 THEN ms[m] ELSE EmptyMap]

---------------------------------------------------------------------------
\* addCacheRecords: the loop over the records of an answer begins.
StartAdd(h, answer) ==
  /\ op[h].step = "idle"
  /\ op' = [op EXCEPT ![h] = [Idle EXCEPT !.step = "get", !.todo = answer]]
  /\ UNCHANGED <<kind, current, maps, disturbed, added>>

\* Mutant: the map is made anew though the name has one.
FindMapAnew(h) ==
  /\ op[h].step = "get"
  /\ \E m \in New :
       op' = [op EXCEPT ![h] = [@ EXCEPT !.step = "put", !.map = m,
                                  !.type = TypeOf[Head(op[h].todo)]]]
  /\ UNCHANGED <<kind, current, maps, disturbed, added>>

\* The name's map: the one of the cache, or else a new one, which a dns_server
\* puts into s.cache; the hash server puts the map back in either case.
FindMap(h) ==
  /\ op[h].step = "get"
  /\ LET missing == current = NoMap
     IN /\ \E m \in IF missing THEN New ELSE {current} :
             op' = [op EXCEPT ![h] =
                      [@ EXCEPT !.step = IF missing \/ kind = "hash" THEN "put"
                                         ELSE "insert",
                                !.map = m,
                                !.type = TypeOf[Head(op[h].todo)]]]
        /\ disturbed' = (disturbed \/
             (missing /\ \E g \in At(AddSteps) \ {h} : op[g].map # NoMap))
        /\ added' = IF disturbed' THEN {} ELSE added
  /\ UNCHANGED <<kind, current, maps>>

\* store.cache.Add(domainName, cacheMap); s.cache[domainName] = cacheMap
PutMap(h) ==
  /\ op[h].step = "put"
  /\ op' = [op EXCEPT ![h].step = IF kind = "hash" THEN "lock" ELSE "insert"]
  /\ current' = op[h].map
  /\ maps' = Collect(current', op', maps)
  /\ UNCHANGED <<kind, disturbed, added>>

\* Mutant: the read lock is taken for the update.
RLockForUpdate(h) ==
  /\ op[h].step = "lock"
  /\ At({"insert"}) = {}
  /\ op' = [op EXCEPT ![h].step = "insert"]
  /\ UNCHANGED <<kind, current, maps, disturbed, added>>

\* store.mu.Lock() of the hash server.
Lock(h) ==
  /\ op[h].step = "lock"
  /\ At({"insert", "read"}) = {}
  /\ op' = [op EXCEPT ![h].step = "insert"]
  /\ UNCHANGED <<kind, current, maps, disturbed, added>>

\* The rest of the loop after a record.
Continue(o) ==
  IF Len(o.todo) = 1 THEN Idle
  ELSE [Idle EXCEPT !.step = "get", !.todo = Tail(o.todo)]

\* The entry is made, the lock released; the loop goes on.
Insert(h) ==
  /\ op[h].step = "insert"
  /\ op' = [op EXCEPT ![h] = Continue(@)]
  /\ maps' = Collect(current, op',
               [maps EXCEPT ![op[h].map][Head(op[h].todo)] = "fresh"])
  /\ added' = IF disturbed THEN {} ELSE added \cup {Head(op[h].todo)}
  /\ UNCHANGED <<kind, current, disturbed>>

---------------------------------------------------------------------------
\* A question: rlockStore() of a dns_server, which the paged store makes a
\* write lock.
Ask(h, type) ==
  /\ op[h].step = "idle"
  /\ kind = "paged" => At({"find", "read"}) = {}
  /\ op' = [op EXCEPT ![h] = [Idle EXCEPT !.step = "find", !.type = type]]
  /\ UNCHANGED <<kind, current, maps, disturbed, added>>

\* Mutant: that the name may be missing is not checked.
FindUnchecked(h) ==
  /\ op[h].step = "find"
  /\ op' = [op EXCEPT ![h] =
               [@ EXCEPT !.step = IF kind = "hash" THEN "rlock" ELSE "read",
                         !.map = current]]
  /\ UNCHANGED <<kind, current, maps, disturbed, added>>

\* getCacheRecords: the name's map.
Find(h) ==
  /\ op[h].step = "find"
  /\ op' = [op EXCEPT ![h] =
               IF current = NoMap THEN Idle
               ELSE [@ EXCEPT !.step = IF kind = "hash" THEN "rlock" ELSE "read",
                              !.map = current]]
  /\ UNCHANGED <<kind, current, maps, disturbed, added>>

\* store.mu.RLock() of the hash server.
RLock(h) ==
  /\ op[h].step = "rlock"
  /\ At({"insert"}) = {}
  /\ op' = [op EXCEPT ![h].step = "read"]
  /\ UNCHANGED <<kind, current, maps, disturbed, added>>

\* The records of the lookup's type that are over.
Over(h) ==
  {rr \in Record : TypeOf[rr] = op[h].type /\ maps[op[h].map][rr] = "old"}

\* The iteration deletes the records that are over.
Delete(h) ==
  /\ op[h].step = "read"
  /\ Over(h) # {}
  /\ maps' = [maps EXCEPT ![op[h].map] =
               [rr \in Record |-> IF rr \in Over(h) THEN "gone" ELSE @[rr]]]
  /\ UNCHANGED <<kind, current, op, disturbed, added>>

\* The iteration ends and the lock is released.
Answer(h) ==
  /\ op[h].step = "read"
  /\ Over(h) = {}
  /\ op' = [op EXCEPT ![h] = Idle]
  /\ maps' = Collect(current, op', maps)
  /\ UNCHANGED <<kind, current, disturbed, added>>

---------------------------------------------------------------------------
\* A record's Ttl is over.
Expire(m, rr) ==
  /\ maps[m][rr] = "fresh"
  /\ maps' = [maps EXCEPT ![m][rr] = "old"]
  /\ UNCHANGED <<kind, current, op, disturbed, added>>

\* Other names push this one out of the ARC cache.
Evict ==
  /\ kind = "hash"
  /\ current # NoMap
  /\ current' = NoMap
  /\ maps' = Collect(NoMap, op, maps)
  /\ disturbed' = (At(AddSteps) # {})
  /\ added' = {}
  /\ UNCHANGED <<kind, op>>

\* No record of the type has ever been put into the map: a map for the type is
\* still to be made.
TypeNew(h) ==
  \A rr \in Record : TypeOf[rr] = op[h].type => maps[op[h].map][rr] = "none"

\* What g is about to do changes a map that h is using: the map of the name if
\* the type is new, else the map of the type.
Clash(g, h) ==
  /\ g # h
  /\ op[g].map = op[h].map
  /\ op[g].step \in {"insert", "read"} /\ op[h].step \in {"insert", "read"}
  /\ op[g].type = op[h].type \/ TypeNew(g)
  /\ op[g].step = "insert" \/ Over(g) # {}

\* The same for s.cache, which no lock protects against adds.
ClashForName(g, h) ==
  /\ g # h
  /\ kind # "hash"
  /\ op[g].step = "put" /\ op[h].step \in {"get", "put", "find"}

\* The runtime notices, and the process starts again with an empty cache.
Abort ==
  /\ \E g, h \in Handler : Clash(g, h) \/ ClashForName(g, h)
  /\ current' = NoMap
  /\ maps' = [m \in Map |-> EmptyMap]
  /\ op' = [h \in Handler |-> Idle]
  /\ disturbed' = FALSE
  /\ added' = {}
  /\ UNCHANGED kind

Init ==
  /\ kind \in Kinds
  /\ current = NoMap
  /\ maps = [m \in Map |-> EmptyMap]
  /\ op = [h \in Handler |-> Idle]
  /\ disturbed = FALSE
  /\ added = {}

Step(h) ==
  \/ FindMap(h) \/ PutMap(h) \/ Lock(h) \/ Insert(h)
  \/ Find(h) \/ RLock(h) \/ Delete(h) \/ Answer(h)

Next ==
  \/ \E h \in Handler :
       \/ \E answer \in Answers : StartAdd(h, answer)
       \/ \E type \in Types : Ask(h, type)
       \/ Step(h)
  \/ \E m \in Map, rr \in Record : Expire(m, rr)
  \/ Evict
  \/ Abort

Spec == Init /\ [][Next]_vars

---------------------------------------------------------------------------
\* The maps of the hash server are changed under use only where a lookup
\* deletes a record under the read lock (hash_server.go:524-539), which the
\* comments of the locks do not mention; in the paged
\* store, whose read lock is a write lock, only where an add is part of it
\* (paged_dns_store.go:210-215 and 258-276).
ClashesExplained ==
  \A g, h \in Handler : Clash(g, h) =>
    /\ kind = "hash" => op[g].step = "read" /\ op[h].step = "read"
    /\ kind = "paged" => "insert" \in {op[g].step, op[h].step}

\* When no add is under way, the cache holds exactly the records added since
\* the name came into it, those that are over included, unless an eviction came
\* between the records of an answer or two adds found the name missing at once:
\* finding the map, putting it into the cache and filling it are not one step
\* (hash_server.go:578-605, dns_store.go:124-143).  Adds that meet in a map that
\* is already there lose nothing.
UndisturbedAddsKept ==
  At(AddSteps) = {} /\ ~disturbed =>
    added = IF current = NoMap THEN {}
            ELSE {rr \in Record : maps[current][rr] # "none"}
=============================================================================
