--------------------------- MODULE CacheMapsProofs ---------------------------
(***************************************************************************)
(* The safety of CacheMaps for any number of handlers, maps, answers and   *)
(* records: which accesses can meet (LockInv), and that the map in the     *)
(* cache is the one everybody fills (AddInv).                              *)
(***************************************************************************)
EXTENDS CacheMaps, TLAPS

\* A handler has a map from when it has found one until it is done with it, and
\* one that adds has records left.
OpOK(o) ==
  /\ o \in Op
  /\ o.step \in {"idle", "get", "find"} => o.map = NoMap
  /\ o.step \in {"put", "lock", "insert", "rlock", "read"} => o.map # NoMap
  /\ o.step \in AddSteps => o.todo # <<>>

OpsOK == op \in [Handler -> Op] /\ \A h \in Handler : OpOK(op[h])

MapsOK == maps \in [Map -> [Record -> {"none", "fresh", "old", "gone"}]]

TypeInv ==
  /\ OpsOK /\ MapsOK
  /\ kind \in Kinds /\ current \in Map \cup {NoMap}
  /\ disturbed \in BOOLEAN /\ added \subseteq Record

Places == {"idle"} \cup AddSteps \cup LookupSteps

\* The fields of what a handler is doing.
LEMMA OpFields ==
  ASSUME NEW o \in Op
  PROVE  /\ o = [step |-> o.step, todo |-> o.todo, map |-> o.map,
                 type |-> o.type]
         /\ o.step \in Places
         /\ o.todo \in Seq(Record)
         /\ o.map \in Map \cup {NoMap}
         /\ o.type \in Types \cup {"none"}
BY DEF Op, Places

\* A handler's place changes.
LEMMA OpMoved ==
  ASSUME NEW o \in Op, NEW s \in Places
  PROVE  LET new == [o EXCEPT !.step = s]
         IN new \in Op /\ new.step = s /\ new.map = o.map /\ new.todo = o.todo
BY OpFields DEF Op, Places

\* A handler that does nothing has no map.
LEMMA IdleFields == Idle \in Op /\ Idle.step = "idle" /\ Idle.map = NoMap
<1>1. <<>> \in Seq(Record)
  OBVIOUS
<1> QED
  BY <1>1 DEF Idle, Op

\* A handler begins to add an answer.
LEMMA AddFields ==
  ASSUME NEW q \in Seq(Record)
  PROVE  LET new == [Idle EXCEPT !.step = "get", !.todo = q]
         IN new \in Op /\ new.step = "get" /\ new.map = NoMap /\ new.todo = q
<1>1. ASSUME NEW o \in Op
      PROVE  LET new == [o EXCEPT !.step = "get", !.todo = q]
             IN /\ new \in Op /\ new.step = "get"
                /\ new.map = o.map /\ new.todo = q
  BY OpFields DEF Op, AddSteps
<1> QED
  BY <1>1, IdleFields

\* A handler begins a lookup.
LEMMA AskFields ==
  ASSUME NEW t \in Types
  PROVE  LET new == [Idle EXCEPT !.step = "find", !.type = t]
         IN new \in Op /\ new.step = "find" /\ new.map = NoMap
<1>1. ASSUME NEW o \in Op
      PROVE  LET new == [o EXCEPT !.step = "find", !.type = t]
             IN new \in Op /\ new.step = "find" /\ new.map = o.map
  BY OpFields DEF Op, LookupSteps
<1> QED
  BY <1>1, IdleFields

\* What is left of a sequence of two or more is not empty.
LEMMA TailOfLong ==
  ASSUME NEW S, NEW s \in Seq(S), s # <<>>, Len(s) # 1
  PROVE  Tail(s) \in Seq(S) /\ Tail(s) # <<>>
<1>1. Tail(s) \in Seq(S) /\ Len(Tail(s)) # 0
  OBVIOUS
<1>2. Len(<<>>) = 0
  OBVIOUS
<1> QED
  BY <1>1, <1>2, Zenon

\* The loop over an answer goes on, or ends.
LEMMA ContinueFields ==
  ASSUME NEW o \in Op, o.todo # <<>>
  PROVE  /\ Continue(o) \in Op
         /\ Continue(o).step \in {"idle", "get"}
         /\ Continue(o).map = NoMap
         /\ Continue(o).step = "get" => Continue(o).todo # <<>>
<1>1. o.todo \in Seq(Record)
  BY OpFields
<1>2. CASE Len(o.todo) = 1
  BY <1>2, IdleFields DEF Continue
<1>3. CASE Len(o.todo) # 1
  <2>1. Tail(o.todo) \in Seq(Record) /\ Tail(o.todo) # <<>>
    BY <1>1, <1>3, TailOfLong
  <2>2. Continue(o) = [Idle EXCEPT !.step = "get", !.todo = Tail(o.todo)]
    BY <1>3 DEF Continue
  <2> QED
    BY <2>1, <2>2, AddFields
<1> QED
  BY <1>2, <1>3

---------------------------------------------------------------------------
\* One handler moves.
Moves(h) == OpsOK' /\ \A g \in Handler \ {h} : op'[g] = op[g]

\* What it moves to decides whether all are well.
LEMMA OneMoves ==
  ASSUME OpsOK, NEW h \in Handler, NEW new, OpOK(new),
         op' = [op EXCEPT ![h] = new]
  PROVE  Moves(h) /\ op'[h] = new
BY DEF OpsOK, OpOK, Moves

\* Dropping maps nobody refers to leaves maps (Go's garbage collector).
LEMMA CollectMaps ==
  ASSUME NEW cur, NEW ops, NEW ms \in [Map -> [Record ->
                                    {"none", "fresh", "old", "gone"}]]
  PROVE  Collect(cur, ops, ms) \in [Map -> [Record ->
                                    {"none", "fresh", "old", "gone"}]]
BY DEF Collect, EmptyMap

\* Where the steps of an add take their handler.
LEMMA AddMoves ==
  ASSUME TypeInv, NEW h \in Handler
  PROVE  /\ \A answer \in Answers : StartAdd(h, answer) =>
              Moves(h) /\ op'[h].step = "get" /\ op'[h].map = NoMap
         /\ FindMap(h) =>
              /\ Moves(h)
              /\ op'[h].map \in IF current = NoMap THEN New ELSE {current}
              /\ op'[h].step = IF current = NoMap \/ kind = "hash" THEN "put"
                               ELSE "insert"
         /\ PutMap(h) =>
              /\ Moves(h) /\ op'[h].map = op[h].map
              /\ op'[h].step = IF kind = "hash" THEN "lock" ELSE "insert"
         /\ Lock(h) =>
              Moves(h) /\ op'[h].map = op[h].map /\ op'[h].step = "insert"
         /\ Insert(h) =>
              Moves(h) /\ op'[h].step \in {"idle", "get"} /\ op'[h].map = NoMap
<1> USE DEF OpOK, AddSteps, Places
<1>0. /\ OpOK(op[h]) /\ op[h] \in Op /\ OpsOK
      /\ current \in Map \cup {NoMap}
  BY DEF TypeInv, OpsOK
<1>1. ASSUME NEW answer \in Answers, StartAdd(h, answer)
      PROVE  Moves(h) /\ op'[h].step = "get" /\ op'[h].map = NoMap
  <2> DEFINE new == [Idle EXCEPT !.step = "get", !.todo = answer]
  <2>1. answer \in Seq(Record) /\ answer # <<>>
    BY CacheMapsAssumption
  <2>2. OpOK(new) /\ new.step = "get" /\ new.map = NoMap
    BY <2>1, AddFields
  <2>3. op' = [op EXCEPT ![h] = new]
    BY <1>1 DEF StartAdd
  <2> HIDE DEF new
  <2> QED
    BY <1>0, <2>2, <2>3, OneMoves
<1>2. ASSUME FindMap(h)
      PROVE  /\ Moves(h)
             /\ op'[h].map \in IF current = NoMap THEN New ELSE {current}
             /\ op'[h].step = IF current = NoMap \/ kind = "hash" THEN "put"
                              ELSE "insert"
  <2>1. op[h].todo \in Seq(Record) /\ op[h].todo # <<>>
    BY <1>0, <1>2, OpFields DEF FindMap
  <2>2. PICK s \in Places :
          s = IF current = NoMap \/ kind = "hash" THEN "put" ELSE "insert"
    OBVIOUS
  <2>3. PICK t \in Types \cup {"none"} : t = TypeOf[Head(op[h].todo)]
    BY <2>1, CacheMapsAssumption
  <2>4. PICK m \in IF current = NoMap THEN New ELSE {current} :
          op' = [op EXCEPT ![h] =
                   [op[h] EXCEPT !.step = s, !.map = m, !.type = t]]
    BY <1>2, <1>0, <2>2, <2>3 DEF FindMap, TypeInv, OpsOK
  <2>5. m \in Map /\ m # NoMap
    BY <1>0, CacheMapsAssumption DEF New
  <2> DEFINE new == [op[h] EXCEPT !.step = s, !.map = m, !.type = t]
  <2>6. new \in Op /\ new.step = s /\ new.map = m /\ new.todo = op[h].todo
    BY <1>0, <2>5, OpFields DEF Op
  <2>7. op' = [op EXCEPT ![h] = new]
    BY <2>4
  <2> HIDE DEF new
  <2>8. OpOK(new)
    BY <2>1, <2>2, <2>5, <2>6
  <2>9. Moves(h) /\ op'[h] = new
    BY <1>0, <2>7, <2>8, OneMoves
  <2> QED
    BY <2>2, <2>4, <2>6, <2>9
<1>3. ASSUME PutMap(h)
      PROVE  /\ Moves(h) /\ op'[h].map = op[h].map
             /\ op'[h].step = IF kind = "hash" THEN "lock" ELSE "insert"
  <2> DEFINE step == IF kind = "hash" THEN "lock" ELSE "insert"
             new == [op[h] EXCEPT !.step = step]
  <2>1. new \in Op /\ new.step = step /\ new.map = op[h].map
        /\ new.todo = op[h].todo
    BY <1>0, OpMoved
  <2>2. op' = [op EXCEPT ![h] = new]
    BY <1>0, <1>3 DEF PutMap, OpsOK
  <2>3. OpOK(new)
    BY <1>0, <1>3, <2>1 DEF PutMap
  <2> HIDE DEF new
  <2>4. Moves(h) /\ op'[h] = new
    BY <1>0, <2>2, <2>3, OneMoves
  <2> QED
    BY <2>1, <2>4
<1>4. ASSUME Lock(h)
      PROVE  Moves(h) /\ op'[h].map = op[h].map /\ op'[h].step = "insert"
  <2> DEFINE new == [op[h] EXCEPT !.step = "insert"]
  <2>1. new \in Op /\ new.step = "insert" /\ new.map = op[h].map
        /\ new.todo = op[h].todo
    BY <1>0, OpMoved
  <2>2. op' = [op EXCEPT ![h] = new]
    BY <1>0, <1>4 DEF Lock, OpsOK
  <2>3. OpOK(new)
    BY <1>0, <1>4, <2>1 DEF Lock
  <2> HIDE DEF new
  <2> QED
    BY <1>0, <2>1, <2>2, <2>3, OneMoves
<1>5. ASSUME Insert(h)
      PROVE  Moves(h) /\ op'[h].step \in {"idle", "get"} /\ op'[h].map = NoMap
  <2> DEFINE new == Continue(op[h])
  <2>1. op[h].todo # <<>>
    BY <1>0, <1>5 DEF Insert
  <2>2. /\ new \in Op /\ new.step \in {"idle", "get"} /\ new.map = NoMap
        /\ new.step = "get" => new.todo # <<>>
    BY <1>0, <2>1, ContinueFields
  <2>3. op' = [op EXCEPT ![h] = new]
    BY <1>0, <1>5 DEF Insert, OpsOK
  <2> HIDE DEF new
  <2>4. OpOK(new)
    BY <2>2
  <2> QED
    BY <1>0, <2>2, <2>3, <2>4, OneMoves
<1> QED
  BY <1>1, <1>2, <1>3, <1>4, <1>5

\* Where the steps of a lookup take their handler.
LEMMA LookupMoves ==
  ASSUME TypeInv, NEW h \in Handler
  PROVE  /\ \A type \in Types : Ask(h, type) =>
              Moves(h) /\ op'[h].step = "find" /\ op'[h].map = NoMap
         /\ Find(h) =>
              /\ Moves(h)
              /\ IF current = NoMap
                 THEN op'[h].step = "idle" /\ op'[h].map = NoMap
                 ELSE /\ op'[h].map = current
                      /\ op'[h].step = IF kind = "hash" THEN "rlock" ELSE "read"
         /\ RLock(h) =>
              Moves(h) /\ op'[h].map = op[h].map /\ op'[h].step = "read"
         /\ Answer(h) => Moves(h) /\ op'[h].step = "idle" /\ op'[h].map = NoMap
<1> USE DEF OpOK, LookupSteps, Places
<1>0. /\ OpOK(op[h]) /\ op[h] \in Op /\ OpsOK
      /\ current \in Map \cup {NoMap}
      /\ op \in [Handler -> Op]
  BY DEF TypeInv, OpsOK
<1>1. ASSUME NEW type \in Types, Ask(h, type)
      PROVE  Moves(h) /\ op'[h].step = "find" /\ op'[h].map = NoMap
  <2> DEFINE new == [Idle EXCEPT !.step = "find", !.type = type]
  <2>1. new \in Op /\ new.step = "find" /\ new.map = NoMap
    BY AskFields
  <2>2. op' = [op EXCEPT ![h] = new]
    BY <1>1 DEF Ask
  <2>3. OpOK(new)
    BY <2>1 DEF AddSteps
  <2> HIDE DEF new
  <2> QED
    BY <1>0, <2>1, <2>2, <2>3, OneMoves
<1>2. ASSUME Find(h)
      PROVE  /\ Moves(h)
             /\ IF current = NoMap
                THEN op'[h].step = "idle" /\ op'[h].map = NoMap
                ELSE /\ op'[h].map = current
                     /\ op'[h].step = IF kind = "hash" THEN "rlock" ELSE "read"
  <2>1. CASE current = NoMap
    <3>1. op' = [op EXCEPT ![h] = Idle]
      BY <1>0, <1>2, <2>1 DEF Find
    <3>2. OpOK(Idle)
      BY IdleFields DEF AddSteps
    <3> QED
      BY <1>0, <2>1, <3>1, <3>2, IdleFields, OneMoves
  <2>2. CASE current # NoMap
    <3>1. PICK s \in Places : s = IF kind = "hash" THEN "rlock" ELSE "read"
      OBVIOUS
    <3> DEFINE new == [op[h] EXCEPT !.step = s, !.map = current]
    <3>2. op' = [op EXCEPT ![h] = new]
      BY <1>0, <1>2, <2>2, <3>1 DEF Find
    <3>3. new \in Op /\ new.step = s /\ new.map = current
      BY <1>0, OpFields DEF Op
    <3>4. OpOK(new)
      BY <2>2, <3>1, <3>3 DEF AddSteps
    <3> HIDE DEF new, OpOK
    <3> QED
      BY <1>0, <2>2, <3>1, <3>2, <3>3, <3>4, OneMoves
  <2> QED
    BY <2>1, <2>2
<1>3. ASSUME RLock(h)
      PROVE  Moves(h) /\ op'[h].map = op[h].map /\ op'[h].step = "read"
  <2> DEFINE new == [op[h] EXCEPT !.step = "read"]
  <2>1. new \in Op /\ new.step = "read" /\ new.map = op[h].map
    BY <1>0, OpMoved
  <2>2. op' = [op EXCEPT ![h] = new]
    BY <1>0, <1>3 DEF RLock
  <2>3. OpOK(new)
    BY <1>0, <1>3, <2>1 DEF RLock, AddSteps
  <2> HIDE DEF new
  <2> QED
    BY <1>0, <2>1, <2>2, <2>3, OneMoves
<1>4. ASSUME Answer(h)
      PROVE  Moves(h) /\ op'[h].step = "idle" /\ op'[h].map = NoMap
  <2>1. op' = [op EXCEPT ![h] = Idle]
    BY <1>4 DEF Answer
  <2>2. OpOK(Idle)
    BY IdleFields DEF AddSteps
  <2> QED
    BY <1>0, <2>1, <2>2, IdleFields, OneMoves
<1> QED
  BY <1>1, <1>2, <1>3, <1>4

\* The first record of an answer that is being added.
LEMMA HeadRecord ==
  ASSUME TypeInv, NEW h \in Handler, op[h].step \in AddSteps
  PROVE  op[h].todo # <<>> /\ Head(op[h].todo) \in Record
<1>1. OpOK(op[h])
  BY DEF TypeInv, OpsOK
<1>2. op[h].todo \in Seq(Record) /\ op[h].todo # <<>>
  BY <1>1, OpFields DEF OpOK
<1> QED
  BY <1>2

\* Handlers, maps and the history keep their types
\* (dns/hash_server/hash_server.go, dns/dns_store.go, dns/paged_dns_store.go).
LEMMA TypeStep == ASSUME TypeInv, [Next]_vars PROVE TypeInv'
<1>0. /\ OpsOK /\ MapsOK
      /\ kind \in Kinds /\ current \in Map \cup {NoMap}
      /\ disturbed \in BOOLEAN /\ added \subseteq Record
  BY DEF TypeInv
<1>1. ASSUME NEW h \in Handler, NEW answer \in Answers, StartAdd(h, answer)
      PROVE  TypeInv'
  <2>1. OpsOK'
    BY <1>1, AddMoves DEF Moves
  <2> QED
    BY <1>0, <1>1, <2>1 DEF StartAdd, TypeInv, MapsOK
<1>2. ASSUME NEW h \in Handler, FindMap(h) PROVE TypeInv'
  <2>1. OpsOK'
    BY <1>2, AddMoves DEF Moves
  <2>2. disturbed' \in BOOLEAN /\ added' \subseteq Record
    BY <1>0, <1>2 DEF FindMap
  <2>3. UNCHANGED <<kind, current, maps>>
    BY <1>2 DEF FindMap
  <2> QED
    BY <1>0, <2>1, <2>2, <2>3 DEF TypeInv, MapsOK
<1>3. ASSUME NEW h \in Handler, PutMap(h) PROVE TypeInv'
  <2>1. OpsOK'
    BY <1>3, AddMoves DEF Moves
  <2>2. current' \in Map \cup {NoMap}
    BY <1>0, <1>3, OpFields DEF PutMap, OpsOK
  <2>3. MapsOK'
    BY <1>0, <1>3, CollectMaps DEF PutMap, MapsOK
  <2> QED
    BY <1>0, <1>3, <2>1, <2>2, <2>3 DEF PutMap, TypeInv
<1>4. ASSUME NEW h \in Handler, Lock(h) PROVE TypeInv'
  <2>1. OpsOK'
    BY <1>4, AddMoves DEF Moves
  <2> QED
    BY <1>0, <1>4, <2>1 DEF Lock, TypeInv, MapsOK
<1>5. ASSUME NEW h \in Handler, Insert(h) PROVE TypeInv'
  <2>1. OpsOK'
    BY <1>5, AddMoves DEF Moves
  <2>2. Head(op[h].todo) \in Record
    BY <1>5, HeadRecord DEF Insert, AddSteps
  <2> DEFINE ms == [maps EXCEPT ![op[h].map][Head(op[h].todo)] = "fresh"]
  <2>3. ms \in [Map -> [Record -> {"none", "fresh", "old", "gone"}]]
    BY <1>0, <2>2 DEF MapsOK
  <2>4. maps' = Collect(current, op', ms)
    BY <1>5 DEF Insert
  <2>5. MapsOK'
    <3> HIDE DEF ms
    <3> QED
      BY <2>3, <2>4, CollectMaps DEF MapsOK
  <2>6. added' \subseteq Record
    BY <1>0, <1>5, <2>2 DEF Insert
  <2> QED
    BY <1>0, <1>5, <2>1, <2>5, <2>6 DEF Insert, TypeInv
<1>6. ASSUME NEW h \in Handler, NEW type \in Types, Ask(h, type) PROVE TypeInv'
  <2>1. OpsOK'
    BY <1>6, LookupMoves DEF Moves
  <2> QED
    BY <1>0, <1>6, <2>1 DEF Ask, TypeInv, MapsOK
<1>7. ASSUME NEW h \in Handler, Find(h) \/ RLock(h) PROVE TypeInv'
  <2>1. OpsOK'
    BY <1>7, LookupMoves DEF Moves
  <2> QED
    BY <1>0, <1>7, <2>1 DEF Find, RLock, TypeInv, MapsOK
<1>8. ASSUME NEW h \in Handler, Delete(h) PROVE TypeInv'
  <2>1. MapsOK'
    BY <1>0, <1>8 DEF Delete, MapsOK
  <2> QED
    BY <1>0, <1>8, <2>1 DEF Delete, TypeInv, OpsOK
<1>9. ASSUME NEW h \in Handler, Answer(h) PROVE TypeInv'
  <2>1. OpsOK'
    BY <1>9, LookupMoves DEF Moves
  <2>2. MapsOK'
    BY <1>0, <1>9, CollectMaps DEF Answer, MapsOK
  <2> QED
    BY <1>0, <1>9, <2>1, <2>2 DEF Answer, TypeInv
<1>10. ASSUME NEW m \in Map, NEW rr \in Record, Expire(m, rr) PROVE TypeInv'
  <2>1. MapsOK'
    BY <1>0, <1>10 DEF Expire, MapsOK
  <2> QED
    BY <1>0, <1>10, <2>1 DEF Expire, TypeInv, OpsOK
<1>11. CASE Evict
  <2>1. MapsOK'
    BY <1>0, <1>11, CollectMaps DEF Evict, MapsOK
  <2> QED
    BY <1>0, <1>11, <2>1 DEF Evict, TypeInv, OpsOK
<1>12. CASE Abort
  <2>1. MapsOK' /\ OpsOK'
    BY <1>12, IdleFields DEF Abort, MapsOK, EmptyMap, OpsOK, OpOK, AddSteps
  <2> QED
    BY <1>0, <1>12, <2>1 DEF Abort, TypeInv
<1>13. CASE UNCHANGED vars
  BY <1>0, <1>13 DEF vars, TypeInv, OpsOK, MapsOK
<1> QED
  BY <1>1, <1>2, <1>3, <1>4, <1>5, <1>6, <1>7, <1>8, <1>9, <1>10, <1>11,
     <1>12, <1>13 DEF Next, Step

---------------------------------------------------------------------------
\* Who may be where at the same time: the hash server inserts under its lock;
\* the paged store looks up one at a time.
LockInv ==
  /\ kind # "hash" => \A h \in Handler : op[h].step \notin {"lock", "rlock"}
  /\ \A g, h \in Handler : g # h =>
       /\ kind = "hash" /\ op[g].step = "insert" =>
            op[h].step \notin {"insert", "read"}
       /\ kind = "paged" /\ op[g].step \in {"find", "read"} =>
            op[h].step \notin {"find", "read"}

\* The locks keep handlers apart (hash_server.go:524-531 and 590-605,
\* paged_dns_store.go:71-77).
LEMMA LockStep == ASSUME TypeInv, LockInv, [Next]_vars PROVE LockInv'
<1>1. ASSUME NEW h \in Handler, Moves(h), kind' = kind,
             op'[h].step \in {"idle", "get", "put"}
      PROVE  LockInv'
  BY <1>1 DEF LockInv, Moves
<1>2. ASSUME NEW h \in Handler, NEW answer \in Answers, StartAdd(h, answer)
      PROVE  LockInv'
  BY <1>1, <1>2, AddMoves DEF StartAdd
<1>3. ASSUME NEW h \in Handler, FindMap(h) PROVE LockInv'
  <2>1. Moves(h) /\ kind' = kind
    BY <1>3, AddMoves DEF FindMap
  <2>2. op'[h].step = "put" \/ (op'[h].step = "insert" /\ kind # "hash")
    BY <1>3, AddMoves
  <2> QED
    BY <2>1, <2>2 DEF LockInv, Moves
<1>4. ASSUME NEW h \in Handler, PutMap(h) PROVE LockInv'
  <2>1. Moves(h) /\ kind' = kind
    BY <1>4, AddMoves DEF PutMap
  <2>2. op'[h].step = IF kind = "hash" THEN "lock" ELSE "insert"
    BY <1>4, AddMoves
  <2> QED
    BY <2>1, <2>2 DEF LockInv, Moves
<1>5. ASSUME NEW h \in Handler, Lock(h) PROVE LockInv'
  <2>1. Moves(h) /\ kind' = kind /\ op'[h].step = "insert"
    BY <1>5, AddMoves DEF Lock
  <2>2. /\ op[h].step = "lock"
        /\ \A g \in Handler : op[g].step \notin {"insert", "read"}
    BY <1>5 DEF Lock, At
  <2> QED
    BY <2>1, <2>2 DEF LockInv, Moves
<1>6. ASSUME NEW h \in Handler, Insert(h) PROVE LockInv'
  BY <1>1, <1>6, AddMoves DEF Insert
<1>7. ASSUME NEW h \in Handler, NEW type \in Types, Ask(h, type) PROVE LockInv'
  <2>1. Moves(h) /\ kind' = kind /\ op'[h].step = "find"
    BY <1>7, LookupMoves DEF Ask
  <2>2. kind = "paged" =>
          \A g \in Handler : op[g].step \notin {"find", "read"}
    BY <1>7 DEF Ask, At
  <2> QED
    BY <2>1, <2>2 DEF LockInv, Moves
<1>8. ASSUME NEW h \in Handler, Find(h) PROVE LockInv'
  <2>1. Moves(h) /\ kind' = kind /\ op[h].step = "find"
    BY <1>8, LookupMoves DEF Find
  <2>2. \/ op'[h].step = "idle"
        \/ op'[h].step = IF kind = "hash" THEN "rlock" ELSE "read"
    BY <1>8, LookupMoves
  <2> QED
    BY <2>1, <2>2 DEF LockInv, Moves
<1>9. ASSUME NEW h \in Handler, RLock(h) PROVE LockInv'
  <2>1. Moves(h) /\ kind' = kind /\ op'[h].step = "read"
    BY <1>9, LookupMoves DEF RLock
  <2>2. /\ op[h].step = "rlock"
        /\ \A g \in Handler : op[g].step # "insert"
    BY <1>9 DEF RLock, At
  <2> QED
    BY <2>1, <2>2 DEF LockInv, Moves
<1>10. ASSUME NEW h \in Handler, Answer(h) PROVE LockInv'
  BY <1>1, <1>10, LookupMoves DEF Answer
<1>11. CASE UNCHANGED <<kind, op>>
  BY <1>11 DEF LockInv
<1>12. CASE Abort
  BY <1>12, IdleFields DEF Abort, LockInv
<1> QED
  BY <1>2, <1>3, <1>4, <1>5, <1>6, <1>7, <1>8, <1>9, <1>10, <1>11, <1>12
  DEF Next, Step, Delete, Expire, Evict, vars

---------------------------------------------------------------------------
\* A map nobody refers to is empty: it may serve as a new one.
GarbageInv ==
  \A m \in Map :
    m # current /\ (\A h \in Handler : op[h].map # m) => maps[m] = EmptyMap

\* Whatever references a step drops are followed by a collection.
LEMMA GarbageStep == ASSUME TypeInv, GarbageInv, [Next]_vars PROVE GarbageInv'
<1>0. \A h \in Handler : OpOK(op[h])
  BY DEF TypeInv, OpsOK
<1>1. ASSUME NEW h \in Handler, Moves(h), op[h].map \in {NoMap, op'[h].map},
             UNCHANGED <<current, maps>>
      PROVE  GarbageInv'
  BY <1>1, CacheMapsAssumption DEF GarbageInv, Moves
<1>2. ASSUME NEW ms, maps' = Collect(current', op', ms) PROVE GarbageInv'
  BY <1>2 DEF GarbageInv, Collect
<1>3. ASSUME NEW h \in Handler, NEW answer \in Answers, StartAdd(h, answer)
      PROVE  GarbageInv'
  BY <1>0, <1>1, <1>3, AddMoves DEF StartAdd, OpOK
<1>4. ASSUME NEW h \in Handler, FindMap(h) PROVE GarbageInv'
  BY <1>0, <1>1, <1>4, AddMoves DEF FindMap, OpOK
<1>5. ASSUME NEW h \in Handler, PutMap(h) PROVE GarbageInv'
  BY <1>2, <1>5 DEF PutMap
<1>6. ASSUME NEW h \in Handler, Lock(h) PROVE GarbageInv'
  BY <1>1, <1>6, AddMoves DEF Lock
<1>7. ASSUME NEW h \in Handler, Insert(h) PROVE GarbageInv'
  BY <1>2, <1>7 DEF Insert
<1>8. ASSUME NEW h \in Handler, NEW type \in Types, Ask(h, type)
      PROVE  GarbageInv'
  BY <1>0, <1>1, <1>8, LookupMoves DEF Ask, OpOK
<1>9. ASSUME NEW h \in Handler, Find(h) PROVE GarbageInv'
  <2>1. op[h].map = NoMap
    BY <1>0, <1>9 DEF Find, OpOK
  <2>2. Moves(h) /\ UNCHANGED <<current, maps>>
    BY <1>9, LookupMoves DEF Find
  <2> QED
    BY <1>1, <2>1, <2>2
<1>10. ASSUME NEW h \in Handler, RLock(h) PROVE GarbageInv'
  BY <1>1, <1>10, LookupMoves DEF RLock
<1>11. ASSUME NEW h \in Handler, Delete(h) PROVE GarbageInv'
  <2>1. /\ UNCHANGED <<current, op>>
        /\ \A m \in Map \ {op[h].map} : maps'[m] = maps[m]
    BY <1>11 DEF Delete, TypeInv, MapsOK
  <2> QED
    BY <2>1 DEF GarbageInv
<1>12. ASSUME NEW h \in Handler, Answer(h) PROVE GarbageInv'
  BY <1>2, <1>12 DEF Answer
<1>13. ASSUME NEW m \in Map, NEW rr \in Record, Expire(m, rr) PROVE GarbageInv'
  <2>1. maps[m] # EmptyMap
    BY <1>13 DEF Expire, EmptyMap
  <2>2. UNCHANGED <<current, op>> /\ \A n \in Map \ {m} : maps'[n] = maps[n]
    BY <1>13 DEF Expire, TypeInv, MapsOK
  <2> QED
    BY <2>1, <2>2 DEF GarbageInv
<1>14. CASE Evict
  <2>1. maps' = Collect(current', op', maps)
    BY <1>14 DEF Evict
  <2> QED
    BY <1>2, <2>1
<1>15. CASE Abort
  BY <1>15 DEF Abort, GarbageInv
<1>16. CASE UNCHANGED vars
  BY <1>16 DEF vars, GarbageInv
<1> QED
  BY <1>3, <1>4, <1>5, <1>6, <1>7, <1>8, <1>9, <1>10, <1>11, <1>12, <1>13,
     <1>14, <1>15, <1>16 DEF Next, Step

---------------------------------------------------------------------------
\* The handlers that have a map to add to.
Holds(h) == op[h].step \in AddSteps /\ op[h].map # NoMap

\* What has ever been put into a map.
Content(m) == {rr \in Record : maps[m][rr] # "none"}

\* Unless disturbed, all adds share the map of the cache; before it is there one
\* handler at most brings it, empty.
AddInv ==
  ~disturbed =>
    IF current = NoMap
    THEN /\ added = {}
         /\ \A g, h \in Handler : Holds(g) /\ Holds(h) => g = h
         /\ \A h \in Handler :
              Holds(h) => op[h].step = "put" /\ Content(op[h].map) = {}
    ELSE /\ added = Content(current)
         /\ \A h \in Handler : Holds(h) => op[h].map = current

\* Who holds a map, the cache's map and what is in these maps is all that
\* counts.
LEMMA AddInvKept ==
  ASSUME AddInv, UNCHANGED <<current, disturbed, added>>,
         \A h \in Handler : Holds(h)' =>
           /\ Holds(h) /\ op'[h].map = op[h].map /\ op'[h].step = op[h].step
           /\ Content(op[h].map)' = Content(op[h].map),
         current # NoMap => Content(current)' = Content(current)
  PROVE  AddInv'
<1> SUFFICES ASSUME ~disturbed
             PROVE  AddInv'
  BY DEF AddInv
<1>1. CASE current = NoMap
  <2>1. /\ added = {}
        /\ \A g, h \in Handler : Holds(g) /\ Holds(h) => g = h
        /\ \A h \in Handler :
             Holds(h) => op[h].step = "put" /\ Content(op[h].map) = {}
    BY <1>1 DEF AddInv
  <2>2. \A h \in Handler : Holds(h)' =>
          op'[h].step = "put" /\ Content(op[h].map)' = {}
    BY <2>1
  <2> QED
    BY <1>1, <2>1, <2>2 DEF AddInv
<1>2. CASE current # NoMap
  <2>1. /\ added = Content(current)
        /\ \A h \in Handler : Holds(h) => op[h].map = current
    BY <1>2 DEF AddInv
  <2> QED
    BY <1>2, <2>1 DEF AddInv
<1> QED
  BY <1>1, <1>2

\* A handler that has nothing to add moves.
LEMMA AddInvBystander ==
  ASSUME AddInv, NEW h \in Handler, Moves(h), op'[h].map = NoMap \/
         op'[h].step \notin AddSteps,
         UNCHANGED <<current, maps, disturbed, added>>
  PROVE  AddInv'
<1>1. \A g \in Handler : Holds(g)' =>
        /\ Holds(g) /\ op'[g].map = op[g].map /\ op'[g].step = op[g].step
        /\ Content(op[g].map)' = Content(op[g].map)
  <2>1. ~Holds(h)'
    BY DEF Holds
  <2>2. ASSUME NEW g \in Handler, Holds(g)'
        PROVE  op'[g] = op[g]
    BY <2>1, <2>2 DEF Moves
  <2> QED
    BY <2>2 DEF Holds, Content
<1>2. Content(current)' = Content(current)
  BY DEF Content
<1> QED
  BY <1>1, <1>2, AddInvKept

\* Every step of an add keeps to the map of the cache, and every other step
\* leaves it alone (hash_server.go:578-605, dns_store.go:124-143).
LEMMA AddStep == ASSUME TypeInv, GarbageInv, AddInv, [Next]_vars PROVE AddInv'
<1>0. /\ \A h \in Handler : OpOK(op[h])
      /\ current \in Map \cup {NoMap} /\ NoMap \notin Map
      /\ MapsOK
  BY CacheMapsAssumption DEF TypeInv, OpsOK
<1>1. ASSUME NEW h \in Handler, NEW answer \in Answers, StartAdd(h, answer)
      PROVE  AddInv'
  BY <1>1, AddMoves, AddInvBystander DEF StartAdd
<1>2. ASSUME NEW h \in Handler, FindMap(h) PROVE AddInv'
  <2>1. /\ Moves(h) /\ UNCHANGED <<current, maps>>
        /\ op'[h].map \in IF current = NoMap THEN New ELSE {current}
    BY <1>2, AddMoves DEF FindMap
  <2>2. CASE current = NoMap
    <3> SUFFICES ASSUME ~disturbed' PROVE AddInv'
      BY DEF AddInv
    <3>1. /\ ~disturbed
          /\ \A g \in Handler \ {h} : ~Holds(g)
          /\ added' = added
      BY <1>2, <2>2 DEF FindMap, At, Holds
    <3>2. added' = {}
      BY <2>2, <3>1 DEF AddInv
    <3>3. \A g \in Handler \ {h} : ~Holds(g)'
      BY <2>1, <3>1 DEF Moves, Holds
    <3>4. op'[h].step = "put"
      BY <1>2, <2>2, AddMoves
    <3>5. op'[h].map \in New
      BY <2>1, <2>2
    <3>6. maps[op'[h].map] = EmptyMap
      BY <3>5 DEF New, GarbageInv
    <3>7. Content(op[h].map)' = {}
      BY <2>1, <3>6 DEF Content, EmptyMap
    <3> QED
      BY <2>1, <2>2, <3>2, <3>3, <3>4, <3>7 DEF AddInv
  <2>3. CASE current # NoMap
    <3> SUFFICES ASSUME ~disturbed' PROVE AddInv'
      BY DEF AddInv
    <3>1. ~disturbed /\ added' = added
      BY <1>2, <2>3 DEF FindMap
    <3>2. /\ added = Content(current)
          /\ \A g \in Handler : Holds(g) => op[g].map = current
      BY <2>3, <3>1 DEF AddInv
    <3>3. op'[h].map = current
      BY <2>1, <2>3
    <3>4. \A g \in Handler : Holds(g)' => op'[g].map = current
      BY <2>1, <3>2, <3>3 DEF Moves, Holds
    <3>5. Content(current)' = Content(current)
      BY <2>1 DEF Content
    <3> QED
      BY <2>1, <2>3, <3>1, <3>2, <3>4, <3>5 DEF AddInv
  <2> QED
    BY <2>2, <2>3
<1>3. ASSUME NEW h \in Handler, PutMap(h) PROVE AddInv'
  <2>1. /\ Moves(h) /\ UNCHANGED <<disturbed, added>>
        /\ op'[h].map = op[h].map /\ current' = op[h].map
        /\ op[h].step = "put"
    BY <1>3, AddMoves DEF PutMap
  <2>2. Holds(h) /\ op[h].map \in Map
    BY <1>0, <2>1, OpFields DEF Holds, OpOK, AddSteps
  <2>3. maps' = Collect(current', op', maps)
    BY <1>3 DEF PutMap
  <2>4. maps'[current'] = maps[current']
    BY <2>1, <2>2, <2>3 DEF Collect
  <2> SUFFICES ASSUME ~disturbed PROVE AddInv'
    BY <2>1 DEF AddInv
  <2>5. /\ added = Content(op[h].map)
        /\ \A g \in Handler : Holds(g) => op[g].map = op[h].map
    BY <2>2 DEF AddInv
  <2>6. \A g \in Handler : Holds(g)' => op'[g].map = op[h].map
    BY <2>1, <2>5 DEF Moves, Holds
  <2>7. Content(current)' = Content(op[h].map)
    BY <2>1, <2>4 DEF Content
  <2> QED
    BY <1>0, <2>1, <2>2, <2>5, <2>6, <2>7 DEF AddInv
<1>4. ASSUME NEW h \in Handler, Lock(h) PROVE AddInv'
  <2>1. /\ Moves(h) /\ UNCHANGED <<current, maps, disturbed, added>>
        /\ op'[h].map = op[h].map /\ op[h].step = "lock"
    BY <1>4, AddMoves DEF Lock
  <2> SUFFICES ASSUME ~disturbed PROVE AddInv'
    BY <2>1 DEF AddInv
  <2>2. Holds(h)
    BY <1>0, <2>1 DEF OpOK, Holds, AddSteps
  <2>3. /\ current # NoMap /\ added = Content(current)
        /\ \A g \in Handler : Holds(g) => op[g].map = current
    BY <2>1, <2>2 DEF AddInv
  <2>4. \A g \in Handler : Holds(g)' => op'[g].map = current
    BY <2>1, <2>2, <2>3 DEF Moves, Holds
  <2>5. Content(current)' = Content(current)
    BY <2>1 DEF Content
  <2> QED
    BY <2>1, <2>3, <2>4, <2>5 DEF AddInv
<1>5. ASSUME NEW h \in Handler, Insert(h) PROVE AddInv'
  <2> DEFINE rr == Head(op[h].todo)
  <2>1. /\ Moves(h) /\ UNCHANGED <<current, disturbed>>
        /\ op'[h].map = NoMap /\ op[h].step = "insert"
    BY <1>5, AddMoves DEF Insert
  <2> SUFFICES ASSUME ~disturbed PROVE AddInv'
    BY <2>1 DEF AddInv
  <2>2. Holds(h)
    BY <1>0, <2>1 DEF OpOK, Holds, AddSteps
  <2>3. /\ current # NoMap /\ added = Content(current)
        /\ \A g \in Handler : Holds(g) => op[g].map = current
    BY <2>1, <2>2 DEF AddInv
  <2>4. op[h].map = current /\ current \in Map
    BY <1>0, <2>2, <2>3
  <2>5. rr \in Record
    BY <2>1, HeadRecord DEF AddSteps
  <2> DEFINE ms == [maps EXCEPT ![current][rr] = "fresh"]
  <2>6. maps' = Collect(current, op', ms) /\ added' = added \cup {rr}
    BY <1>5, <2>4 DEF Insert
  <2>7. maps'[current] = [maps[current] EXCEPT ![rr] = "fresh"]
    BY <1>0, <2>4, <2>6 DEF Collect, MapsOK
  <2>8. Content(current)' = Content(current) \cup {rr}
    BY <1>0, <2>1, <2>4, <2>5, <2>7 DEF Content, MapsOK
  <2>9. \A g \in Handler : Holds(g)' => op'[g].map = current
    BY <2>1, <2>3 DEF Moves, Holds
  <2> HIDE DEF rr
  <2> QED
    BY <2>1, <2>3, <2>6, <2>8, <2>9 DEF AddInv
<1>6. ASSUME NEW h \in Handler, NEW type \in Types, Ask(h, type) PROVE AddInv'
  BY <1>6, LookupMoves, AddInvBystander DEF Ask, AddSteps
<1>7. ASSUME NEW h \in Handler, Find(h) PROVE AddInv'
  <2>1. UNCHANGED <<current, maps, disturbed, added>>
    BY <1>7 DEF Find
  <2>2. Moves(h)
    BY <1>7, LookupMoves
  <2>3. op'[h].step \in {"idle", "rlock", "read"}
    <3>1. CASE current = NoMap
      BY <1>7, <3>1, LookupMoves
    <3>2. CASE current # NoMap
      <4>1. op'[h].step = IF kind = "hash" THEN "rlock" ELSE "read"
        BY <1>7, <3>2, LookupMoves
      <4> QED
        BY <4>1
    <3> QED
      BY <3>1, <3>2
  <2>4. op'[h].step \notin AddSteps
    BY <2>3 DEF AddSteps
  <2> QED
    BY <2>1, <2>2, <2>4, AddInvBystander
<1>8. ASSUME NEW h \in Handler, RLock(h) PROVE AddInv'
  BY <1>8, LookupMoves, AddInvBystander DEF RLock, AddSteps
<1>9. ASSUME UNCHANGED <<current, op, disturbed, added>>,
             \A m \in Map : Content(m)' = Content(m)
      PROVE  AddInv'
  <2>1. \A h \in Handler : Holds(h)' =>
          /\ Holds(h) /\ op'[h].map = op[h].map /\ op'[h].step = op[h].step
          /\ op[h].map \in Map
    BY <1>0, <1>9, OpFields DEF Holds, OpOK
  <2> QED
    BY <1>0, <1>9, <2>1, AddInvKept
<1>10. ASSUME NEW h \in Handler, Delete(h) PROVE AddInv'
  <2>1. \A m \in Map : Content(m)' = Content(m)
    BY <1>0, <1>10 DEF Delete, Over, Content, MapsOK
  <2> QED
    BY <1>9, <1>10, <2>1 DEF Delete
<1>11. ASSUME NEW m \in Map, NEW rr \in Record, Expire(m, rr) PROVE AddInv'
  <2>1. \A n \in Map : Content(n)' = Content(n)
    BY <1>0, <1>11 DEF Expire, Content, MapsOK
  <2> QED
    BY <1>9, <1>11, <2>1 DEF Expire
<1>12. ASSUME NEW h \in Handler, Answer(h) PROVE AddInv'
  <2>1. /\ Moves(h) /\ op'[h].map = NoMap
        /\ UNCHANGED <<current, disturbed, added>>
        /\ maps' = Collect(current, op', maps)
    BY <1>12, LookupMoves DEF Answer
  <2>2. \A g \in Handler : Holds(g)' => op'[g] = op[g]
    BY <2>1 DEF Moves, Holds
  <2>3. \A g \in Handler : Holds(g)' => op[g].map \in Map
    BY <1>0, <2>2, OpFields DEF Holds, OpOK
  <2>4. \A g \in Handler : Holds(g)' => maps'[op[g].map] = maps[op[g].map]
    BY <2>1, <2>2, <2>3 DEF Collect
  <2>5. \A g \in Handler : Holds(g)' =>
          /\ Holds(g) /\ op'[g].map = op[g].map /\ op'[g].step = op[g].step
          /\ Content(op[g].map)' = Content(op[g].map)
    BY <2>2, <2>4 DEF Holds, Content
  <2>6. current # NoMap => Content(current)' = Content(current)
    BY <1>0, <2>1 DEF Content, Collect
  <2> QED
    BY <2>1, <2>5, <2>6, AddInvKept
<1>13. CASE Evict
  <2> SUFFICES ASSUME ~disturbed' PROVE AddInv'
    BY DEF AddInv
  <2>1. \A h \in Handler : ~Holds(h)'
    BY <1>13 DEF Evict, At, Holds
  <2> QED
    BY <1>13, <2>1 DEF Evict, AddInv
<1>14. CASE Abort
  <2>1. \A h \in Handler : ~Holds(h)'
    BY <1>14, IdleFields DEF Abort, Holds
  <2> QED
    BY <1>14, <2>1 DEF Abort, AddInv
<1>15. CASE UNCHANGED vars
  BY <1>15 DEF vars, AddInv, Holds, Content
<1> QED
  BY <1>1, <1>2, <1>3, <1>4, <1>5, <1>6, <1>7, <1>8, <1>10, <1>11, <1>12,
     <1>13, <1>14, <1>15 DEF Next, Step

---------------------------------------------------------------------------
\* The inductive invariant: types, locks, what nobody refers to, what is added.
MapsInv == TypeInv /\ LockInv /\ GarbageInv /\ AddInv

\* A cache starts empty and nobody uses it.
LEMMA InitMaps == ASSUME Init PROVE MapsInv
<1>1. \A h \in Handler :
        op[h] \in Op /\ op[h].step = "idle" /\ op[h].map = NoMap
  BY IdleFields DEF Init
<1>2. TypeInv
  BY <1>1 DEF Init, TypeInv, OpsOK, OpOK, MapsOK, EmptyMap, AddSteps
<1>3. LockInv
  BY <1>1 DEF LockInv
<1>4. GarbageInv
  BY DEF GarbageInv, Init
<1>5. AddInv
  BY <1>1 DEF AddInv, Init, Holds
<1> QED
  BY <1>2, <1>3, <1>4, <1>5 DEF MapsInv

\* Every step of every handler, an eviction and the runtime's abort keep the
\* invariant (hash_server.go:524-605, dns_store.go:111-151,
\* paged_dns_store.go:210-276).
THEOREM MapsInductive == Spec => []MapsInv
<1>1. Init => MapsInv
  BY InitMaps
<1>2. MapsInv /\ [Next]_vars => MapsInv'
  BY TypeStep, LockStep, GarbageStep, AddStep DEF MapsInv
<1> QED
  BY <1>1, <1>2, PTL DEF Spec

\* The variables of a cache keep their types, and whoever uses a map has one
\* (hash_server.go:524-605).
THEOREM MapsTypes == Spec => []TypeOK
<1>1. MapsInv => TypeOK
  BY DEF MapsInv, TypeInv, OpsOK, OpOK, MapsOK, TypeOK, At
<1> QED
  BY <1>1, MapsInductive, PTL

\* A map changes under use only where the hash server deletes under the read
\* lock, or an add of the paged store, which takes no lock, is part of it
\* (hash_server.go:524-539, paged_dns_store.go:210-215 and 258-276).
THEOREM OnlyKnownClashes == Spec => []ClashesExplained
<1>1. MapsInv => ClashesExplained
  <2> SUFFICES ASSUME MapsInv, NEW g \in Handler, NEW h \in Handler,
                      Clash(g, h)
               PROVE  /\ kind = "hash" =>
                           op[g].step = "read" /\ op[h].step = "read"
                      /\ kind = "paged" => "insert" \in {op[g].step, op[h].step}
    BY DEF ClashesExplained
  <2>1. g # h /\ {op[g].step, op[h].step} \subseteq {"insert", "read"}
    BY DEF Clash
  <2> QED
    BY <2>1 DEF MapsInv, LockInv
<1> QED
  BY <1>1, MapsInductive, PTL

\* Adds that meet in a map lose nothing, unless an eviction or a second add that
\* found the name missing came between (hash_server.go:578-605,
\* dns_store.go:124-143).
THEOREM AddsKept == Spec => []UndisturbedAddsKept
<1>1. MapsInv => UndisturbedAddsKept
  BY DEF MapsInv, AddInv, Content, UndisturbedAddsKept
<1> QED
  BY <1>1, MapsInductive, PTL
=============================================================================
