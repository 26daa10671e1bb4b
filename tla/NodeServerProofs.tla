--------------------------- MODULE NodeServerProofs ---------------------------
(***************************************************************************)
(* The safety of NodeServer for any set of requests, infinite ones         *)
(* included, and any number of restarts.  Where a request is, among the    *)
(* handlers that wait, in the hand of the proposal goroutine, with raft or *)
(* gone, decides its order (OrderInv) and how many can be lost (LossInv).  *)
(***************************************************************************)
EXTENDS NodeServer, FiniteSetTheorems, TLAPS

USE DEF requests, raft, stopping

\* Everything raft has accepted is a request, and what Propose adds is its hand.
LEMMA RangeOfAppend ==
  ASSUME NEW S, NEW s \in Seq(S), NEW e \in S
  PROVE  Range(Append(s, e)) = Range(s) \cup {e}
<1> DEFINE t == Append(s, e)
<1>1. /\ DOMAIN s = 1 .. Len(s) /\ Len(s) \in Nat
      /\ DOMAIN t = 1 .. Len(s) + 1
      /\ t[Len(s) + 1] = e
      /\ \A i \in 1 .. Len(s) : t[i] = s[i]
  OBVIOUS
<1> QED
  BY <1>1 DEF Range

\* The variables of a process keep their types (dns/raft.go, dns/httpapi.go).
LEMMA TypeStep == ASSUME TypeOK, [Next]_vars PROVE TypeOK'
<1> USE ServerAssumption DEF TypeOK
<1>1. ASSUME NEW r \in Request, Send(r) PROVE TypeOK'
  BY <1>1 DEF Send, Acked
<1>2. ASSUME NEW r \in Request, Take(r) PROVE TypeOK'
  BY <1>2 DEF Take
<1>3. ASSUME NEW r \in Request, Ack(r) PROVE TypeOK'
  BY <1>3 DEF Ack
<1>4. CASE Propose
  BY <1>4 DEF Propose
<1>5. CASE ProposeStopped
  BY <1>5 DEF ProposeStopped
<1>6. CASE LeaderChange \/ Removed \/ TransportFails
  BY <1>6 DEF LeaderChange, Removed, TransportFails
<1>7. CASE StopHTTP \/ CloseErrorC \/ NodeStop
  BY <1>7 DEF StopHTTP, CloseErrorC, NodeStop
<1>8. CASE ListenerEnds \/ MainReturns
  BY <1>8 DEF ListenerEnds, MainReturns
<1>9. ASSUME NEW r \in Request, SendOnClosed(r) PROVE TypeOK'
  BY <1>9 DEF SendOnClosed
<1>10. CASE Down
  BY <1>10 DEF Down
<1>11. CASE Restart
  <2>1. restarts' \in 0 .. MaxRestarts
    BY <1>11 DEF Restart
  <2>2. /\ channels' = "loop" /\ listener' = "serve"
        /\ errorC' = "open" /\ main' = "wait" /\ leader' = FALSE
        /\ UNCHANGED <<status, after, blocked, hand, proposed, cut>>
    BY <1>11 DEF Restart
  <2> QED
    BY <2>1, <2>2
<1>12. CASE UNCHANGED vars
  BY <1>12 DEF vars
<1> QED
  BY <1>1, <1>2, <1>3, <1>4, <1>5, <1>6, <1>7, <1>8, <1>9, <1>10, <1>11, <1>12
  DEF Next, Proposer, Handlers, ServeChannels, ServeRaft, Main, Exit,
      ErrorIsFatal, Crash

---------------------------------------------------------------------------
\* A request waits, is in hand, or has been proposed: only one of them, and none
\* before it is sent or after it is refused.
WhereInv ==
  /\ hand \notin Range(proposed)
  /\ \A r \in blocked : r # hand /\ r \notin Range(proposed)
  /\ \A r \in Request : status[r] \in {"unsent", "refused"} =>
       r # hand /\ r \notin Range(proposed)

\* What was answered before a request was sent has been taken before it.
OrderInv ==
  /\ \A r \in Request : after[r] \subseteq Acked \ {r}
  /\ \A r \in Range(proposed) : hand \notin after[r]
  /\ \A i, j \in DOMAIN proposed :
       /\ proposed[i] = proposed[j] => i = j
       /\ proposed[i] \in after[proposed[j]] => i < j

\* The answered requests that raft was not asked for.
Lost == Acked \ (Range(proposed) \cup cut)

\* A handler whose request is not taken has no answer yet; a crash loses at most
\* the request in hand.
LossInv ==
  /\ \A r \in Request \ blocked :
       status[r] = "open" => r = hand \/ r \in Range(proposed) \cup cut
  /\ main = "down" => hand = NoRequest
  /\ IsFiniteSet(Lost \ {hand})
  /\ Cardinality(Lost \ {hand}) <= restarts + (IF main = "down" THEN 1 ELSE 0)

ServerInv == TypeOK /\ WhereInv /\ OrderInv /\ LossInv

\* At the start nobody has asked for anything.
LEMMA InitServer == Init => ServerInv
<1> SUFFICES ASSUME Init PROVE ServerInv
  OBVIOUS
<1> USE ServerAssumption DEF Init
<1>1. TypeOK
  <2>1. restarts \in 0 .. MaxRestarts /\ proposed \in Seq(Request)
    OBVIOUS
  <2> QED
    BY <2>1 DEF TypeOK
<1>2. Range(proposed) = {} /\ Acked = {}
  BY DEF Range, Acked
<1>3. WhereInv /\ OrderInv
  BY <1>2 DEF WhereInv, OrderInv
<1>4. LossInv
  BY <1>2, FS_EmptySet DEF LossInv, Lost
<1> QED
  BY <1>1, <1>3, <1>4 DEF ServerInv

---------------------------------------------------------------------------
\* The steps that touch neither the requests nor what raft has of them.
Elsewhere ==
  /\ \/ LeaderChange \/ Removed \/ TransportFails
     \/ StopHTTP \/ CloseErrorC \/ NodeStop \/ ListenerEnds
     \/ MainReturns
     \/ UNCHANGED vars

\* Those steps leave alone what the invariants are about.
LEMMA StaysElsewhere ==
  ASSUME Elsewhere
  PROVE  /\ UNCHANGED <<status, after, blocked, hand, proposed, cut, restarts>>
         /\ (main = "down") = (main' = "down")
BY DEF Elsewhere, LeaderChange, Removed, TransportFails, StopHTTP, CloseErrorC,
       NodeStop, ListenerEnds, MainReturns, vars

\* Every step is one of the following.
LEMMA Steps ==
  ASSUME [Next]_vars
  PROVE  \/ \E r \in Request :
              Send(r) \/ Take(r) \/ Ack(r) \/ SendOnClosed(r)
         \/ Propose \/ ProposeStopped
         \/ main # "down" /\ Down
         \/ Restart
         \/ Elsewhere
BY DEF Next, Proposer, Handlers, ServeChannels, ServeRaft, Main, Exit,
       ErrorIsFatal, Crash, Elsewhere

\* A request moves from the handler to the hand, and from there to raft or away
\* (raft.go:398-416, httpapi.go:53-115).
LEMMA WhereStep == ASSUME TypeOK, WhereInv, [Next]_vars PROVE WhereInv'
<1> USE ServerAssumption DEF WhereInv
<1>0. NoRequest \notin Request
  OBVIOUS
<1>t. /\ blocked \subseteq {r \in Request : status[r] = "open"}
      /\ hand \in Request \cup {NoRequest}
      /\ proposed \in Seq(Request)
      /\ Range(proposed) \subseteq Request
      /\ DOMAIN status = Request
  BY DEF TypeOK, Range
<1>1. ASSUME NEW r \in Request, Send(r) PROVE WhereInv'
  BY <1>1, <1>t DEF Send
<1>2. ASSUME NEW r \in Request, Take(r) PROVE WhereInv'
  BY <1>2, <1>t DEF Take
<1>3. ASSUME NEW r \in Request, Ack(r) PROVE WhereInv'
  BY <1>3, <1>t DEF Ack
<1>4. ASSUME NEW r \in Request, SendOnClosed(r) PROVE WhereInv'
  BY <1>4, <1>t DEF SendOnClosed
<1>5. CASE Propose
  <2>1. /\ hand \in Request /\ proposed' = Append(proposed, hand)
        /\ hand' = NoRequest /\ UNCHANGED <<status, blocked>>
    BY <1>5, <1>t DEF Propose
  <2>2. Range(proposed') = Range(proposed) \cup {hand}
    BY <2>1, <1>t, RangeOfAppend
  <2> QED
    BY <2>1, <2>2, <1>0, <1>t
<1>6. CASE ProposeStopped
  BY <1>6, <1>0, <1>t DEF ProposeStopped
<1>7. CASE Down
  BY <1>7, <1>0, <1>t DEF Down
<1>8. CASE Restart
  BY <1>8 DEF Restart
<1>9. CASE Elsewhere
  BY <1>9, StaysElsewhere
<1> QED
  BY <1>1, <1>2, <1>3, <1>4, <1>5, <1>6, <1>7, <1>8, <1>9, Steps

\* The request taken is open, so it precedes none that was sent before it
\* (raft.go:400-414).
LEMMA OrderStep ==
  ASSUME TypeOK, WhereInv, OrderInv, [Next]_vars PROVE OrderInv'
<1> USE ServerAssumption
<1>0. NoRequest \notin Request
  OBVIOUS
<1>t. /\ blocked \subseteq {r \in Request : status[r] = "open"}
      /\ hand \in Request \cup {NoRequest}
      /\ proposed \in Seq(Request)
      /\ Range(proposed) \subseteq Request
      /\ DOMAIN status = Request /\ DOMAIN after = Request
      /\ \A i \in DOMAIN proposed : proposed[i] \in Range(proposed)
  BY DEF TypeOK, Range
<1>w. /\ hand \notin Range(proposed)
      /\ \A r \in Request : status[r] = "unsent" =>
           r # hand /\ r \notin Range(proposed)
  BY DEF WhereInv
<1>o. /\ \A r \in Request : after[r] \subseteq Acked \ {r}
      /\ \A r \in Range(proposed) : hand \notin after[r]
      /\ \A i, j \in DOMAIN proposed :
           /\ proposed[i] = proposed[j] => i = j
           /\ proposed[i] \in after[proposed[j]] => i < j
  BY DEF OrderInv
<1>1. ASSUME NEW r \in Request, Send(r) PROVE OrderInv'
  <2>1. /\ status[r] = "unsent" /\ r \notin Acked /\ Acked' = Acked
        /\ r \notin Range(proposed)
        /\ UNCHANGED <<proposed, hand>>
        /\ after' = [after EXCEPT ![r] = Acked]
    BY <1>1, <1>t, <1>w DEF Send, Acked
  <2> QED
    BY <2>1, <1>t, <1>o DEF OrderInv
<1>2. ASSUME NEW r \in Request, Take(r) PROVE OrderInv'
  <2>1. /\ r \notin Acked /\ UNCHANGED <<status, after, proposed>> /\ hand' = r
    BY <1>2, <1>t DEF Take, Acked
  <2>2. Acked' = Acked
    BY <2>1 DEF Acked
  <2> QED
    BY <2>1, <2>2, <1>t, <1>o DEF OrderInv
<1>3. ASSUME NEW r \in Request, Ack(r) \/ SendOnClosed(r) PROVE OrderInv'
  <2>1. Acked \subseteq Acked' /\ UNCHANGED <<after, proposed, hand>>
    BY <1>3, <1>t DEF Ack, SendOnClosed, Acked
  <2> QED
    BY <2>1, <1>o DEF OrderInv
<1>4. CASE Propose
  <2>1. /\ hand \in Request /\ proposed' = Append(proposed, hand)
        /\ hand' = NoRequest /\ UNCHANGED <<status, after>>
    BY <1>4, <1>t DEF Propose
  <2>2. Acked' = Acked
    BY <2>1 DEF Acked
  <2>3. /\ DOMAIN proposed = 1 .. Len(proposed) /\ Len(proposed) \in Nat
        /\ DOMAIN proposed' = 1 .. Len(proposed) + 1
        /\ proposed'[Len(proposed) + 1] = hand
        /\ \A i \in 1 .. Len(proposed) : proposed'[i] = proposed[i]
    BY <2>1, <1>t
  <2>4. NoRequest \notin Acked
    BY <1>0 DEF Acked
  <2>5. Range(proposed') \subseteq Request
    BY <2>1, <1>t, RangeOfAppend
  <2>6. \A r \in Range(proposed') : hand' \notin after'[r]
    BY <2>1, <2>4, <2>5, <1>o
  <2>7. ASSUME NEW i \in DOMAIN proposed', NEW j \in DOMAIN proposed'
        PROVE  /\ proposed'[i] = proposed'[j] => i = j
               /\ proposed'[i] \in after[proposed'[j]] => i < j
    <3>1. CASE i \in DOMAIN proposed /\ j \in DOMAIN proposed
      BY <3>1, <2>3, <1>o
    <3>2. CASE i \in DOMAIN proposed /\ j = Len(proposed) + 1
      BY <3>2, <2>3, <1>t, <1>w
    <3>3. CASE i = Len(proposed) + 1 /\ j \in DOMAIN proposed
      BY <3>3, <2>3, <1>t, <1>w, <1>o
    <3>4. CASE i = Len(proposed) + 1 /\ j = Len(proposed) + 1
      BY <3>4, <2>1, <2>3, <1>o
    <3> QED
      BY <3>1, <3>2, <3>3, <3>4, <2>3
  <2> QED
    BY <2>1, <2>2, <2>6, <2>7, <1>o DEF OrderInv
<1>5. CASE ProposeStopped \/ Down
  <2>1. Acked' = Acked /\ UNCHANGED <<after, proposed>> /\ hand' = NoRequest
    BY <1>5, <1>t DEF ProposeStopped, Down, Acked
  <2>2. NoRequest \notin Acked
    BY <1>0 DEF Acked
  <2> QED
    BY <2>1, <2>2, <1>t, <1>o DEF OrderInv
<1>6. CASE Restart \/ Elsewhere
  <2>1. UNCHANGED <<status, after, proposed, hand>>
    BY <1>6, StaysElsewhere DEF Restart
  <2>2. Acked' = Acked
    BY <2>1 DEF Acked
  <2> QED
    BY <2>1, <2>2, <1>o DEF OrderInv
<1> QED
  BY <1>1, <1>2, <1>3, <1>4, <1>5, <1>6, Steps

\* What LossInv says is about these alone.
LEMMA LossOf ==
  ASSUME LossInv, UNCHANGED <<Lost \ {hand}, restarts>>,
         \A r \in Request \ blocked' :
           status'[r] = "open" => r = hand' \/ r \in Range(proposed') \cup cut',
         main = "down" <=> main' = "down", main' = "down" => hand' = NoRequest
  PROVE  LossInv'
BY DEF LossInv

\* Only the end of the process takes an answered request out of the hand without
\* raft being asked, and a restart pays for it (raft.go:405, main.go).
LEMMA LossStep ==
  ASSUME TypeOK, WhereInv, LossInv, [Next]_vars PROVE LossInv'
<1> USE ServerAssumption
<1>0. NoRequest \notin Request
  OBVIOUS
<1>t. /\ blocked \subseteq {r \in Request : status[r] = "open"}
      /\ hand \in Request \cup {NoRequest}
      /\ proposed \in Seq(Request)
      /\ DOMAIN status = Request
      /\ restarts \in Nat
  BY DEF TypeOK
<1>l. /\ \A r \in Request \ blocked :
           status[r] = "open" => r = hand \/ r \in Range(proposed) \cup cut
      /\ main = "down" => hand = NoRequest
  BY DEF LossInv
<1>a. Acked \subseteq Request /\ NoRequest \notin Lost
  BY <1>0 DEF Acked, Lost
<1>1. ASSUME NEW r \in Request, Send(r) PROVE LossInv'
  <2>1. Acked' = Acked /\ UNCHANGED <<proposed, cut, hand, restarts, main>>
    BY <1>1, <1>t DEF Send, Acked
  <2>2. \A q \in Request \ blocked' : status'[q] = "open" =>
          q \notin blocked /\ status[q] = "open"
    BY <1>1, <1>t DEF Send
  <2> QED
    BY <2>1, <2>2, <1>l, LossOf DEF Lost
<1>2. ASSUME NEW r \in Request, Take(r) PROVE LossInv'
  <2>1. /\ hand = NoRequest /\ hand' = r /\ r \notin Acked
        /\ main = "wait" /\ blocked' = blocked \ {r}
        /\ UNCHANGED <<status, proposed, cut, restarts, main>>
    BY <1>2, <1>t DEF Take, Acked
  <2>2. Lost' = Lost /\ r \notin Lost
    BY <2>1 DEF Lost, Acked
  <2>3. Lost' \ {hand'} = Lost \ {hand}
    BY <2>1, <2>2, <1>a
  <2> QED
    BY <2>1, <2>3, <1>0, <1>l, LossOf
<1>3. ASSUME NEW r \in Request, Ack(r) PROVE LossInv'
  <2>1. /\ r = hand \/ r \in Range(proposed) \cup cut
        /\ Acked' = Acked \cup {r}
        /\ UNCHANGED <<blocked, hand, proposed, cut, restarts, main>>
        /\ \A q \in Request : status'[q] = "open" => status[q] = "open"
    BY <1>3, <1>t, <1>l DEF Ack, Acked
  <2>2. Lost' \ {hand'} = Lost \ {hand}
    BY <2>1 DEF Lost
  <2> QED
    BY <2>1, <2>2, <1>l, LossOf
<1>4. ASSUME NEW r \in Request, SendOnClosed(r) PROVE LossInv'
  <2>1. /\ Acked' = Acked
        /\ UNCHANGED <<hand, proposed, cut, restarts, main>>
        /\ \A q \in Request \ blocked' :
             status'[q] = "open" => q \notin blocked /\ status[q] = "open"
    BY <1>4, <1>t DEF SendOnClosed, Acked
  <2> QED
    BY <2>1, <1>l, LossOf DEF Lost
<1>5. CASE Propose \/ ProposeStopped
  <2>1. /\ hand' = NoRequest
        /\ Range(proposed') \cup cut' = Range(proposed) \cup cut \cup {hand}
        /\ UNCHANGED <<status, blocked, restarts, main>>
    <3>1. CASE Propose
      <4>1. hand \in Request /\ proposed' = Append(proposed, hand)
        BY <3>1, <1>t DEF Propose
      <4>2. Range(proposed') = Range(proposed) \cup {hand}
        BY <4>1, <1>t, RangeOfAppend
      <4> QED
        BY <3>1, <4>2 DEF Propose
    <3>2. CASE ProposeStopped
      BY <3>2 DEF ProposeStopped
    <3> QED
      BY <1>5, <3>1, <3>2
  <2>2. Acked' = Acked
    BY <2>1 DEF Acked
  <2>3. Lost' \ {hand'} = Lost \ {hand}
    BY <2>1, <2>2, <1>a DEF Lost
  <2> QED
    BY <2>1, <2>3, <1>l, LossOf
<1>6. CASE main # "down" /\ Down
  <2>1. /\ Acked' = Acked /\ hand' = NoRequest /\ main' = "down"
        /\ UNCHANGED <<proposed, cut, restarts>>
        /\ \A r \in Request : status'[r] # "open"
    BY <1>6, <1>t DEF Down, Acked
  <2>2. Lost' \ {hand'} = Lost
    BY <2>1, <1>a DEF Lost
  <2>3. /\ IsFiniteSet(Lost \ {hand})
        /\ Cardinality(Lost \ {hand}) <= restarts
    <3>1. /\ IsFiniteSet(Lost \ {hand})
          /\ Cardinality(Lost \ {hand}) <= restarts + 0
      BY <1>6 DEF LossInv
    <3>2. Cardinality(Lost \ {hand}) \in Nat
      BY <3>1, FS_CardinalityType
    <3> QED
      BY <3>1, <3>2, <1>t
  <2> DEFINE U == (Lost \ {hand}) \cup {hand}
  <2>4. /\ IsFiniteSet(U)
        /\ Cardinality(U) <= Cardinality(Lost \ {hand}) + 1
        /\ Cardinality(U) \in Nat /\ Cardinality(Lost \ {hand}) \in Nat
    BY <2>3, FS_AddElement, FS_CardinalityType
  <2>5. Lost \in SUBSET U
    OBVIOUS
  <2>6. IsFiniteSet(Lost) /\ Cardinality(Lost) <= Cardinality(U)
    BY <2>4, <2>5, FS_Subset
  <2>7. Cardinality(Lost) \in Nat
    BY <2>6, FS_CardinalityType
  <2>8. Cardinality(Lost) <= restarts + 1
    BY <2>3, <2>4, <2>6, <2>7, <1>t
  <2> QED
    BY <2>1, <2>2, <2>6, <2>8 DEF LossInv
<1>7. CASE Restart
  <2>1. /\ main = "down" /\ main' = "wait" /\ restarts' = restarts + 1
        /\ UNCHANGED <<status, blocked, hand, proposed, cut>>
    BY <1>7 DEF Restart
  <2>2. Lost' \ {hand'} = Lost \ {hand}
    BY <2>1 DEF Lost, Acked
  <2>3. /\ IsFiniteSet(Lost \ {hand})
        /\ Cardinality(Lost \ {hand}) <= restarts + 1
    BY <2>1 DEF LossInv
  <2>4. restarts' + 0 = restarts + 1
    BY <2>1, <1>t
  <2>5. Cardinality(Lost' \ {hand'}) <= restarts' + 0
    BY <2>2, <2>3, <2>4
  <2> QED
    BY <2>1, <2>2, <2>3, <2>5, <1>l DEF LossInv
<1>8. CASE Elsewhere
  <2>1. /\ UNCHANGED <<status, blocked, hand, proposed, cut, restarts>>
        /\ main = "down" <=> main' = "down"
    BY <1>8, StaysElsewhere
  <2>2. Lost' \ {hand'} = Lost \ {hand}
    BY <2>1 DEF Lost, Acked
  <2> QED
    BY <2>1, <2>2, <1>l, LossOf
<1> QED
  BY <1>1, <1>2, <1>3, <1>4, <1>5, <1>6, <1>7, <1>8, Steps

---------------------------------------------------------------------------
\* Where requests are, their order and what can be lost, together inductive
\* (dns/raft.go serveChannels, dns/httpapi.go).
THEOREM ServerInductive == Spec => []ServerInv
<1>1. Init => ServerInv
  BY InitServer
<1>2. ServerInv /\ [Next]_vars => ServerInv'
  BY TypeStep, WhereStep, OrderStep, LossStep DEF ServerInv
<1> QED
  BY <1>1, <1>2, PTL DEF Spec

\* The variables of a node's process keep their types, a handler that waits has
\* not answered (dns/httpapi.go:53-115, raft.go:398-416).
THEOREM ServerTypes == Spec => []TypeOK
<1>1. ServerInv => TypeOK
  BY DEF ServerInv
<1> QED
  BY <1>1, ServerInductive, PTL

\* Raft is asked for each request at most once, never for a refused one, and in
\* the order of the answers (raft.go:398-416).
THEOREM ProposedInOrder == Spec => []ProposedOnceInOrder
<1>1. ServerInv => ProposedOnceInOrder
  <2> SUFFICES ASSUME ServerInv PROVE ProposedOnceInOrder
    OBVIOUS
  <2>1. Range(proposed) \subseteq Request
    BY DEF ServerInv, TypeOK, Range
  <2> QED
    BY <2>1 DEF ServerInv, WhereInv, OrderInv, ProposedOnceInOrder
<1> QED
  BY <1>1, ServerInductive, PTL

\* Each life of the process loses at most one answered write that raft was not
\* stopped for (raft.go:405, httpapi.go:75), however many requests there are.
THEOREM OneLossPerLife == Spec => []AckedLossBounded
<1>1. ServerInv => AckedLossBounded
  <2> SUFFICES ASSUME ServerInv PROVE Cardinality(Lost) <= 1 + restarts
    BY DEF AckedLossBounded, Lost
  <2>1. restarts \in Nat
    BY ServerAssumption DEF ServerInv, TypeOK
  <2>2. /\ IsFiniteSet(Lost \ {hand})
        /\ Cardinality(Lost \ {hand}) <=
             restarts + (IF main = "down" THEN 1 ELSE 0)
        /\ main = "down" => hand = NoRequest
    BY DEF ServerInv, LossInv
  <2>3. Cardinality(Lost \ {hand}) \in Nat
    BY <2>2, FS_CardinalityType
  <2>4. CASE hand \notin Lost
    <3>1. Lost \ {hand} = Lost
      BY <2>4
    <3> QED
      BY <2>1, <2>2, <2>3, <3>1
  <2>5. CASE hand \in Lost
    <3>1. (Lost \ {hand}) \cup {hand} = Lost
      BY <2>5
    <3>2. main # "down"
      BY <2>2, <2>5, ServerAssumption DEF Lost, Acked
    <3>3. Cardinality(Lost) = Cardinality(Lost \ {hand}) + 1
      BY <2>2, <3>1, FS_AddElement
    <3> QED
      BY <2>1, <2>2, <2>3, <3>2, <3>3
  <2> QED
    BY <2>4, <2>5
<1> QED
  BY <1>1, ServerInductive, PTL
=============================================================================
