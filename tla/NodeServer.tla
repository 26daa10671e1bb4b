------------------------------ MODULE NodeServer ------------------------------
(***************************************************************************)
(* The process of a node from its write requests to raft, and its          *)
(* shutdown.  The handlers of dns/httpapi.go (/add, /delete, /member),     *)
(* their paged versions and those of example/httpapi.go check a request,   *)
(* send it on an unbuffered channel and answer 204.  One goroutine         *)
(* (dns/raft.go serveChannels, example/raft.go) takes from the two channels *)
(* in turn and waits for raft to accept each proposal; what raft says of   *)
(* it is ignored.                                                          *)
(*                                                                         *)
(* When the node is removed from its cluster serveChannels stops: it has   *)
(* the listener of serveRaft end, closes commitC and errorC and stops      *)
(* raft; main, which waits for errorC, returns.  On an error of the        *)
(* transport it sends the error instead, and whoever receives it ends the  *)
(* process.                                                                *)
(*                                                                         *)
(* External: raft accepts a proposal when it knows a leader; after         *)
(* node.Stop it returns an error at once.                                  *)
(***************************************************************************)
EXTENDS Integers, Sequences, FiniteSets, Functions

CONSTANTS
  Request,      \* the write requests clients send, each once
  Bad,          \* those that fail a check of their handler
  NoRequest,
  MaxRestarts   \* bound on the restarts of the process

ASSUME ServerAssumption ==
  Bad \subseteq Request /\ NoRequest \notin Request /\ MaxRestarts \in Nat

VARIABLES
  status,      \* of each request: "unsent", "open", "acked", "refused",
               \* "broken"
  after,       \* history: the requests answered before this one was sent
  blocked,     \* the handlers that wait to send on proposeC or confChangeC
  hand,        \* the request the proposal goroutine has taken
  proposed,    \* the requests raft has accepted, in order
  cut,         \* history: the requests raft was not asked for: it was stopped
  leader,      \* raft knows a leader
  channels,    \* serveChannels: "loop", "stop", "error", "close", "send",
               \* "halt", "end"
  listener,    \* serveRaft: "serve", "stop", "done"
  errorC,      \* "open", "closed"
  main,        \* "wait", "close", "down"
  restarts

requests == <<status, after, blocked>>
raft     == <<proposed, cut, leader>>
stopping == <<channels, listener, errorC, main>>
vars     == <<requests, hand, raft, stopping, restarts>>

TypeOK ==
  /\ status \in [Request -> {"unsent", "open", "acked", "refused", "broken"}]
  /\ after \in [Request -> SUBSET Request]
  /\ blocked \subseteq {r \in Request : status[r] = "open"}
  /\ hand \in Request \cup {NoRequest}
  /\ proposed \in Seq(Request)
  /\ cut \subseteq Request
  /\ leader \in BOOLEAN
  /\ channels \in {"loop", "stop", "error", "close", "send", "halt", "end"}
  /\ listener \in {"serve", "stop", "done"}
  /\ errorC \in {"open", "closed"}
  /\ main \in {"wait", "close", "down"}
  /\ restarts \in 0 .. MaxRestarts

Acked == {r \in Request : status[r] = "acked"}

---------------------------------------------------------------------------
\* Mutant: a handler goes on after http.Error.
SendRegardless(r) ==
  /\ main # "down"
  /\ status[r] = "unsent"
  /\ status' = [status EXCEPT ![r] = IF r \in Bad THEN "refused" ELSE "open"]
  /\ blocked' = blocked \cup {r}
  /\ after' = [after EXCEPT ![r] = Acked]
  /\ UNCHANGED <<hand, raft, stopping, restarts>>

\* A request reaches its handler: 400 if the method, the body, the record or
\* its type is bad, else it comes to the send on its channel.
Send(r) ==
  /\ main # "down"
  /\ status[r] = "unsent"
  /\ IF r \in Bad
     THEN status' = [status EXCEPT ![r] = "refused"] /\ UNCHANGED blocked
     ELSE status' = [status EXCEPT ![r] = "open"] /\ blocked' = blocked \cup {r}
  /\ after' = [after EXCEPT ![r] = Acked]
  /\ UNCHANGED <<hand, raft, stopping, restarts>>

\* The proposal goroutine selects one of the handlers that wait.
Take(r) ==
  /\ main = "wait"
  /\ hand = NoRequest
  /\ r \in blocked
  /\ hand' = r
  /\ blocked' = blocked \ {r}
  /\ UNCHANGED <<status, after, raft, stopping, restarts>>

\* w.WriteHeader(http.StatusNoContent)
Ack(r) ==
  /\ main # "down"
  /\ status[r] = "open" /\ r \notin blocked
  /\ status' = [status EXCEPT ![r] = "acked"]
  /\ UNCHANGED <<after, blocked, hand, raft, stopping, restarts>>

\* Mutant: a proposal that raft does not accept in time is given up.
ProposeOrTimeOut ==
  /\ hand # NoRequest
  /\ channels # "end"
  /\ proposed' = IF leader THEN Append(proposed, hand) ELSE proposed
  /\ hand' = NoRequest
  /\ UNCHANGED <<requests, cut, leader, stopping, restarts>>

\* Mutant: the same proposal is taken up again.
ProposeAgain ==
  /\ hand # NoRequest
  /\ channels # "end"
  /\ leader
  /\ Len(proposed) <= Cardinality(Request)
  /\ proposed' = Append(proposed, hand)
  /\ UNCHANGED <<requests, hand, cut, leader, stopping, restarts>>

\* Mutant: the goroutine does not come back to its select.
ProposeAndStay ==
  /\ hand # NoRequest
  /\ channels # "end"
  /\ leader /\ hand \notin Range(proposed)
  /\ proposed' = Append(proposed, hand)
  /\ UNCHANGED <<requests, hand, cut, leader, stopping, restarts>>

\* node.Propose and node.ProposeConfChange "block until accepted by raft state
\* machine".
Propose ==
  /\ hand # NoRequest
  /\ channels # "end"
  /\ leader
  /\ proposed' = Append(proposed, hand)
  /\ hand' = NoRequest
  /\ UNCHANGED <<requests, cut, leader, stopping, restarts>>

\* raft has been stopped: its error is ignored.
ProposeStopped ==
  /\ hand # NoRequest
  /\ channels = "end"
  /\ cut' = cut \cup {hand}
  /\ hand' = NoRequest
  /\ UNCHANGED <<requests, proposed, leader, stopping, restarts>>

LeaderChange ==
  /\ leader' = ~leader
  /\ UNCHANGED <<requests, hand, proposed, cut, stopping, restarts>>

---------------------------------------------------------------------------
\* publishEntries meets the removal of this node: stop().
Removed ==
  /\ channels = "loop"
  /\ channels' = "stop"
  /\ UNCHANGED <<requests, hand, raft, listener, errorC, main, restarts>>

\* transport.ErrorC: writeError(err).
TransportFails ==
  /\ channels = "loop"
  /\ channels' = "error"
  /\ UNCHANGED <<requests, hand, raft, listener, errorC, main, restarts>>

\* Mutant: the listener is not told.
StopHTTPWithoutClose ==
  /\ channels \in {"stop", "error"}
  /\ channels' = IF channels = "stop" THEN "close" ELSE "send"
  /\ UNCHANGED <<requests, hand, raft, listener, errorC, main, restarts>>

\* stopHTTP: close(rc.httpstopc).
StopHTTP ==
  /\ channels \in {"stop", "error"}
  /\ channels' = IF channels = "stop" THEN "close" ELSE "send"
  /\ listener' = "stop"
  /\ UNCHANGED <<requests, hand, raft, errorC, main, restarts>>

\* Accept returns "server stopped", Serve ends, serveRaft closes httpdonec.
ListenerEnds ==
  /\ listener = "stop"
  /\ listener' = "done"
  /\ UNCHANGED <<requests, hand, raft, channels, errorC, main, restarts>>

\* stop: after <-rc.httpdonec, commitC and errorC are closed.
CloseErrorC ==
  /\ channels = "close"
  /\ listener = "done"
  /\ errorC' = "closed"
  /\ channels' = "halt"
  /\ UNCHANGED <<requests, hand, raft, listener, main, restarts>>

\* node.Stop().
NodeStop ==
  /\ channels = "halt"
  /\ channels' = "end"
  /\ UNCHANGED <<requests, hand, raft, listener, errorC, main, restarts>>

\* serveHTTPAPI returns: main closes confChangeC and proposeC on its way out.
MainReturns ==
  /\ main = "wait"
  /\ errorC = "closed"
  /\ main' = "close"
  /\ UNCHANGED <<requests, hand, raft, channels, listener, errorC, restarts>>

\* A send on a closed channel panics; net/http recovers and drops the
\* connection.
SendOnClosed(r) ==
  /\ main = "close"
  /\ r \in blocked
  /\ blocked' = blocked \ {r}
  /\ status' = [status EXCEPT ![r] = "broken"]
  /\ UNCHANGED <<after, hand, raft, stopping, restarts>>

\* The process ends: what was in its hands is gone.
Down ==
  /\ main' = "down"
  /\ hand' = NoRequest
  /\ blocked' = {}
  /\ status' = [r \in Request |->
                  IF status[r] = "open" THEN "broken" ELSE status[r]]
  /\ UNCHANGED <<after, raft, channels, listener, errorC, restarts>>

Exit == main = "close" /\ Down

\* writeError: after <-rc.httpdonec the error is received by serveHTTPAPI or, as
\* commitC is closed, by the store's reader: log.Fatal.
ErrorIsFatal == main = "wait" /\ channels = "send" /\ listener = "done" /\ Down

Crash == main # "down" /\ Down

Restart ==
  /\ main = "down"
  /\ restarts < MaxRestarts
  /\ restarts' = restarts + 1
  /\ channels' = "loop" /\ listener' = "serve"
  /\ errorC' = "open" /\ main' = "wait"
  /\ leader' = FALSE
  /\ UNCHANGED <<requests, hand, proposed, cut>>

Init ==
  /\ status = [r \in Request |-> "unsent"]
  /\ after = [r \in Request |-> {}]
  /\ blocked = {}
  /\ hand = NoRequest
  /\ proposed = <<>> /\ cut = {} /\ leader = FALSE
  /\ channels = "loop" /\ listener = "serve" /\ errorC = "open" /\ main = "wait"
  /\ restarts = 0

\* The goroutines of the process, but for the steps of raft and its peers.
Up == main # "down"
Proposer == Up /\ (Propose \/ ProposeStopped \/ \E r \in Request : Take(r))
Handlers == \E r \in Request : Ack(r) \/ SendOnClosed(r)
ServeChannels == Up /\ (StopHTTP \/ CloseErrorC \/ NodeStop)
ServeRaft == Up /\ ListenerEnds
Main == MainReturns \/ Exit \/ ErrorIsFatal

Next ==
  \/ \E r \in Request : Send(r)
  \/ Proposer \/ Handlers \/ ServeChannels \/ ServeRaft \/ Main
  \/ Up /\ (LeaderChange \/ Removed \/ TransportFails)
  \/ Crash
  \/ Restart

Spec == Init /\ [][Next]_vars

\* The scheduler runs every goroutine that can run.
LiveSpec ==
  /\ Spec
  /\ WF_vars(Proposer) /\ WF_vars(Handlers)
  /\ WF_vars(ServeChannels) /\ WF_vars(ServeRaft) /\ WF_vars(Main)

---------------------------------------------------------------------------
\* Raft is asked for each request at most once, never for one that was refused,
\* and never for a request before one that had been answered when it was sent,
\* whichever of the two channels they take (raft.go:398-416, httpapi.go:53-115):
\* the answered request has been proposed before, or never will be.
ProposedOnceInOrder ==
  /\ \A i, j \in DOMAIN proposed :
       /\ proposed[i] = proposed[j] => i = j
       /\ proposed[i] \in after[proposed[j]] => i < j
  /\ \A r \in Range(proposed) :
       /\ status[r] # "refused"
       /\ hand \notin after[r]

\* 204 is answered before raft has accepted the request (raft.go:405,
\* httpapi.go:75): but for what is handed to raft after it was stopped, each
\* life of the process can lose one answered write, and no more: the one that
\* waits for a leader.
AckedLossBounded ==
  Cardinality(Acked \ (Range(proposed) \cup cut)) <= 1 + restarts

\* Every request is answered, or its connection dropped, once there is a leader
\* for good (raft.go:405): without one the handlers wait, with no timeout.
WritesAnswered ==
  \A r \in Request : <>[]leader => (status[r] = "open" ~> status[r] # "open")

\* A node that is removed, or whose transport fails, ends its process
\* (raft.go:252-259, 317-328, 466-475, httpapi.go:357-360).
StopsWhenTold == channels \in {"stop", "error"} ~> main = "down"
=============================================================================
