-------------------------- MODULE MCCoordinatorRuns --------------------------
(***************************************************************************)
(* Three instances of ConnectionCoordinator side by side, told apart by    *)
(* part: three requests for two connections, without Stop or queries; two  *)
(* such requests while a query runs; and two requests, a query and Stop at *)
(* any point, whose goroutines run and whose drivers return.               *)
(***************************************************************************)
EXTENDS ConnectionCoordinator

CONSTANTS a, b, q1, noConfig, noKey

VARIABLE part

Querying == INSTANCE ConnectionCoordinator WITH MaxReq <- 2, Queries <- {q1}

Stopping == INSTANCE ConnectionCoordinator WITH
  Keys <- {a}, Asked <- {a, noConfig}, MaxReq <- 2, Queries <- {q1}, MayStop <- TRUE

RunInit ==
  \/ part = "requests" /\ Init
  \/ part = "query" /\ Querying!Init
  \/ part = "stop" /\ Stopping!Init

\* The connections are alike, so the first request may be for either.
FirstIsForA == req'[1].key \in {noKey, a}

RunNext ==
  /\ UNCHANGED part
  /\ \/ part = "requests" /\ Next /\ FirstIsForA
     \/ part = "query" /\ Querying!Next
     \/ part = "stop" /\ Stopping!Next

RunSpec ==
  /\ RunInit /\ [][RunNext]_<<vars, part>>
  /\ \A i \in 1..2 : WF_vars(part = "stop" /\ Stopping!Wakes(i))
  /\ WF_vars(part = "stop" /\ Stopping!AfterFunc) /\ WF_vars(part = "stop" /\ Stopping!Coordinator)
  /\ WF_vars(part = "stop" /\ Stopping!HubCloses(a))
  /\ \A l \in 1..2 : WF_vars(part = "stop" /\ Stopping!WatcherReturns(l))
  /\ WF_vars(part = "stop" /\ Stopping!StopGoesOn) /\ WF_vars(part = "stop" /\ Stopping!CleanupWorker)
  /\ WF_vars(part = "stop" /\ Stopping!QueryTakes(q1)) /\ WF_vars(part = "stop" /\ Stopping!QueryEnds(q1))

\* Every request is answered, once, and Stop leads to the end of the cleanup.
RequestsAndStopEnd == part = "stop" => Stopping!AnsweredAndCleanedUp
=============================================================================
