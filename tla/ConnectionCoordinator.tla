------------------------ MODULE ConnectionCoordinator ------------------------
(***************************************************************************)
(* How the server comes to have a connection, changes it and gives it up   *)
(* (handler/connection_lifecycle.go, handler/handler.go): requests that    *)
(* coalesce or replace one another, one coordinator goroutine that         *)
(* attaches, queries that hold the connection, the metadata lease bound to *)
(* it, Stop and the cleanup worker.                                        *)
(*                                                                         *)
(* A request is its number in order of arrival; its key is the connection  *)
(* it asks for.  What a driver's open, Registry.Acquire and Lease.Refresh  *)
(* return is a choice; module MetadataRegistry has the leases' own life.   *)
(* connGeneration is written by this coordinator alone, so the comparisons *)
(* of attachIntent and bindMetadata with the generation they started are   *)
(* always true and are left out.                                           *)
(***************************************************************************)
EXTENDS Naturals, Sequences, FiniteSets

CONSTANTS
  Keys,         \* connections a request can name
  NoConfig,     \* the key of a request without a configuration
  NoKey,        \* no request yet
  Asked,        \* the keys the runs ask for
  Queries,      \* commands that use the connection
  QueueLen,     \* capacity of cleanupQueue
  MaxReq,       \* bound: requests, and so attempts, connections and leases
  MayStop       \* bound: whether the server is stopped

ASSUME CoordinatorAssumption ==
  /\ NoConfig \notin Keys /\ NoKey \notin Keys \union {NoConfig} /\ Asked \subseteq Keys \union {NoConfig}
  /\ QueueLen \in Nat \ {0} /\ MaxReq \in Nat \ {0} /\ MayStop \in BOOLEAN

Ids == 1..MaxReq

VARIABLES
  made, req,        \* requests made, and what each asked and was answered
  abandoned,        \* explicit requests whose command was cancelled
  wakers,           \* requests about to signal the coordinator
  notifier,         \* the read loop: whether it has just seen no connection
  pending, active, lastKey, wake, stopped,       \* the coordinator's fields
  pc, cur, canceled, result,                     \* its goroutine, and the context of an attempt
  state, dbConn, curKey, generation,             \* Server
  opened, connKey, candidate, old, closed,       \* connections, by number
  metaLease, boundGeneration,                    \* Server
  leases, leaseKey, leaseAt, released,           \* leases, by number
  subscribed, channelClosed, watchers,           \* of the leases' subscriptions
  lifecycleDone, stopping, queue, queueClosed, final, worker, cleanupDone,
  query

reqVars    == <<made, req, abandoned, wakers, notifier>>
coordVars  == <<pending, active, lastKey, wake, stopped>>
runVars    == <<pc, cur, canceled, result>>
serverVars == <<state, dbConn, curKey, generation>>
connVars   == <<opened, connKey, candidate, old, closed>>
leaseVars  == <<metaLease, boundGeneration, leases, leaseKey, leaseAt, released, subscribed, channelClosed, watchers>>
stopVars   == <<lifecycleDone, stopping, queue, queueClosed, final, worker, cleanupDone>>
vars == <<reqVars, coordVars, runVars, serverVars, connVars, leaseVars, stopVars, query>>

Locked == {"locked", "enqueue", "open", "opened", "install", "bind", "refresh", "acquire", "bound"}
Attaching == {"attach", "nothing", "lock"} \union Locked
Answers == {"none", "ok", "canceled", "failed", "noconn"}

TypeOK ==
  /\ made \in 0..MaxReq
  /\ req \in [Ids -> [key : Keys \union {NoConfig, NoKey}, explicit : BOOLEAN, reply : Answers \union {"twice"}]]
  /\ abandoned \subseteq Ids /\ wakers \subseteq Ids /\ notifier \in BOOLEAN
  /\ pending \in 0..MaxReq /\ active \in 0..MaxReq /\ cur \in 0..MaxReq
  /\ lastKey \in Keys \union {NoConfig, NoKey} /\ wake \in BOOLEAN /\ stopped \in BOOLEAN
  /\ pc \in {"select", "claimed", "finish", "exit"} \union Attaching /\ canceled \in BOOLEAN /\ result \in Answers
  /\ state \in {"idle", "connecting", "ready", "failed", "stopped"}
  /\ curKey \in Keys \union {NoKey} /\ generation \in 0..MaxReq
  /\ dbConn \in 0..opened /\ opened \in 0..MaxReq /\ connKey \in [Ids -> Keys \union {NoKey}]
  /\ candidate \in 0..opened /\ old \in 0..opened /\ closed \subseteq 1..opened
  /\ metaLease \in 0..leases /\ boundGeneration \in 0..generation /\ leases \in 0..MaxReq
  /\ leaseKey \in [Ids -> Keys \union {NoKey}] /\ leaseAt \in 0..leases /\ released \subseteq 1..leases
  /\ subscribed \subseteq 1..leases /\ channelClosed \subseteq 1..leases /\ watchers \subseteq 1..leases
  /\ lifecycleDone \in BOOLEAN /\ stopping \in {"no", "canceled", "coordinator", "done"}
  /\ queue \in Seq(Ids) /\ Len(queue) <= QueueLen /\ queueClosed \in BOOLEAN
  /\ final \in 0..opened /\ worker \in 0..opened /\ cleanupDone \in BOOLEAN
  /\ query \in [Queries -> [at : {"idle", "checked", "running"}, conn : 0..MaxReq]]

Init ==
  /\ made = 0 /\ req = [i \in Ids |-> [key |-> NoKey, explicit |-> FALSE, reply |-> "none"]]
  /\ abandoned = {} /\ wakers = {} /\ notifier = FALSE
  /\ pending = 0 /\ active = 0 /\ lastKey = NoKey /\ wake = FALSE /\ stopped = FALSE
  /\ pc = "select" /\ cur = 0 /\ canceled = FALSE /\ result = "none"
  /\ state = "idle" /\ dbConn = 0 /\ curKey = NoKey /\ generation = 0
  /\ opened = 0 /\ connKey = [c \in Ids |-> NoKey] /\ candidate = 0 /\ old = 0 /\ closed = {}
  /\ metaLease = 0 /\ boundGeneration = 0 /\ leases = 0 /\ leaseKey = [l \in Ids |-> NoKey] /\ leaseAt = 0
  /\ released = {} /\ subscribed = {} /\ channelClosed = {} /\ watchers = {}
  /\ lifecycleDone = FALSE /\ stopping = "no" /\ queue = <<>> /\ queueClosed = FALSE /\ final = 0 /\ worker = 0
  /\ cleanupDone = FALSE
  /\ query = [q \in Queries |-> [at |-> "idle", conn |-> 0]]

\* stateMu is held from the last check of an attempt to its commit; every
\* other critical section of stateMu is one step.
StateMuFree == pc # "install"

\* A request's own context: the command's when explicit, else the server's.
IntentDone(i) == IF req[i].explicit THEN i \in abandoned ELSE lifecycleDone

\* The context the coordinator made for the attempt.
ContextDone == canceled \/ lifecycleDone

IsCurrent(i) == ~stopped /\ active = i /\ pending < i

\* The reply channel has room for one answer.
Answer(r, i, a) == [r EXCEPT ![i].reply = IF @ = "none" THEN a ELSE "twice"]

-----------------------------------------------------------------------------
(* Requests.                                                               *)

\* Slip: what the coordinator has already attached is not looked at.
CoalescesUnlessAttached(k) == IF pending # 0 THEN req[pending].key = k ELSE active # 0 /\ req[active].key = k
Coalesces(k) == IF pending # 0 THEN req[pending].key = k
                ELSE lastKey = k \/ (active # 0 /\ req[active].key = k)

Recorded(k, explicit) == [req EXCEPT ![made + 1].key = k, ![made + 1].explicit = explicit]

Replies(k, explicit, a) ==
  /\ req' = Answer(Recorded(k, explicit), made + 1, a) /\ made' = made + 1
  /\ UNCHANGED <<wakers, pending, canceled>>

RequestAfterStop(k, explicit) == stopped /\ Replies(k, explicit, "canceled")

RequestCoalesces(k, explicit) == ~stopped /\ ~explicit /\ Coalesces(k) /\ Replies(k, explicit, "ok")

\* Slip: a displaced request is forgotten.
DisplacedForgotten(r) == r
Displaced(r) == IF pending = 0 THEN r ELSE Answer(r, pending, "canceled")

\* It displaces a pending request and cancels the attempt under way.
RequestQueues(k, explicit) ==
  /\ ~stopped /\ (explicit \/ ~Coalesces(k))
  /\ req' = Displaced(Recorded(k, explicit))
  /\ made' = made + 1 /\ pending' = made + 1 /\ wakers' = wakers \union {made + 1}
  /\ canceled' = (canceled \/ (active # 0 /\ (explicit \/ req[active].key # k)))

Request(k, explicit) ==
  /\ made < MaxReq
  /\ RequestAfterStop(k, explicit) \/ RequestCoalesces(k, explicit) \/ RequestQueues(k, explicit)
  /\ UNCHANGED <<abandoned, active, lastKey, wake, stopped, pc, cur, result, serverVars, connVars, leaseVars, stopVars, query>>

\* handleInitialized and didChangeConfiguration look first, then request.
NotifierLooks ==
  /\ StateMuFree /\ ~notifier /\ dbConn = 0 /\ notifier' = TRUE
  /\ UNCHANGED <<made, req, abandoned, wakers, coordVars, runVars, serverVars, connVars, leaseVars, stopVars, query>>

Notify(k) == notifier /\ notifier' = FALSE /\ Request(k, FALSE)

Switch(k) == Request(k, TRUE) /\ UNCHANGED notifier

CommandCanceled(i) ==
  /\ i <= made /\ req[i].explicit /\ req[i].reply = "none" /\ i \notin abandoned
  /\ abandoned' = abandoned \union {i}
  /\ UNCHANGED <<made, req, wakers, notifier, coordVars, runVars, serverVars, connVars, leaseVars, stopVars, query>>

Wakes(i) ==
  /\ i \in wakers /\ wakers' = wakers \ {i} /\ wake' = TRUE
  /\ UNCHANGED <<made, req, abandoned, notifier, pending, active, lastKey, stopped, runVars, serverVars, connVars,
                 leaseVars, stopVars, query>>

-----------------------------------------------------------------------------
(* The coordinator's goroutine up to attachIntent.                         *)

\* connectionCoordinator.Stop
CoordinatorStop ==
  /\ stopped' = TRUE
  /\ pending' = IF stopped THEN pending ELSE 0
  /\ req' = IF stopped \/ pending = 0 THEN req ELSE Answer(req, pending, "canceled")
  /\ canceled' = (canceled \/ (~stopped /\ active # 0))
  /\ wake' = (wake \/ ~stopped)

RunEnds ==
  /\ pc = "select" /\ lifecycleDone /\ CoordinatorStop /\ pc' = "exit"
  /\ UNCHANGED <<made, abandoned, wakers, notifier, active, lastKey, cur, result, serverVars, connVars, leaseVars,
                 stopVars, query>>

PendingTaken == 0

RunClaims ==
  /\ pc = "select" /\ wake /\ wake' = FALSE
  /\ \/ stopped /\ pc' = "exit" /\ UNCHANGED <<pending, active, cur, canceled>>
     \/ ~stopped /\ pending = 0 /\ UNCHANGED <<pc, pending, active, cur, canceled>>
     \/ /\ ~stopped /\ pending # 0 /\ pc' = "claimed"
        /\ active' = pending /\ cur' = pending /\ pending' = PendingTaken /\ canceled' = FALSE
  /\ UNCHANGED <<reqVars, lastKey, stopped, result, serverVars, connVars, leaseVars, stopVars, query>>

\* The claim of an intent whose own context is done, or after Stop.
RunDrops ==
  /\ pc = "claimed"
  /\ \/ IntentDone(cur) /\ pc' = "select"
     \/ ~IntentDone(cur) /\ stopped /\ pc' = "exit"
  /\ active' = 0 /\ cur' = 0 /\ canceled' = FALSE /\ req' = Answer(req, cur, "canceled")
  /\ UNCHANGED <<made, abandoned, wakers, notifier, pending, lastKey, wake, stopped, result, serverVars,
                 connVars, leaseVars, stopVars, query>>

RunAttaches ==
  /\ pc = "claimed" /\ ~IntentDone(cur) /\ ~stopped /\ pc' = "attach"
  /\ UNCHANGED <<reqVars, coordVars, cur, canceled, result, serverVars, connVars, leaseVars, stopVars, query>>

\* context.AfterFunc: the intent's context ends the attempt's.
AfterFunc ==
  /\ pc \in Attaching /\ IntentDone(cur) /\ ~canceled /\ canceled' = TRUE
  /\ UNCHANGED <<reqVars, coordVars, pc, cur, result, serverVars, connVars, leaseVars, stopVars, query>>

\* Only an attempt that was not cancelled is remembered.
LastKey == IF result = "canceled" THEN lastKey ELSE req[cur].key

RunAnswers ==
  /\ pc = "finish" /\ pc' = "select" /\ active' = 0 /\ lastKey' = LastKey /\ cur' = 0
  /\ result' = "none" /\ canceled' = FALSE /\ req' = Answer(req, cur, result)
  /\ UNCHANGED <<made, abandoned, wakers, notifier, pending, wake, stopped, serverVars, connVars,
                 leaseVars, stopVars, query>>

-----------------------------------------------------------------------------
(* attachIntent.                                                           *)

Finish(a) == pc' = "finish" /\ result' = a

Goes(to) == pc' = to /\ UNCHANGED result

AttachBegins ==
  /\ pc = "attach"
  /\ \/ ContextDone /\ Finish("canceled")
     \/ ~ContextDone /\ Goes(IF req[cur].key = NoConfig THEN "nothing" ELSE "lock")
  /\ UNCHANGED <<reqVars, coordVars, cur, canceled, serverVars, connVars, leaseVars, stopVars, query>>

AttachNothing ==
  /\ pc = "nothing" /\ state' = "idle" /\ Finish("noconn")
  /\ UNCHANGED <<reqVars, coordVars, cur, canceled, dbConn, curKey, generation, connVars, leaseVars, stopVars, query>>

\* Slip: the write lock does not wait for the queries.
AttachLocksAtOnce ==
  /\ pc = "lock" /\ Goes("locked")
  /\ UNCHANGED <<reqVars, coordVars, cur, canceled, serverVars, connVars, leaseVars, stopVars, query>>

AttachLocks ==
  /\ pc = "lock" /\ \A q \in Queries : query[q].at = "idle"
  /\ Goes("locked")
  /\ UNCHANGED <<reqVars, coordVars, cur, canceled, serverVars, connVars, leaseVars, stopVars, query>>

Superseded == ContextDone \/ IntentDone(cur) \/ ~IsCurrent(cur) \/ state = "stopped"

AttachDetaches ==
  /\ pc = "locked"
  /\ \/ /\ Superseded /\ Finish("canceled") /\ UNCHANGED <<serverVars, old>>
     \/ /\ ~Superseded /\ Goes("enqueue")
        /\ generation' = generation + 1 /\ state' = "connecting" /\ curKey' = req[cur].key
        /\ old' = dbConn /\ dbConn' = 0
  /\ UNCHANGED <<reqVars, coordVars, cur, canceled, opened, connKey, candidate, closed, leaseVars, stopVars, query>>

\* Slip: a full queue drops the connection.
AttachHandsOverOrDrops ==
  /\ pc = "enqueue" /\ Goes("open") /\ old' = 0
  /\ queue' = IF old = 0 \/ Len(queue) = QueueLen THEN queue ELSE Append(queue, old)
  /\ UNCHANGED <<reqVars, coordVars, cur, canceled, serverVars, opened, connKey, candidate, closed, leaseVars,
                 lifecycleDone, stopping, queueClosed, final, worker, cleanupDone, query>>

AttachHandsOver ==
  /\ pc = "enqueue" /\ Goes("open") /\ old' = 0
  /\ \/ old = 0 /\ UNCHANGED queue
     \/ old # 0 /\ Len(queue) < QueueLen /\ queue' = Append(queue, old)
  /\ UNCHANGED <<reqVars, coordVars, cur, canceled, serverVars, opened, connKey, candidate, closed, leaseVars,
                 lifecycleDone, stopping, queueClosed, final, worker, cleanupDone, query>>

OpenReturns ==
  /\ pc = "open" /\ Goes("opened")
  /\ opened' = opened + 1 /\ connKey' = [connKey EXCEPT ![opened'] = curKey] /\ candidate' = opened'
  /\ UNCHANGED <<reqVars, coordVars, cur, canceled, serverVars, old, closed, leaseVars, stopVars, query>>

StateGivenUp(to) == IF state = "stopped" THEN state ELSE to

\* The driver's error; only an attempt that was cancelled returns Canceled.
OpenFails ==
  /\ pc = "open"
  /\ \/ ContextDone /\ Finish("canceled")
     \/ Finish("failed")
  /\ state' = StateGivenUp(IF ContextDone \/ IntentDone(cur) THEN "idle" ELSE "failed")
  /\ UNCHANGED <<reqVars, coordVars, cur, canceled, dbConn, curKey, generation, connVars, leaseVars, stopVars, query>>

CandidateClosed == closed \union {candidate}

AttachGivesUp ==
  /\ pc = "opened" /\ Superseded /\ Finish("canceled")
  /\ state' = StateGivenUp("idle") /\ closed' = CandidateClosed /\ candidate' = 0
  /\ UNCHANGED <<reqVars, coordVars, cur, canceled, dbConn, curKey, generation, opened, connKey, old, leaseVars, stopVars,
                 query>>

AttachChecks ==
  /\ pc = "opened" /\ ~Superseded /\ Goes("install")
  /\ UNCHANGED <<reqVars, coordVars, cur, canceled, serverVars, connVars, leaseVars, stopVars, query>>

AttachInstalls ==
  /\ pc = "install" /\ Goes("bind")
  /\ dbConn' = candidate /\ candidate' = 0 /\ state' = "ready"
  /\ UNCHANGED <<reqVars, coordVars, cur, canceled, curKey, generation, opened, connKey, old, closed, leaseVars, stopVars,
                 query>>

-----------------------------------------------------------------------------
(* bindMetadata, and what becomes of leases.                               *)

\* Slip: any bound lease will do.
SameTargetAny == req[cur].explicit /\ metaLease # 0
\* An explicit reselect of the target the bound lease serves.
SameTarget == req[cur].explicit /\ metaLease # 0 /\ leaseKey[metaLease] = req[cur].key

\* Release the leases in ls and end their subscriptions.
Gives(ls) == released' = released \union ls /\ subscribed' = subscribed \ ls

\* recordMetadataAcquireFailure
AcquireFailed ==
  /\ IF state = "ready"
     THEN metaLease' = 0 /\ boundGeneration' = generation /\ Gives({metaLease} \ {0})
     ELSE UNCHANGED <<metaLease, boundGeneration, released, subscribed>>
  /\ Finish("ok")
  /\ UNCHANGED <<reqVars, coordVars, cur, canceled, serverVars, connVars, leases, leaseKey, leaseAt, channelClosed, watchers,
                 stopVars, query>>

TargetUnresolved == pc = "bind" /\ AcquireFailed

BindChooses ==
  /\ pc = "bind"
  /\ Goes(IF SameTarget THEN "refresh" ELSE "acquire")
  /\ leaseAt' = IF SameTarget THEN metaLease ELSE 0
  /\ UNCHANGED <<reqVars, coordVars, cur, canceled, serverVars, connVars, metaLease, boundGeneration, leases, leaseKey,
                 released, subscribed, channelClosed, watchers, stopVars, query>>

\* However the refresh ended.
BoundByRefresh == IF state = "ready" /\ metaLease = leaseAt THEN generation ELSE boundGeneration

RefreshReturns ==
  /\ pc = "refresh" /\ Finish("ok") /\ boundGeneration' = BoundByRefresh /\ leaseAt' = 0
  /\ UNCHANGED <<reqVars, coordVars, cur, canceled, serverVars, connVars, metaLease, leases, leaseKey, released, subscribed,
                 channelClosed, watchers, stopVars, query>>

AcquireFails == pc = "acquire" /\ AcquireFailed

AcquireReturns ==
  /\ pc = "acquire" /\ Goes("bound")
  /\ leases' = leases + 1 /\ leaseKey' = [leaseKey EXCEPT ![leases'] = req[cur].key] /\ leaseAt' = leases'
  /\ subscribed' = subscribed \union {leases'}
  /\ UNCHANGED <<reqVars, coordVars, cur, canceled, serverVars, connVars, metaLease, boundGeneration, released,
                 channelClosed, watchers, stopVars, query>>

\* Stop came first: the new lease is given back.
BindAbandons ==
  /\ state # "ready" /\ Gives({leaseAt})
  /\ UNCHANGED <<metaLease, boundGeneration, watchers>>

BindReplaces ==
  /\ state = "ready"
  /\ metaLease' = leaseAt /\ boundGeneration' = generation /\ watchers' = watchers \union {leaseAt}
  /\ Gives({metaLease} \ {0})

BindCommits ==
  /\ pc = "bound" /\ Finish("ok") /\ leaseAt' = 0
  /\ BindAbandons \/ BindReplaces
  /\ UNCHANGED <<reqVars, coordVars, cur, canceled, serverVars, connVars, leases, leaseKey, channelClosed, stopVars, query>>

\* A store without leases, or any store once the server stops, is torn down
\* and closes the channels that are still subscribed.
HubCloses(k) ==
  LET of == {l \in 1..leases : leaseKey[l] = k} IN
  /\ lifecycleDone \/ of \subseteq released
  /\ (of \intersect subscribed) \ channelClosed # {}
  /\ channelClosed' = channelClosed \union (of \intersect subscribed)
  /\ UNCHANGED <<reqVars, coordVars, runVars, serverVars, connVars, metaLease, boundGeneration, leases, leaseKey, leaseAt,
                 released, subscribed, watchers, stopVars, query>>

\* watchMetadataEvents
WatcherReturns(l) ==
  /\ l \in watchers /\ (l \in channelClosed \/ lifecycleDone) /\ watchers' = watchers \ {l}
  /\ UNCHANGED <<reqVars, coordVars, runVars, serverVars, connVars, metaLease, boundGeneration, leases, leaseKey, leaseAt,
                 released, subscribed, channelClosed, stopVars, query>>

-----------------------------------------------------------------------------
(* Stop and the cleanup worker.                                            *)

StopCancels ==
  /\ MayStop /\ stopping = "no" /\ stopping' = "canceled" /\ lifecycleDone' = TRUE
  /\ UNCHANGED <<reqVars, coordVars, runVars, serverVars, connVars, leaseVars, queue, queueClosed, final, worker,
                 cleanupDone, query>>

StopCoordinator ==
  /\ stopping = "canceled" /\ stopping' = "coordinator" /\ CoordinatorStop
  /\ UNCHANGED <<made, abandoned, wakers, notifier, active, lastKey, pc, cur, result, serverVars, connVars, leaseVars,
                 lifecycleDone, queue, queueClosed, final, worker, cleanupDone, query>>

\* What follows the unlock works on what the step has just taken: the lease
\* is released and the connection sent to cleanupFinal.
StopDetaches ==
  /\ stopping = "coordinator" /\ StateMuFree /\ stopping' = "done"
  /\ state' = "stopped" /\ dbConn' = 0 /\ final' = dbConn
  /\ metaLease' = 0 /\ Gives({metaLease} \ {0})
  /\ UNCHANGED <<reqVars, coordVars, runVars, curKey, generation, connVars, boundGeneration, leases, leaseKey, leaseAt,
                 channelClosed, watchers, lifecycleDone, queue, queueClosed, worker, cleanupDone, query>>

QueueCloses ==
  /\ stopping = "done" /\ pc = "exit" /\ ~queueClosed /\ queueClosed' = TRUE
  /\ UNCHANGED <<reqVars, coordVars, runVars, serverVars, connVars, leaseVars, lifecycleDone, stopping, queue, final,
                 worker, cleanupDone, query>>

WorkerTakes ==
  /\ queue # <<>> /\ worker = 0 /\ worker' = Head(queue) /\ queue' = Tail(queue)
  /\ UNCHANGED <<reqVars, coordVars, runVars, serverVars, connVars, leaseVars, lifecycleDone, stopping, queueClosed,
                 final, cleanupDone, query>>

WorkerCloses ==
  /\ worker # 0 /\ worker' = 0 /\ closed' = closed \union {worker}
  /\ UNCHANGED <<reqVars, coordVars, runVars, serverVars, opened, connKey, candidate, old, leaseVars, lifecycleDone,
                 stopping, queue, queueClosed, final, cleanupDone, query>>

\* Slip: Stop sends nothing when there is no connection.
WorkerMayFinishUnlessNone == queueClosed /\ queue = <<>> /\ worker = 0 /\ final # 0
\* Slip: the worker ends as soon as Stop has sent the last connection.
WorkerMayFinishEarly == stopping = "done" /\ queue = <<>> /\ worker = 0
WorkerMayFinish == queueClosed /\ queue = <<>> /\ worker = 0

WorkerFinishes ==
  /\ ~cleanupDone /\ WorkerMayFinish /\ stopping = "done"
  /\ closed' = closed \union ({final} \ {0}) /\ final' = 0 /\ cleanupDone' = TRUE
  /\ UNCHANGED <<reqVars, coordVars, runVars, serverVars, opened, connKey, candidate, old, leaseVars, lifecycleDone,
                 stopping, queue, queueClosed, worker, query>>

-----------------------------------------------------------------------------
(* Commands that use the connection (acquireReadyConnection).              *)

UnlessQuery == <<reqVars, coordVars, runVars, serverVars, connVars, leaseVars, stopVars>>

\* TryRLock fails while the coordinator holds connMu or waits for it.
QueryStarts(q) ==
  /\ query[q].at = "idle" /\ pc \notin Locked \union {"lock"} /\ StateMuFree
  /\ state = "ready" /\ dbConn # 0
  /\ query' = [query EXCEPT ![q].at = "checked"] /\ UNCHANGED UnlessQuery

\* newDBRepository reads dbConn again, under a stateMu of its own.
QueryTakes(q) ==
  /\ query[q].at = "checked" /\ StateMuFree
  /\ query' = [query EXCEPT ![q] = [at |-> IF dbConn = 0 THEN "idle" ELSE "running", conn |-> dbConn]]
  /\ UNCHANGED UnlessQuery

QueryEnds(q) ==
  /\ query[q].at = "running" /\ query' = [query EXCEPT ![q] = [at |-> "idle", conn |-> 0]] /\ UNCHANGED UnlessQuery

Done == made = MaxReq /\ (cleanupDone \/ (~MayStop /\ pc = "select" /\ ~wake)) /\ UNCHANGED vars

Coordinator ==
  \/ RunEnds \/ RunClaims \/ RunDrops \/ RunAttaches \/ RunAnswers
  \/ AttachBegins \/ AttachNothing \/ AttachLocks \/ AttachDetaches \/ AttachHandsOver
  \/ AttachGivesUp \/ AttachChecks \/ AttachInstalls
  \/ OpenReturns \/ OpenFails
  \/ TargetUnresolved \/ BindChooses \/ RefreshReturns \/ AcquireFails \/ AcquireReturns \/ BindCommits

StopGoesOn == StopCoordinator \/ StopDetaches \/ QueueCloses

CleanupWorker == WorkerTakes \/ WorkerCloses \/ WorkerFinishes

Next ==
  \/ \E k \in Asked : Notify(k) \/ Switch(k)
  \/ \E i \in Ids : CommandCanceled(i) \/ Wakes(i)
  \/ NotifierLooks \/ AfterFunc \/ Coordinator
  \/ (\E k \in Keys : HubCloses(k)) \/ (\E l \in Ids : WatcherReturns(l))
  \/ StopCancels \/ StopGoesOn \/ CleanupWorker
  \/ \E q \in Queries : QueryStarts(q) \/ QueryTakes(q) \/ QueryEnds(q)
  \/ Done

\* Goroutines that can run do; a driver's open, a registry call and a query
\* return.  Nobody has to ask, cancel or stop.
Fairness ==
  /\ \A i \in Ids : WF_vars(Wakes(i))
  /\ WF_vars(AfterFunc) /\ WF_vars(Coordinator)
  /\ \A k \in Keys : WF_vars(HubCloses(k))
  /\ \A l \in Ids : WF_vars(WatcherReturns(l))
  /\ WF_vars(StopGoesOn) /\ WF_vars(CleanupWorker)
  /\ \A q \in Queries : WF_vars(QueryTakes(q)) /\ WF_vars(QueryEnds(q))

Spec == Init /\ [][Next]_vars

FairSpec == Spec /\ Fairness

-----------------------------------------------------------------------------
(* Properties.                                                             *)

Holders == <<dbConn, candidate, old, final, worker>> \o queue

\* Every connection a driver opened is in one place, from the candidate of
\* attachIntent to its Close: none is in two hands, none is dropped and none closed
\* that somebody still has.  A lease is held for the server, being bound, or released.
ConnectionsAccounted ==
  /\ LET has == Holders IN
     /\ \A g, h \in DOMAIN has : g # h /\ has[g] # 0 => has[g] # has[h]
     /\ closed = (1..opened) \ {has[h] : h \in DOMAIN has}
  /\ \A l \in 1..leases : l \in released <=> ~(l = metaLease \/ (pc = "bound" /\ l = leaseAt))

\* When cleanupDone is closed every connection is closed and every lease
\* released, whatever the coordinator was doing when Stop came.
CleanupIsComplete == cleanupDone => closed = 1..opened /\ released = 1..leases

\* No connection and no lease is lost or closed twice, whatever the requests
\* displace and however full the cleanup queue is (attachIntent), and Stop's
\* cleanup ends with every one of them closed or released (cleanupConnections).
NothingLeaks == ConnectionsAccounted /\ CleanupIsComplete

\* Connections are replaced under connMu: until Stop, a running query's
\* connection is the server's, and open.
QueryKeepsConnection ==
  \A q \in DOMAIN query :
    query[q].at = "running" /\ ~lifecycleDone => query[q].conn = dbConn /\ query[q].conn \notin closed

\* The metadata reported for the current generation is that of the
\* connection it belongs to (metadataStatus compares the generations).
\* A ready connection whose attempt has ended has had its metadata bound, or
\* its failure recorded: the status is not "never attempted".
MetadataOfConnection ==
  /\ boundGeneration = generation /\ metaLease # 0 => leaseKey[metaLease] = curKey
  /\ pc = "select" /\ state = "ready" => boundGeneration = generation

Quiet == pc = "select" /\ pending = 0 /\ ~wake /\ wakers = {} /\ ~notifier /\ ~lifecycleDone

\* A switch that was answered with success, and was followed by nothing but
\* notifications for the same connection, is what the server ends up with.
SwitchTakes ==
  Quiet => \A i \in 1..made :
    /\ req[i].explicit /\ req[i].reply = "ok"
    /\ \A j \in (i + 1)..made : ~req[j].explicit /\ req[j].key = req[i].key
    => state = "ready" /\ dbConn # 0 /\ connKey[dbConn] = req[i].key

\* Every request is answered, whoever settles it: the caller, a newer request,
\* Stop or the coordinator.  It is answered once: a second send on the one-slot
\* channel would block the sender for good.
EveryRequestAnswered == \A i \in Ids : (i <= made) ~> [](req[i].reply \notin {"none", "twice"})

\* Stop ends the coordinator, and the worker closes what is left.
StopEndsCleanup == lifecycleDone ~> cleanupDone

\* Under backpressure and replacement alike: a running query keeps its
\* connection, and the metadata reported for it is that connection's (connMu,
\* bindMetadata).
QueriesMatch == QueryKeepsConnection /\ MetadataOfConnection

\* Every request is answered, once, and Stop leads to the end of the cleanup.
AnsweredAndCleanedUp == EveryRequestAnswered /\ StopEndsCleanup

=============================================================================
