--------------------- MODULE ConnectionCoordinator_proofs ---------------------
(***************************************************************************)
(* Proofs about the coordinator, for any number of requests, connections,  *)
(* leases and queries and any capacity of the cleanup queue: no connection *)
(* and no lease is lost or closed in somebody's hands; what a query runs   *)
(* on, and what the metadata is reported for, is the connection of the     *)
(* server; and the last switch answered with success is what remains.      *)
(***************************************************************************)
EXTENDS ConnectionCoordinator, SequenceTheorems, TLAPS

-----------------------------------------------------------------------------
(* The inductive invariant.                                                *)

\* A request is attempted once, in the order of the numbers; an attempt opens at most
\* one connection and binds at most one lease.
Numbered ==
  /\ \A i \in 1..made : req[i].key \in Keys \union {NoConfig}
  /\ pending <= made /\ cur <= made /\ generation <= made
  /\ pending # 0 => generation < pending /\ cur < pending
  /\ pc \in {"claimed", "finish"} \union Attaching => cur # 0
  /\ pc \in {"claimed", "attach", "nothing", "lock", "locked"} => generation < cur
  /\ opened <= generation /\ (pc \in {"enqueue", "open"} => opened < generation)
  /\ leases <= generation
  /\ pc \in {"enqueue", "open", "opened", "install", "bind", "refresh", "acquire"} => leases < generation

\* Where the coordinator's goroutine is says which hands are empty; a stopped server
\* has given up its connection and its lease.
HandsEmpty ==
  /\ pc \notin {"opened", "install"} => candidate = 0
  /\ pc \in {"opened", "install"} => candidate # 0
  /\ pc # "enqueue" => old = 0
  /\ pc \in {"enqueue", "open", "opened", "install"} => dbConn = 0 /\ state # "ready"
  /\ stopping # "done" => final = 0
  /\ stopping # "no" => lifecycleDone
  /\ stopping = "done" => pc # "install" /\ state # "ready" /\ dbConn = 0 /\ metaLease = 0
  /\ queueClosed => stopping = "done" /\ pc = "exit"
  /\ cleanupDone => queueClosed /\ queue = <<>> /\ worker = 0 /\ final = 0

\* Nobody else has the connection in the coordinator's hands, nor that of the worker or
\* those in the queue.
InQueue(c) == \E n \in 1..Len(queue) : queue[n] = c
Apart ==
  /\ queue \in Seq(1..opened)
  /\ \A c \in {dbConn, candidate, old} : c # 0 => c # final /\ c # worker /\ ~InQueue(c)
  /\ final # 0 => final # worker /\ ~InQueue(final)
  /\ worker # 0 => ~InQueue(worker)
  /\ \A m, n \in 1..Len(queue) : queue[m] = queue[n] => m = n
  /\ \A c \in 1..opened : c \in closed <=> c \notin {dbConn, candidate, old, final, worker} /\ ~InQueue(c)

\* A lease is the server's, being bound, or released.
LeasesKept ==
  /\ pc = "bound" => leaseAt # 0 /\ leaseAt # metaLease
  /\ \A l \in 1..leases : l \in released <=> ~(l = metaLease \/ (pc = "bound" /\ l = leaseAt))

\* A query that has its read lock keeps the coordinator out.
QueriesLock ==
  \A q \in Queries :
    /\ query[q].at # "idle" => pc \notin Locked
    /\ query[q].at = "running" /\ ~lifecycleDone => query[q].conn = dbConn /\ dbConn # 0

\* The attempt is for the connection its request asked for, and the lease it is about
\* to bind is for that connection; until it is bound the generation is not.
Binding == {"bind", "refresh", "acquire", "bound"}
MetadataFollows ==
  /\ pc \in {"lock"} \union Locked => req[cur].key \in Keys
  /\ pc \in {"enqueue", "open", "opened", "install"} \union Binding => curKey = req[cur].key
  /\ pc = "bound" => leaseKey[leaseAt] = curKey
  /\ pc = "refresh" => leaseAt # 0 /\ leaseKey[leaseAt] = curKey /\ (state = "ready" => metaLease = leaseAt)
  /\ boundGeneration = generation /\ metaLease # 0 => leaseKey[metaLease] = curKey
  /\ state = "ready" /\ pc \notin Binding => boundGeneration = generation

CInv == TypeOK /\ Numbered /\ HandsEmpty /\ Apart /\ LeasesKept /\ QueriesLock /\ MetadataFollows

-----------------------------------------------------------------------------
(* The coordinator starts with empty hands.                                *)

\* Nothing is opened, asked or bound.
LEMMA InitInv == Init => CInv
<1> SUFFICES ASSUME Init PROVE CInv
  OBVIOUS
<1>1. MaxReq \in Nat \ {0} /\ QueueLen \in Nat \ {0}
  BY CoordinatorAssumption
<1>2. req \in [Ids -> [key : Keys \union {NoConfig, NoKey}, explicit : BOOLEAN, reply : Answers \union {"twice"}]]
  BY DEF Init, Answers
<1>3. notifier \in BOOLEAN /\ wake \in BOOLEAN /\ stopped \in BOOLEAN /\ canceled \in BOOLEAN
      /\ lifecycleDone \in BOOLEAN /\ queueClosed \in BOOLEAN /\ cleanupDone \in BOOLEAN
  BY DEF Init
<1>4. query \in [Queries -> [at : {"idle", "checked", "running"}, conn : 0..MaxReq]]
  BY <1>1 DEF Init
<1>5. TypeOK
  BY <1>1, <1>2, <1>3, <1>4 DEF Init, TypeOK, Answers
<1>6. Numbered /\ HandsEmpty /\ LeasesKept
  BY <1>1 DEF Init, Numbered, HandsEmpty, LeasesKept, Attaching, Locked
<1>7. Apart
  BY DEF Init, Apart, InQueue
<1>8. QueriesLock /\ MetadataFollows
  BY DEF Init, QueriesLock, MetadataFollows, Locked, Binding
<1> QED
  BY <1>5, <1>6, <1>7, <1>8 DEF CInv

-----------------------------------------------------------------------------
(* What a step may do to the requests.                                     *)

Reqs == [Ids -> [key : Keys \union {NoConfig, NoKey}, explicit : BOOLEAN, reply : Answers \union {"twice"}]]

\* An answer leaves what was asked as it is.
LEMMA AnswerKeeps ==
  ASSUME NEW r \in Reqs, NEW i, NEW a \in Answers
  PROVE  /\ Answer(r, i, a) \in Reqs
         /\ \A j \in Ids : Answer(r, i, a)[j].key = r[j].key /\ Answer(r, i, a)[j].explicit = r[j].explicit
<1>1. CASE i \notin Ids
  BY <1>1 DEF Answer, Reqs
<1>2. CASE i \in Ids
  <2>1. r[i] \in [key : Keys \union {NoConfig, NoKey}, explicit : BOOLEAN, reply : Answers \union {"twice"}]
    BY <1>2 DEF Reqs
  <2> DEFINE n == [r[i] EXCEPT !.reply = IF @ = "none" THEN a ELSE "twice"]
  <2>2. n \in [key : Keys \union {NoConfig, NoKey}, explicit : BOOLEAN, reply : Answers \union {"twice"}]
        /\ n.key = r[i].key /\ n.explicit = r[i].explicit
    BY <2>1
  <2>3. Answer(r, i, a) = [r EXCEPT ![i] = n]
    BY <1>2 DEF Answer, Reqs
  <2> HIDE DEF n
  <2> QED
    BY <1>2, <2>2, <2>3 DEF Reqs
<1> QED
  BY <1>1, <1>2

\* A new request is recorded under the next number.
LEMMA RecordedKeeps ==
  ASSUME CInv, made < MaxReq, NEW k \in Asked, NEW explicit \in BOOLEAN
  PROVE  /\ made + 1 \in Ids
         /\ Recorded(k, explicit) \in Reqs
         /\ Recorded(k, explicit)[made + 1].key \in Keys \union {NoConfig}
         /\ \A j \in 1..made : Recorded(k, explicit)[j].key = req[j].key
<1>1. made \in 0..MaxReq /\ MaxReq \in Nat /\ req \in Reqs
  BY CoordinatorAssumption DEF CInv, TypeOK, Reqs
<1>2. k \in Keys \union {NoConfig}
  BY CoordinatorAssumption
<1> PICK i \in Ids : i = made + 1
  BY <1>1 DEF Ids
<1>3. req[i] \in [key : Keys \union {NoConfig, NoKey}, explicit : BOOLEAN, reply : Answers \union {"twice"}]
  BY <1>1 DEF Reqs
<1> DEFINE n == [[req[i] EXCEPT !.key = k] EXCEPT !.explicit = explicit]
<1>4. n \in [key : Keys \union {NoConfig, NoKey}, explicit : BOOLEAN, reply : Answers \union {"twice"}] /\ n.key = k
  BY <1>2, <1>3
<1>5. Recorded(k, explicit) = [req EXCEPT ![i] = n]
  BY <1>1 DEF Recorded, Reqs
<1> HIDE DEF n
<1>6. \A j \in 1..made : j \in Ids /\ j # i
  BY <1>1 DEF Ids
<1> QED
  BY <1>1, <1>2, <1>4, <1>5, <1>6 DEF Reqs

\* A step that touches neither connections nor leases, and takes the coordinator no
\* further than to the lock.
Free == {"select", "claimed", "attach", "nothing", "lock", "finish"}

\* Such a step keeps what is said about connections, queries and leases.
LEMMA BookkeepingInv ==
  ASSUME CInv, TypeOK', Numbered',
         UNCHANGED <<dbConn, curKey, generation, connVars, leaseVars, stopVars, query>>,
         state' \in {state, "idle"},
         \A i \in 1..made : req'[i].key = req[i].key,
         \/ pc' = pc /\ cur' = cur
         \/ /\ pc \in Free /\ pc' \in Free \union {"locked", "exit"}
            /\ pc' = "lock" => req'[cur'].key \in Keys
            /\ pc' = "locked" => pc = "lock" /\ cur' = cur /\ \A q \in Queries : query[q].at = "idle"
  PROVE  CInv'
<1>1. UNCHANGED <<opened, connKey, candidate, old, closed, metaLease, boundGeneration, leases, leaseKey, leaseAt,
                  released, lifecycleDone, stopping, queue, queueClosed, final, worker, cleanupDone>>
  BY DEF connVars, leaseVars, stopVars
<1>2. Apart'
  BY <1>1 DEF CInv, Apart, InQueue
<1>3. HandsEmpty'
  BY <1>1 DEF CInv, HandsEmpty, Free
<1>4. LeasesKept'
  BY <1>1 DEF CInv, LeasesKept, Free
<1>5. QueriesLock'
  BY <1>1 DEF CInv, QueriesLock, Free, Locked
<1>6. MetadataFollows'
  <2>1. cur \in 0..made /\ (cur # 0 => req'[cur].key = req[cur].key)
    BY CoordinatorAssumption DEF CInv, TypeOK, Numbered
  <2>2. pc \in {"claimed", "finish"} \union Attaching => cur # 0
    BY DEF CInv, Numbered
  <2>3. CASE pc' = pc /\ cur' = cur
    BY <1>1, <2>1, <2>2, <2>3 DEF CInv, MetadataFollows, Binding, Locked, Attaching
  <2>4. CASE /\ pc \in Free /\ pc' \in Free \union {"locked", "exit"}
             /\ pc' = "lock" => req'[cur'].key \in Keys
             /\ pc' = "locked" => pc = "lock" /\ cur' = cur
    BY <1>1, <2>1, <2>2, <2>4 DEF CInv, MetadataFollows, Binding, Locked, Free, Attaching
  <2> QED
    BY <2>3, <2>4
<1> QED
  BY <1>2, <1>3, <1>4, <1>5, <1>6 DEF CInv

-----------------------------------------------------------------------------
(* Requests.                                                               *)

\* A request is answered at once or becomes the pending one, under the next number.
LEMMA RequestInv ==
  ASSUME CInv, NEW k \in Asked, NEW explicit \in BOOLEAN, Request(k, explicit), notifier' \in BOOLEAN
  PROVE  CInv'
<1>1. /\ made < MaxReq
      /\ UNCHANGED <<abandoned, active, lastKey, wake, stopped, pc, cur, result, serverVars, connVars, leaseVars, stopVars, query>>
  BY DEF Request
<1>2. made \in 0..MaxReq /\ MaxReq \in Nat /\ req \in Reqs /\ pending \in 0..MaxReq /\ wakers \in SUBSET Ids
      /\ canceled \in BOOLEAN /\ generation \in Nat /\ cur \in 0..MaxReq
  BY CoordinatorAssumption DEF CInv, TypeOK, Reqs
<1>3. /\ made + 1 \in Ids /\ Recorded(k, explicit) \in Reqs
      /\ Recorded(k, explicit)[made + 1].key \in Keys \union {NoConfig}
      /\ \A j \in 1..made : Recorded(k, explicit)[j].key = req[j].key
  BY <1>1, RecordedKeeps
<1>4. \E r \in {Recorded(k, explicit), Displaced(Recorded(k, explicit))} \union
              {Answer(Recorded(k, explicit), made + 1, a) : a \in Answers} : req' = r
  BY DEF Request, RequestAfterStop, RequestCoalesces, RequestQueues, Replies, Answers
<1>5. /\ req' \in Reqs /\ req'[made + 1].key \in Keys \union {NoConfig}
      /\ \A j \in 1..made : req'[j].key = req[j].key
  <2>1. \A i, a \in Answers :
          /\ Answer(Recorded(k, explicit), i, a) \in Reqs
          /\ \A j \in Ids : Answer(Recorded(k, explicit), i, a)[j].key = Recorded(k, explicit)[j].key
    BY <1>3, AnswerKeeps
  <2>2. \A i : \A a \in Answers :
          /\ Answer(Recorded(k, explicit), i, a) \in Reqs
          /\ \A j \in Ids : Answer(Recorded(k, explicit), i, a)[j].key = Recorded(k, explicit)[j].key
    BY <1>3, AnswerKeeps
  <2>3. /\ Displaced(Recorded(k, explicit)) \in Reqs
        /\ \A j \in Ids : Displaced(Recorded(k, explicit))[j].key = Recorded(k, explicit)[j].key
    BY <1>3, <2>2 DEF Displaced, Answers
  <2>4. \A j \in 1..made : j \in Ids
    BY <1>2 DEF Ids
  <2> QED
    BY <1>3, <1>4, <2>2, <2>3, <2>4
<1>6. /\ made' = made + 1 /\ pending' \in {pending, made + 1} /\ wakers' \in SUBSET Ids /\ canceled' \in BOOLEAN
  BY <1>2, <1>3 DEF Request, RequestAfterStop, RequestCoalesces, RequestQueues, Replies
<1>7. made + 1 \in 0..MaxReq
  BY <1>1, <1>2
<1>8. TypeOK'
  BY <1>1, <1>2, <1>5, <1>6, <1>7 DEF CInv, TypeOK, Reqs, serverVars, connVars, leaseVars, stopVars
<1>9. Numbered'
  <2>1. \A i \in 1..made' : req'[i].key \in Keys \union {NoConfig}
    BY <1>2, <1>5, <1>6 DEF CInv, Numbered
  <2>2. UNCHANGED <<generation, pc, cur, opened, leases>>
    BY <1>1 DEF serverVars, connVars, leaseVars
  <2>3. /\ pending' <= made' /\ cur <= made' /\ generation <= made'
        /\ pending' # 0 => generation < pending' /\ cur < pending'
    BY <1>2, <1>6 DEF CInv, Numbered
  <2> QED
    BY <2>1, <2>2, <2>3 DEF CInv, Numbered
<1> QED
  BY <1>1, <1>5, <1>8, <1>9, BookkeepingInv DEF serverVars

\* The read loop, cancelled commands and signals.
LEMMA AroundRequestsInv ==
  ASSUME CInv, \/ NotifierLooks
               \/ \E k \in Asked : Notify(k) \/ Switch(k)
               \/ \E i \in Ids : CommandCanceled(i) \/ Wakes(i)
  PROVE  CInv'
<1>1. CASE \E k \in Asked : Notify(k) \/ Switch(k)
  <2> PICK k \in Asked : Notify(k) \/ Switch(k)
    BY <1>1
  <2>1. notifier' \in BOOLEAN
    BY DEF Notify, Switch, CInv, TypeOK
  <2>2. \E explicit \in BOOLEAN : Request(k, explicit)
    BY DEF Notify, Switch
  <2> QED
    BY <2>1, <2>2, RequestInv
<1>2. CASE NotifierLooks \/ \E i \in Ids : CommandCanceled(i) \/ Wakes(i)
  <2>1. UNCHANGED <<made, req, pending, active, lastKey, stopped, runVars, serverVars, connVars, leaseVars, stopVars, query>>
    BY <1>2 DEF NotifierLooks, CommandCanceled, Wakes, coordVars
  <2>2. abandoned' \in SUBSET Ids /\ wakers' \in SUBSET Ids /\ notifier' \in BOOLEAN /\ wake' \in BOOLEAN
    BY <1>2 DEF CInv, TypeOK, NotifierLooks, CommandCanceled, Wakes, coordVars
  <2>3. TypeOK'
    BY <2>1, <2>2 DEF CInv, TypeOK, runVars, serverVars, connVars, leaseVars, stopVars
  <2>4. Numbered'
    BY <2>1 DEF CInv, Numbered, runVars, serverVars, connVars, leaseVars
  <2> QED
    BY <2>1, <2>3, <2>4, BookkeepingInv DEF serverVars, runVars
<1> QED
  BY <1>1, <1>2

-----------------------------------------------------------------------------
(* The coordinator up to the lock, and what Stop tells it.                 *)

\* Where the coordinator goes next as far as connections do not matter.
LEMMA CoordinatorInv ==
  ASSUME CInv,
         \/ RunEnds \/ RunClaims \/ RunDrops \/ RunAttaches \/ AfterFunc \/ RunAnswers
         \/ AttachBegins \/ AttachNothing \/ AttachLocks
  PROVE  CInv'
<1>0. /\ made \in 0..MaxReq /\ MaxReq \in Nat /\ req \in Reqs /\ pending \in 0..made /\ cur \in 0..made
      /\ generation \in Nat /\ result \in Answers
      /\ canceled \in BOOLEAN /\ wake \in BOOLEAN /\ stopped \in BOOLEAN
  BY CoordinatorAssumption DEF CInv, TypeOK, Reqs, Numbered
<1>1. /\ UNCHANGED <<made, abandoned, wakers, notifier, dbConn, curKey, generation, connVars, leaseVars, stopVars, query>>
      /\ state' \in {state, "idle"}
  BY DEF RunEnds, RunClaims, RunDrops, RunAttaches, AfterFunc, RunAnswers, AttachBegins, AttachNothing, AttachLocks,
         reqVars, serverVars
<1>2. req' \in Reqs /\ \A j \in Ids : req'[j].key = req[j].key
  <2>1. \E i : \E a \in Answers : req' \in {req, Answer(req, i, a)}
    BY <1>0 DEF RunEnds, RunClaims, RunDrops, RunAttaches, AfterFunc, RunAnswers, AttachBegins, AttachNothing, AttachLocks,
         reqVars, CoordinatorStop, Answers
  <2> QED
    BY <1>0, <2>1, AnswerKeeps
<1>3. /\ canceled' \in BOOLEAN /\ wake' \in BOOLEAN /\ stopped' \in BOOLEAN /\ result' \in Answers
      /\ active' \in 0..MaxReq /\ lastKey' \in Keys \union {NoConfig, NoKey}
  <2>1. canceled' \in BOOLEAN /\ wake' \in BOOLEAN /\ stopped' \in BOOLEAN
    BY <1>0 DEF RunEnds, RunClaims, RunDrops, RunAttaches, AfterFunc, RunAnswers, AttachBegins, AttachNothing, AttachLocks,
         CoordinatorStop, coordVars
  <2>2. result' \in Answers
    BY <1>0 DEF RunEnds, RunClaims, RunDrops, RunAttaches, AfterFunc, RunAnswers, AttachBegins, AttachNothing, AttachLocks,
         Finish, Goes, Answers
  <2>3. active' \in 0..MaxReq
    <3>1. active' \in {active, pending, 0}
      BY DEF RunEnds, RunClaims, RunDrops, RunAttaches, AfterFunc, RunAnswers, AttachBegins, AttachNothing, AttachLocks,
             coordVars
    <3>2. active \in 0..MaxReq
      BY DEF CInv, TypeOK
    <3> QED
      BY <1>0, <3>1, <3>2
  <2>4. lastKey' \in Keys \union {NoConfig, NoKey}
    <3>1. lastKey' = lastKey \/ (pc = "finish" /\ lastKey' = LastKey)
      BY DEF RunEnds, RunClaims, RunDrops, RunAttaches, AfterFunc, RunAnswers, AttachBegins, AttachNothing, AttachLocks,
             coordVars
    <3>2. pc = "finish" => cur \in Ids
      BY <1>0 DEF CInv, Numbered, Ids
    <3> QED
      BY <1>0, <3>1, <3>2 DEF LastKey, CInv, TypeOK, Reqs
  <2> QED
    BY <2>1, <2>2, <2>3, <2>4
<1>4. \/ /\ pc = "select" /\ pc' = "exit" /\ pending' \in {pending, 0} /\ cur' = cur
      \/ /\ pc = "select" /\ pc' = "select" /\ UNCHANGED <<pending, cur>>
      \/ /\ pc = "select" /\ pc' = "claimed" /\ pending # 0 /\ cur' = pending /\ pending' = 0
      \/ /\ pc \in {"claimed", "finish"} /\ pc' \in {"select", "exit"} /\ cur' = 0 /\ pending' = pending
      \/ /\ pc = "claimed" /\ pc' = "attach" /\ UNCHANGED <<pending, cur>>
      \/ /\ pc \in Attaching /\ pc' = pc /\ UNCHANGED <<pending, cur>>
      \/ /\ pc \in {"attach", "nothing"} /\ pc' = "finish" /\ UNCHANGED <<pending, cur>>
      \/ /\ pc = "attach" /\ pc' = "nothing" /\ UNCHANGED <<pending, cur>>
      \/ /\ pc = "attach" /\ pc' = "lock" /\ UNCHANGED <<pending, cur, req>> /\ req[cur].key # NoConfig
      \/ /\ pc = "lock" /\ pc' = "locked" /\ UNCHANGED <<pending, cur>> /\ \A q \in Queries : query[q].at = "idle"
  BY DEF RunEnds, RunClaims, RunDrops, RunAttaches, AfterFunc, RunAnswers, AttachBegins, AttachNothing, AttachLocks,
         CoordinatorStop, coordVars, reqVars, Finish, Goes, PendingTaken
<1>5. UNCHANGED <<opened, leases>>
  BY <1>1 DEF connVars, leaseVars
<1>6. Numbered'
  <2>1. \A i \in 1..made' : req'[i].key \in Keys \union {NoConfig}
    BY <1>0, <1>1, <1>2 DEF CInv, Numbered, Ids
  <2>2. pending' \in 0..made /\ cur' \in 0..made
    BY <1>0, <1>4
  <2>3. generation' = generation /\ made' = made
    BY <1>1
  <2>4. opened \in Nat /\ leases \in Nat
    BY CoordinatorAssumption DEF CInv, TypeOK
  <2> QED
    BY <1>0, <1>4, <1>5, <2>1, <2>2, <2>3, <2>4 DEF CInv, Numbered, Attaching, Locked
<1>7. TypeOK'
  <2>1. pending' \in 0..MaxReq /\ cur' \in 0..MaxReq
    BY <1>0, <1>4
  <2>2. pc' \in {"select", "claimed", "finish", "exit"} \union Attaching
    BY <1>4 DEF Attaching, Locked
  <2>3. state' \in {"idle", "connecting", "ready", "failed", "stopped"}
    BY <1>1 DEF CInv, TypeOK
  <2> QED
    BY <1>1, <1>2, <1>3, <2>1, <2>2, <2>3 DEF CInv, TypeOK, Reqs, connVars, leaseVars, stopVars
<1>8. \/ pc' = pc /\ cur' = cur
      \/ /\ pc \in Free /\ pc' \in Free \union {"locked", "exit"}
         /\ pc' = "lock" => req'[cur'].key \in Keys
         /\ pc' = "locked" => pc = "lock" /\ cur' = cur /\ \A q \in Queries : query[q].at = "idle"
  <2>1. cur # 0 => req[cur].key \in Keys \union {NoConfig}
    BY <1>0 DEF CInv, Numbered
  <2>2. pc = "attach" => cur # 0
    BY DEF CInv, Numbered, Attaching
  <2> QED
    BY <1>4, <2>1, <2>2 DEF Free
<1>9. \A i \in 1..made : req'[i].key = req[i].key
  BY <1>0, <1>2 DEF Ids
<1> QED
  BY <1>1, <1>6, <1>7, <1>8, <1>9, BookkeepingInv

-----------------------------------------------------------------------------
(* A connection changes hands: the coordinator.                            *)

\* The numbers are numbers.
LEMMA NumbersTyped ==
  ASSUME CInv
  PROVE  /\ MaxReq \in Nat /\ made \in 0..MaxReq /\ cur \in 0..made /\ opened \in 0..MaxReq /\ leases \in 0..MaxReq
         /\ generation \in Nat /\ generation <= made /\ opened <= generation /\ leases <= generation
         /\ dbConn \in 0..opened /\ candidate \in 0..opened /\ old \in 0..opened
         /\ final \in 0..opened /\ worker \in 0..opened /\ closed \in SUBSET (1..opened)
         /\ queue \in Seq(1..opened) /\ Len(queue) \in Nat /\ \A n \in 1..Len(queue) : queue[n] \in 1..opened
         /\ pc \in {"claimed", "finish"} \union Attaching => cur \in 1..made /\ req[cur].key \in Keys \union {NoConfig}
<1>1. MaxReq \in Nat
  BY CoordinatorAssumption
<1>2. queue \in Seq(1..opened)
  BY DEF CInv, Apart
<1> QED
  BY <1>1, <1>2 DEF CInv, TypeOK, Numbered

\* The server's connection becomes the old one of the attempt, or the attempt is superseded.
LEMMA DetachInv ==
  ASSUME CInv, AttachDetaches
  PROVE  CInv'
<1>0. /\ MaxReq \in Nat /\ made \in 0..MaxReq /\ cur \in 1..made /\ generation \in Nat /\ generation < cur
      /\ dbConn \in 0..opened /\ opened \in 0..MaxReq /\ req[cur].key \in Keys /\ opened <= generation
      /\ leases \in 0..MaxReq /\ leases <= generation /\ pc = "locked" /\ boundGeneration \in 0..generation
  BY NumbersTyped DEF CInv, Numbered, TypeOK, MetadataFollows, Locked, Attaching, AttachDetaches
<1>1. UNCHANGED <<reqVars, coordVars, cur, canceled, opened, connKey, candidate, closed, leaseVars, stopVars, query>>
  BY DEF AttachDetaches
<1>2. CASE Superseded
  <2>1. /\ UNCHANGED <<reqVars, coordVars, cur, canceled, serverVars, connVars, leaseVars, stopVars, query>>
        /\ pc' = "finish" /\ result' = "canceled"
    BY <1>2, <1>1 DEF AttachDetaches, Finish, connVars
  <2>2. TypeOK'
    BY <2>1 DEF CInv, TypeOK, Answers, reqVars, coordVars, serverVars, connVars, leaseVars, stopVars
  <2>3. Numbered'
    BY <1>0, <2>1 DEF CInv, Numbered, Attaching, Locked, reqVars, coordVars, serverVars, connVars, leaseVars
  <2>4. Apart'
    BY <2>1 DEF CInv, Apart, InQueue, serverVars, connVars, stopVars
  <2>5. HandsEmpty' /\ LeasesKept' /\ QueriesLock'
    BY <1>0, <2>1 DEF CInv, HandsEmpty, LeasesKept, QueriesLock, Locked, serverVars, connVars, leaseVars, stopVars
  <2>6. MetadataFollows'
    BY <1>0, <2>1 DEF CInv, MetadataFollows, Binding, Locked, reqVars, serverVars, leaseVars
  <2> QED
    BY <2>2, <2>3, <2>4, <2>5, <2>6 DEF CInv
<1>3. CASE ~Superseded
  <2>1. /\ UNCHANGED <<reqVars, coordVars, cur, canceled, opened, connKey, candidate, closed, leaseVars, stopVars, query>>
        /\ pc' = "enqueue" /\ result' = result /\ generation' = generation + 1 /\ state' = "connecting"
        /\ curKey' = req[cur].key /\ old' = dbConn /\ dbConn' = 0
    BY <1>3 DEF AttachDetaches, Goes
  <2>2. TypeOK'
    <3>1. generation' \in 0..MaxReq /\ old' \in 0..opened /\ dbConn' \in 0..opened /\ boundGeneration \in 0..generation'
      BY <1>0, <2>1
    <3>2. curKey' \in Keys \union {NoKey}
      BY <1>0, <2>1
    <3>3. pc' \in {"select", "claimed", "finish", "exit"} \union Attaching
          /\ state' \in {"idle", "connecting", "ready", "failed", "stopped"}
      BY <2>1 DEF Attaching, Locked
    <3>4. /\ UNCHANGED <<made, req, abandoned, wakers, notifier, pending, active, lastKey, wake, stopped, cur, canceled>>
          /\ UNCHANGED <<result, opened, connKey, candidate, closed, query>>
          /\ UNCHANGED <<metaLease, boundGeneration, leases, leaseKey, leaseAt, released, subscribed, channelClosed, watchers>>
          /\ UNCHANGED <<lifecycleDone, stopping, queue, queueClosed, final, worker, cleanupDone>>
      BY <2>1 DEF reqVars, coordVars, leaseVars, stopVars
    <3> QED
      BY <3>1, <3>2, <3>3, <3>4 DEF CInv, TypeOK
  <2>3. Numbered'
    <3>1. UNCHANGED <<made, req, pending, cur, opened, leases>>
      BY <2>1 DEF reqVars, coordVars, leaseVars
    <3>2. pending' # 0 => generation' < pending' /\ cur' < pending'
      <4>1. pending \in 0..made /\ (pending # 0 => cur < pending)
        BY DEF CInv, TypeOK, Numbered
      <4> QED
        BY <1>0, <2>1, <3>1, <4>1
    <3>3. generation' <= made /\ cur' # 0 /\ opened' < generation' /\ leases' < generation' /\ pending' <= made
          /\ cur' <= made
      BY <1>0, <2>1, <3>1 DEF CInv, Numbered
    <3>4. opened' <= generation' /\ leases' <= generation'
      BY <1>0, <2>1, <3>1
    <3>5. \A i \in 1..made' : req'[i].key \in Keys \union {NoConfig}
      BY <3>1 DEF CInv, Numbered
    <3> QED
      BY <2>1, <3>1, <3>2, <3>3, <3>4, <3>5 DEF Numbered
  <2>4. old = 0 /\ candidate = 0
    BY <1>0 DEF CInv, HandsEmpty
  <2>5. Apart'
    BY <2>1, <2>4 DEF CInv, Apart, InQueue, stopVars
  <2>6. HandsEmpty'
    BY <1>0, <2>1, <2>4 DEF CInv, HandsEmpty, leaseVars, stopVars
  <2>7. LeasesKept'
    BY <1>0, <2>1 DEF CInv, LeasesKept, leaseVars
  <2>8. QueriesLock'
    BY <1>0, <2>1 DEF CInv, QueriesLock, Locked, stopVars
  <2>9. MetadataFollows'
    BY <1>0, <2>1 DEF CInv, MetadataFollows, Binding, Locked, reqVars, leaseVars
  <2> QED
    BY <2>2, <2>3, <2>5, <2>6, <2>7, <2>8, <2>9 DEF CInv
<1> QED
  BY <1>2, <1>3

\* The old connection joins the cleanup queue, if there is one and there is room.
LEMMA HandOverInv ==
  ASSUME CInv, AttachHandsOver
  PROVE  CInv'
<1>0. pc = "enqueue" /\ dbConn = 0 /\ candidate = 0
  BY DEF AttachHandsOver, CInv, HandsEmpty
<1>1. /\ UNCHANGED <<reqVars, coordVars, cur, canceled, serverVars, opened, connKey, candidate, closed, leaseVars,
                     lifecycleDone, stopping, queueClosed, final, worker, cleanupDone, query>>
      /\ pc' = "open" /\ result' = result /\ old' = 0
  BY DEF AttachHandsOver, Goes
<1>2. \/ old = 0 /\ queue' = queue
      \/ old # 0 /\ Len(queue) < QueueLen /\ queue' = Append(queue, old)
  BY DEF AttachHandsOver
<1>3. queue \in Seq(1..opened) /\ old \in 0..opened /\ opened \in 0..MaxReq /\ MaxReq \in Nat /\ QueueLen \in Nat
  BY NumbersTyped, CoordinatorAssumption
<1>4. queue' \in Seq(1..opened) /\ queue' \in Seq(Ids) /\ Len(queue') <= QueueLen
  <2>1. CASE old = 0
    BY <1>2, <1>3, <2>1 DEF CInv, TypeOK
  <2>2. CASE old # 0
    <3>1. queue' = Append(queue, old) /\ Len(queue) < QueueLen /\ old \in 1..opened /\ old \in Ids
      BY <1>2, <1>3, <2>2 DEF Ids
    <3>2. queue \in Seq(Ids)
      BY DEF CInv, TypeOK
    <3>3. Len(queue') = Len(queue) + 1 /\ Len(queue) \in Nat
      BY <1>3, <3>1
    <3> QED
      BY <1>3, <3>1, <3>2, <3>3
  <2> QED
    BY <2>1, <2>2
<1>5. TypeOK'
  <2>1. pc' \in {"select", "claimed", "finish", "exit"} \union Attaching /\ old' \in 0..opened
    BY <1>1, <1>3 DEF Attaching, Locked
  <2> QED
    BY <1>1, <1>4, <2>1 DEF CInv, TypeOK, reqVars, coordVars, serverVars, leaseVars
<1>6. Numbered'
  BY <1>0, <1>1 DEF CInv, Numbered, Attaching, Locked, reqVars, coordVars, serverVars, leaseVars
<1>7. Apart'
  <2>1. UNCHANGED <<dbConn, candidate, final, worker, closed, opened>>
    BY <1>1 DEF serverVars
  <2>2. CASE old = 0
    BY <1>1, <1>2, <2>1, <2>2 DEF CInv, Apart, InQueue
  <2>3. CASE old # 0
    <3>1. queue' = Append(queue, old) /\ Len(queue) \in Nat /\ Len(queue') = Len(queue) + 1
          /\ queue'[Len(queue) + 1] = old /\ \A n \in 1..Len(queue) : queue'[n] = queue[n]
      BY <1>2, <1>3, <2>3
    <3>2. \A n \in 1..Len(queue') : n = Len(queue) + 1 \/ n \in 1..Len(queue)
      BY <3>1
    <3>3. old # final /\ old # worker /\ ~InQueue(old)
      BY <2>3 DEF CInv, Apart
    <3>4. \A c : InQueue(c)' <=> InQueue(c) \/ c = old
      BY <3>1, <3>2 DEF InQueue
    <3>5. \A m, n \in 1..Len(queue') : queue'[m] = queue'[n] => m = n
      BY <3>1, <3>2, <3>3 DEF InQueue, CInv, Apart
    <3>6. \A c \in 1..opened : c \in closed' <=> c \notin {dbConn', candidate', old', final', worker'} /\ ~InQueue(c)'
      <4>1. \A c \in 1..opened : c \in closed <=> c \notin {dbConn, candidate, old, final, worker} /\ ~InQueue(c)
        BY DEF CInv, Apart
      <4>2. \A c \in 1..opened : c # 0
        OBVIOUS
      <4> QED
        BY <1>1, <2>1, <3>4, <4>1, <4>2
    <3>7. \A c : (c = final \/ c = worker) /\ c # 0 => ~InQueue(c)'
      BY <3>3, <3>4 DEF CInv, Apart
    <3>8. final # 0 => final # worker
      BY DEF CInv, Apart
    <3> QED
      BY <1>0, <1>1, <1>4, <2>1, <3>5, <3>6, <3>7, <3>8 DEF Apart, InQueue
  <2> QED
    BY <2>2, <2>3
<1>8. HandsEmpty'
  BY <1>0, <1>1, <1>2 DEF CInv, HandsEmpty, serverVars, leaseVars
<1>9. LeasesKept' /\ QueriesLock'
  BY <1>0, <1>1 DEF CInv, LeasesKept, QueriesLock, Locked, leaseVars, serverVars
<1>10. MetadataFollows'
  BY <1>0, <1>1 DEF CInv, MetadataFollows, Binding, Locked, reqVars, serverVars, leaseVars
<1> QED
  BY <1>5, <1>6, <1>7, <1>8, <1>9, <1>10 DEF CInv

\* A driver opens a connection: it is the candidate of the attempt.
LEMMA OpenReturnsInv ==
  ASSUME CInv, OpenReturns
  PROVE  CInv'
<1>0. /\ pc = "open" /\ dbConn = 0 /\ candidate = 0 /\ old = 0 /\ opened < generation
  BY DEF OpenReturns, CInv, HandsEmpty, Numbered
<1>1. /\ UNCHANGED <<reqVars, coordVars, cur, canceled, serverVars, old, closed, leaseVars, stopVars, query>>
      /\ pc' = "opened" /\ result' = result
      /\ opened' = opened + 1 /\ connKey' = [connKey EXCEPT ![opened'] = curKey] /\ candidate' = opened'
  BY DEF OpenReturns, Goes
<1>2. /\ MaxReq \in Nat /\ opened \in Nat /\ generation \in Nat /\ generation <= MaxReq
      /\ final \in 0..opened /\ worker \in 0..opened /\ closed \in SUBSET (1..opened)
      /\ queue \in Seq(1..opened) /\ \A n \in 1..Len(queue) : queue[n] \in 1..opened
  BY NumbersTyped
<1> PICK o \in Nat : o = opened + 1
  BY <1>2
<1>3. o \in 1..MaxReq /\ opened' = o /\ 0..opened \subseteq 0..o /\ 1..opened \subseteq 1..o
  BY <1>0, <1>1, <1>2
<1>4. connKey' \in [Ids -> Keys \union {NoKey}]
  BY <1>1, <1>3 DEF CInv, TypeOK, Ids
<1>5. queue \in Seq(1..o)
  BY <1>2, <1>3
<1>6. TypeOK'
  <2>1. pc' \in {"select", "claimed", "finish", "exit"} \union Attaching
    BY <1>1 DEF Attaching, Locked
  <2>2. opened' \in 0..MaxReq /\ candidate' \in 0..o /\ dbConn \in 0..o /\ old \in 0..o /\ final \in 0..o /\ worker \in 0..o
        /\ closed \in SUBSET (1..o)
    BY <1>0, <1>1, <1>2, <1>3
  <2> QED
    BY <1>1, <1>3, <1>4, <2>1, <2>2 DEF CInv, TypeOK, reqVars, coordVars, serverVars, leaseVars, stopVars
<1>7. Numbered'
  BY <1>0, <1>1, <1>2 DEF CInv, Numbered, Attaching, Locked, reqVars, coordVars, serverVars, leaseVars
<1>8. Apart'
  <2>1. UNCHANGED <<dbConn, old, final, worker, closed, queue>> /\ candidate' = o
    BY <1>1 DEF serverVars, stopVars
  <2>2. o # final /\ o # worker /\ ~InQueue(o) /\ o \notin closed
    BY <1>2 DEF InQueue
  <2>3. \A c : InQueue(c)' <=> InQueue(c)
    BY <2>1 DEF InQueue
  <2>4. \A c \in 1..o : c \in closed <=> c \notin {dbConn, o, old, final, worker} /\ ~InQueue(c)
    <3>1. \A c \in 1..o : c = o \/ c \in 1..opened
      BY <1>2
    <3>2. \A c \in 1..opened : c # o /\ c # 0
      BY <1>2
    <3> QED
      BY <1>0, <2>2, <3>1, <3>2 DEF CInv, Apart
  <2> QED
    BY <1>0, <1>3, <1>5, <2>1, <2>2, <2>3, <2>4 DEF CInv, Apart
<1>9. HandsEmpty'
  <2>1. candidate' # 0
    BY <1>1, <1>3
  <2> QED
    BY <1>0, <1>1, <2>1 DEF CInv, HandsEmpty, serverVars, leaseVars, stopVars
<1>10. LeasesKept' /\ QueriesLock'
  BY <1>0, <1>1 DEF CInv, LeasesKept, QueriesLock, Locked, leaseVars, serverVars, stopVars
<1>11. MetadataFollows'
  BY <1>0, <1>1 DEF CInv, MetadataFollows, Binding, Locked, reqVars, serverVars, leaseVars
<1> QED
  BY <1>6, <1>7, <1>8, <1>9, <1>10, <1>11 DEF CInv

\* The attempt fails or is given up, and its candidate is closed; or it goes on.
LEMMA AttachEndsInv ==
  ASSUME CInv, OpenFails \/ AttachGivesUp \/ AttachChecks
  PROVE  CInv'
<1>0. /\ pc \in {"open", "opened"} /\ dbConn = 0 /\ old = 0 /\ state # "ready"
      /\ pc = "open" => candidate = 0
      /\ pc = "opened" => candidate # 0
  BY DEF OpenFails, AttachGivesUp, AttachChecks, CInv, HandsEmpty
<1>1. UNCHANGED <<reqVars, coordVars, cur, canceled, dbConn, curKey, generation, opened, connKey, old, leaseVars, stopVars,
                  query>>
  BY DEF OpenFails, AttachGivesUp, AttachChecks, connVars, serverVars
<1>2. \/ pc' = "finish" /\ candidate' = 0 /\ closed' = closed \union ({candidate} \ {0})
         /\ state' \in {state, "idle", "failed"}
      \/ pc = "opened" /\ pc' = "install" /\ UNCHANGED <<candidate, closed, state>> /\ ~lifecycleDone
  <2>1. CASE OpenFails
    BY <1>0, <2>1 DEF OpenFails, Finish, StateGivenUp, connVars
  <2>2. CASE AttachGivesUp
    BY <1>0, <2>2 DEF AttachGivesUp, Finish, StateGivenUp, CandidateClosed
  <2>3. CASE AttachChecks
    BY <2>3 DEF AttachChecks, Goes, Superseded, ContextDone, connVars, serverVars
  <2> QED
    BY <2>1, <2>2, <2>3
<1>3. result' \in Answers
  BY DEF OpenFails, AttachGivesUp, AttachChecks, Finish, Goes, Answers, CInv, TypeOK
<1>4. UNCHANGED <<made, req, abandoned, wakers, notifier, pending, active, lastKey, wake, stopped, metaLease, boundGeneration,
                  leases, leaseKey, leaseAt, released, subscribed, channelClosed, watchers, lifecycleDone, stopping, queue,
                  queueClosed, final, worker, cleanupDone>>
  BY <1>1 DEF reqVars, coordVars, leaseVars, stopVars
<1>5. state' # "ready" /\ state' \in {"idle", "connecting", "ready", "failed", "stopped"}
  BY <1>0, <1>2 DEF CInv, TypeOK
<1>6. TypeOK'
  <2>1. candidate' \in 0..opened /\ closed' \in SUBSET (1..opened)
    BY <1>2, NumbersTyped
  <2>2. pc' \in {"select", "claimed", "finish", "exit"} \union Attaching
    BY <1>2 DEF Attaching, Locked
  <2> QED
    BY <1>1, <1>3, <1>4, <1>5, <2>1, <2>2 DEF CInv, TypeOK
<1>7. Numbered'
  BY <1>0, <1>1, <1>2, <1>4 DEF CInv, Numbered, Attaching, Locked
<1>8. Apart'
  <2>1. candidate # 0 => /\ candidate \in 1..opened /\ candidate # final /\ candidate # worker /\ ~InQueue(candidate)
                         /\ candidate \notin {dbConn, old}
    BY <1>0, NumbersTyped DEF CInv, Apart
  <2>2. \A c : InQueue(c)' <=> InQueue(c)
    BY <1>4 DEF InQueue
  <2>3. \A c \in 1..opened : c \in closed' <=> c \notin {dbConn, candidate', old, final, worker} /\ ~InQueue(c)
    <3>1. \A c \in 1..opened : c # 0
      OBVIOUS
    <3>2. CASE candidate' = 0 /\ closed' = closed \union ({candidate} \ {0})
      BY <1>0, <2>1, <3>1, <3>2 DEF CInv, Apart
    <3>3. CASE UNCHANGED <<candidate, closed>>
      BY <3>3 DEF CInv, Apart
    <3> QED
      BY <1>2, <3>2, <3>3
  <2>4. candidate' \in {candidate, 0}
    BY <1>2
  <2>5. \A c \in 1..opened : c \in closed' <=> c \notin {dbConn', candidate', old', final', worker'} /\ ~InQueue(c)'
    BY <1>1, <1>4, <2>2, <2>3
  <2> QED
    BY <1>1, <1>4, <2>4, <2>5 DEF CInv, Apart, InQueue
<1>9. HandsEmpty'
  <2>1. stopping # "no" => lifecycleDone
    BY DEF CInv, HandsEmpty
  <2> QED
    BY <1>0, <1>1, <1>2, <1>4, <1>5, <2>1 DEF CInv, HandsEmpty
<1>10. LeasesKept' /\ QueriesLock'
  BY <1>0, <1>1, <1>2, <1>4 DEF CInv, LeasesKept, QueriesLock, Locked
<1>11. MetadataFollows'
  BY <1>0, <1>1, <1>2, <1>4, <1>5 DEF CInv, MetadataFollows, Binding, Locked
<1> QED
  BY <1>6, <1>7, <1>8, <1>9, <1>10, <1>11 DEF CInv

\* The candidate becomes the server's connection; Stop cannot come between the last
\* check and this step.
LEMMA InstallInv ==
  ASSUME CInv, AttachInstalls
  PROVE  CInv'
<1>0. /\ pc = "install" /\ dbConn = 0 /\ old = 0 /\ candidate # 0 /\ stopping # "done"
  BY DEF AttachInstalls, CInv, HandsEmpty
<1>1. /\ UNCHANGED <<reqVars, coordVars, cur, canceled, curKey, generation, opened, connKey, old, closed, leaseVars, stopVars,
                     query>>
      /\ pc' = "bind" /\ result' = result /\ dbConn' = candidate /\ candidate' = 0 /\ state' = "ready"
  BY DEF AttachInstalls, Goes
<1>2. UNCHANGED <<made, req, abandoned, wakers, notifier, pending, active, lastKey, wake, stopped, metaLease, boundGeneration,
                  leases, leaseKey, leaseAt, released, subscribed, channelClosed, watchers, lifecycleDone, stopping, queue,
                  queueClosed, final, worker, cleanupDone>>
  BY <1>1 DEF reqVars, coordVars, leaseVars, stopVars
<1>3. candidate \in 0..opened /\ opened \in Nat
  BY NumbersTyped
<1>4. TypeOK'
  <2>1. pc' \in {"select", "claimed", "finish", "exit"} \union Attaching
        /\ state' \in {"idle", "connecting", "ready", "failed", "stopped"}
    BY <1>1 DEF Attaching, Locked
  <2>2. 0 \in 0..opened
    BY <1>3
  <2> QED
    BY <1>1, <1>2, <1>3, <2>1, <2>2 DEF CInv, TypeOK
<1>5. Numbered'
  BY <1>0, <1>1, <1>2 DEF CInv, Numbered, Attaching, Locked
<1>6. Apart'
  <2>1. \A c : InQueue(c)' <=> InQueue(c)
    BY <1>2 DEF InQueue
  <2>2. \A c \in 1..opened : c \in closed <=> c \notin {dbConn', candidate', old, final, worker} /\ ~InQueue(c)
    BY <1>0, <1>1 DEF CInv, Apart
  <2> QED
    BY <1>0, <1>1, <1>2, <2>1, <2>2 DEF CInv, Apart, InQueue
<1>7. HandsEmpty'
  BY <1>0, <1>1, <1>2 DEF CInv, HandsEmpty
<1>8. LeasesKept' /\ QueriesLock'
  BY <1>0, <1>1, <1>2 DEF CInv, LeasesKept, QueriesLock, Locked
<1>9. MetadataFollows'
  BY <1>0, <1>1, <1>2 DEF CInv, MetadataFollows, Binding, Locked
<1> QED
  BY <1>4, <1>5, <1>6, <1>7, <1>8, <1>9 DEF CInv

-----------------------------------------------------------------------------
(* The coordinator binds the metadata.                                     *)

\* A step of bindMetadata leaves connections and requests alone.
BindFrame == <<reqVars, coordVars, cur, canceled, serverVars, connVars, channelClosed, stopVars, query>>

\* Such a step keeps the invariant when the leases it leaves are accounted for and bound to
\* the connection of the attempt.
LEMMA BindStepInv ==
  ASSUME CInv, UNCHANGED BindFrame, pc \in Binding, pc' \in Binding \union {"finish"}, result' \in Answers,
         leases' \in 0..MaxReq, leaseKey' \in [Ids -> Keys \union {NoKey}], leaseAt' \in 0..leases', metaLease' \in 0..leases',
         boundGeneration' \in 0..generation,
         released' \in SUBSET (1..leases'), subscribed' \in SUBSET (1..leases'), watchers' \in SUBSET (1..leases'),
         channelClosed \in SUBSET (1..leases'),
         leases' <= generation, pc' \in {"bind", "refresh", "acquire"} => leases' < generation,
         state # "ready" => metaLease' \in {metaLease, 0},
         LeasesKept',
         pc' = "bound" => leaseKey'[leaseAt'] = curKey,
         pc' = "refresh" => leaseAt' # 0 /\ leaseKey'[leaseAt'] = curKey /\ (state = "ready" => metaLease' = leaseAt'),
         boundGeneration' = generation /\ metaLease' # 0 => leaseKey'[metaLease'] = curKey,
         state = "ready" /\ pc' = "finish" => boundGeneration' = generation
  PROVE  CInv'
<1>1. UNCHANGED <<made, req, abandoned, wakers, notifier, pending, active, lastKey, wake, stopped, cur, canceled, state, dbConn,
                  curKey, generation, opened, connKey, candidate, old, closed, channelClosed, lifecycleDone, stopping, queue,
                  queueClosed, final, worker, cleanupDone, query>>
  BY DEF BindFrame, reqVars, coordVars, serverVars, connVars, stopVars
<1>2. pc' \in {"select", "claimed", "finish", "exit"} \union Attaching
  BY DEF Attaching, Locked, Binding
<1>3. TypeOK'
  BY <1>1, <1>2 DEF CInv, TypeOK
<1>4. Numbered'
  <2>1. cur # 0
    BY DEF CInv, Numbered, Binding, Attaching, Locked
  <2> QED
    BY <1>1, <2>1 DEF CInv, Numbered, Binding
<1>5. Apart'
  BY <1>1 DEF CInv, Apart, InQueue
<1>6. HandsEmpty'
  BY <1>1 DEF CInv, HandsEmpty, Binding
<1>7. QueriesLock'
  BY <1>1 DEF CInv, QueriesLock, Binding, Locked
<1>8. MetadataFollows'
  BY <1>1 DEF CInv, MetadataFollows, Binding, Locked
<1> QED
  BY <1>3, <1>4, <1>5, <1>6, <1>7, <1>8 DEF CInv

\* The leases' numbers.
LEMMA LeasesTyped ==
  ASSUME CInv
  PROVE  /\ MaxReq \in Nat /\ leases \in 0..MaxReq /\ leaseKey \in [Ids -> Keys \union {NoKey}] /\ leaseAt \in 0..leases
         /\ metaLease \in 0..leases /\ generation \in 0..MaxReq /\ boundGeneration \in 0..generation
         /\ released \in SUBSET (1..leases) /\ subscribed \in SUBSET (1..leases) /\ watchers \in SUBSET (1..leases)
         /\ channelClosed \in SUBSET (1..leases) /\ leases <= generation /\ result \in Answers
         /\ \A l \in 1..leases : l \in released <=> ~(l = metaLease \/ (pc = "bound" /\ l = leaseAt))
         /\ boundGeneration = generation /\ metaLease # 0 => leaseKey[metaLease] = curKey
         /\ pc \in Binding => curKey = req[cur].key /\ curKey \in Keys
  BY CoordinatorAssumption DEF CInv, TypeOK, Numbered, LeasesKept, MetadataFollows, Locked, Binding

\* A lease that cannot be had: the one of the connection before is released, unless
\* Stop has done so.
LEMMA AcquireFailedInv ==
  ASSUME CInv, pc \in {"bind", "acquire"}, AcquireFailed
  PROVE  CInv'
<1>0. UNCHANGED BindFrame /\ UNCHANGED <<leases, leaseKey, leaseAt, watchers>> /\ pc' = "finish" /\ result' = "ok"
  BY DEF AcquireFailed, Finish, BindFrame
<1>1. pc \in Binding /\ pc' \in Binding \union {"finish"} /\ result' \in Answers
  BY <1>0 DEF Binding, Answers
<1>2. CASE state = "ready"
  <2>1. /\ metaLease' = 0 /\ boundGeneration' = generation /\ released' = released \union ({metaLease} \ {0})
        /\ subscribed' = subscribed \ ({metaLease} \ {0})
    BY <1>2 DEF AcquireFailed, Gives
  <2>2. metaLease' \in 0..leases /\ boundGeneration' \in 0..generation /\ released' \in SUBSET (1..leases)
    BY <2>1, LeasesTyped
  <2>3. LeasesKept'
    BY <1>0, <2>1, LeasesTyped DEF LeasesKept
  <2> QED
    BY <1>0, <1>1, <1>2, <2>1, <2>2, <2>3, LeasesTyped, BindStepInv
<1>3. CASE state # "ready"
  <2>1. UNCHANGED <<metaLease, boundGeneration, released, subscribed>>
    BY <1>3 DEF AcquireFailed
  <2>2. LeasesKept'
    BY <1>0, <2>1, LeasesTyped DEF LeasesKept
  <2> QED
    BY <1>0, <1>1, <1>3, <2>1, <2>2, LeasesTyped, BindStepInv
<1> QED
  BY <1>2, <1>3

\* The lease is refreshed, or another acquired.
LEMMA BindStepsInv ==
  ASSUME CInv, BindChooses \/ RefreshReturns \/ AcquireReturns
  PROVE  CInv'
<1>1. CASE BindChooses
  <2>1. /\ UNCHANGED BindFrame /\ UNCHANGED <<leases, leaseKey, metaLease, boundGeneration, released, subscribed, watchers>>
        /\ pc = "bind" /\ pc' \in {"refresh", "acquire"} /\ result' = result
        /\ pc' = "refresh" => SameTarget /\ leaseAt' = metaLease
        /\ leaseAt' \in {metaLease, 0}
    BY <1>1 DEF BindChooses, Goes, BindFrame
  <2>2. leases < generation
    BY <2>1 DEF CInv, Numbered
  <2>3. pc \in Binding /\ pc' \in Binding \union {"finish"} /\ leaseAt' \in 0..leases
    BY <2>1, LeasesTyped DEF Binding
  <2>4. LeasesKept'
    BY <2>1, LeasesTyped DEF LeasesKept
  <2>5. pc' = "refresh" => leaseAt' # 0 /\ leaseKey[leaseAt'] = curKey /\ metaLease = leaseAt'
    BY <2>1, <2>3, LeasesTyped DEF SameTarget
  <2> QED
    BY <2>1, <2>2, <2>3, <2>4, <2>5, LeasesTyped, BindStepInv
<1>2. CASE RefreshReturns
  <2>1. /\ UNCHANGED BindFrame /\ UNCHANGED <<leases, leaseKey, metaLease, released, subscribed, watchers>>
        /\ pc = "refresh" /\ pc' = "finish" /\ result' = "ok" /\ leaseAt' = 0 /\ boundGeneration' = BoundByRefresh
    BY <1>2 DEF RefreshReturns, Finish, BindFrame
  <2>2. leaseAt # 0 /\ leaseKey[leaseAt] = curKey /\ (state = "ready" => metaLease = leaseAt)
    BY <2>1 DEF CInv, MetadataFollows
  <2>3. pc \in Binding /\ pc' \in Binding \union {"finish"} /\ leaseAt' \in 0..leases /\ result' \in Answers
    BY <2>1, LeasesTyped DEF Binding, Answers
  <2>4. LeasesKept'
    BY <2>1, LeasesTyped DEF LeasesKept
  <2>5. /\ boundGeneration' \in 0..generation
        /\ state = "ready" => boundGeneration' = generation
        /\ boundGeneration' = generation /\ metaLease # 0 => leaseKey[metaLease] = curKey
    BY <2>1, <2>2, LeasesTyped DEF BoundByRefresh
  <2> QED
    BY <2>1, <2>3, <2>4, <2>5, LeasesTyped, BindStepInv
<1>3. CASE AcquireReturns
  <2>1. /\ UNCHANGED BindFrame /\ UNCHANGED <<metaLease, boundGeneration, released, watchers>>
        /\ pc = "acquire" /\ pc' = "bound" /\ result' = result
        /\ leases' = leases + 1 /\ leaseKey' = [leaseKey EXCEPT ![leases'] = req[cur].key] /\ leaseAt' = leases'
        /\ subscribed' = subscribed \union {leases'}
    BY <1>3 DEF AcquireReturns, Goes, BindFrame
  <2>2. leases < generation
    BY <2>1 DEF CInv, Numbered
  <2> PICK n \in Ids : n = leases + 1 /\ n <= generation /\ n \in 0..MaxReq
    BY <2>2, LeasesTyped DEF Ids
  <2>3. 0..leases \subseteq 0..n /\ 1..leases \subseteq 1..n /\ n \in 1..n /\ n \in 0..n /\ n \notin 0..leases /\ n # 0
        /\ \A l \in 1..n : l = n \/ l \in 1..leases
    BY LeasesTyped DEF Ids
  <2>4. pc \in Binding /\ pc' \in Binding \union {"finish"}
    BY <2>1 DEF Binding
  <2>5. curKey = req[cur].key /\ curKey \in Keys
    BY <2>4, LeasesTyped
  <2>6. leaseKey' \in [Ids -> Keys \union {NoKey}] /\ leaseKey'[n] = curKey /\ \A l \in Ids \ {n} : leaseKey'[l] = leaseKey[l]
    BY <2>1, <2>5, LeasesTyped
  <2>7. metaLease \in 0..n /\ metaLease # n /\ released \in SUBSET (1..n) /\ subscribed' \in SUBSET (1..n)
        /\ watchers \in SUBSET (1..n) /\ channelClosed \in SUBSET (1..n) /\ n \notin released
    BY <2>1, <2>3, LeasesTyped
  <2>8. LeasesKept'
    BY <2>1, <2>3, <2>7, LeasesTyped DEF LeasesKept
  <2>9. boundGeneration = generation /\ metaLease # 0 => leaseKey'[metaLease] = curKey
    <3>1. metaLease # 0 => metaLease \in Ids \ {n}
      BY <2>7, LeasesTyped DEF Ids
    <3> QED
      BY <2>6, <3>1, LeasesTyped
  <2> QED
    BY <2>1, <2>4, <2>6, <2>7, <2>8, <2>9, <2>3, LeasesTyped, BindStepInv
<1> QED
  BY <1>1, <1>2, <1>3

\* The lease acquired becomes the server's, or is given back because Stop came first.
LEMMA BindCommitsInv ==
  ASSUME CInv, BindCommits
  PROVE  CInv'
<1>1. /\ UNCHANGED BindFrame /\ UNCHANGED <<leases, leaseKey>>
      /\ pc = "bound" /\ pc' = "finish" /\ result' = "ok" /\ leaseAt' = 0
  BY DEF BindCommits, Finish, BindFrame
<1>2. leaseAt \in 1..leases /\ leaseAt # metaLease /\ leaseKey[leaseAt] = curKey
  BY <1>1, LeasesTyped DEF CInv, LeasesKept, MetadataFollows
<1>3. pc \in Binding /\ pc' \in Binding \union {"finish"} /\ leaseAt' \in 0..leases /\ result' \in Answers
  BY <1>1, LeasesTyped DEF Binding, Answers
<1>4. CASE state # "ready"
  <2>1. /\ UNCHANGED <<metaLease, boundGeneration, watchers>>
        /\ released' = released \union {leaseAt} /\ subscribed' = subscribed \ {leaseAt}
    BY <1>4 DEF BindCommits, BindAbandons, BindReplaces, Gives
  <2>2. LeasesKept' /\ released' \in SUBSET (1..leases) /\ subscribed' \in SUBSET (1..leases)
    BY <1>1, <1>2, <2>1, LeasesTyped DEF LeasesKept
  <2> QED
    BY <1>1, <1>3, <1>4, <2>1, <2>2, LeasesTyped, BindStepInv
<1>5. CASE state = "ready"
  <2>1. /\ metaLease' = leaseAt /\ boundGeneration' = generation /\ watchers' = watchers \union {leaseAt}
        /\ released' = released \union ({metaLease} \ {0}) /\ subscribed' = subscribed \ ({metaLease} \ {0})
    BY <1>5 DEF BindCommits, BindAbandons, BindReplaces, Gives
  <2>2. /\ LeasesKept' /\ released' \in SUBSET (1..leases) /\ subscribed' \in SUBSET (1..leases)
        /\ watchers' \in SUBSET (1..leases) /\ metaLease' \in 0..leases /\ boundGeneration' \in 0..generation
    BY <1>1, <1>2, <2>1, LeasesTyped DEF LeasesKept
  <2> QED
    BY <1>1, <1>2, <1>3, <1>5, <2>1, <2>2, LeasesTyped, BindStepInv
<1> QED
  BY <1>4, <1>5

\* A watcher returns, or a hub closes the channels.
LEMMA WatchersInv ==
  ASSUME CInv, (\E k \in Keys : HubCloses(k)) \/ (\E l \in Ids : WatcherReturns(l))
  PROVE  CInv'
<1>1. UNCHANGED <<reqVars, coordVars, runVars, serverVars, connVars, metaLease, boundGeneration, leases, leaseKey, leaseAt,
                  released, subscribed, stopVars, query>>
  BY DEF HubCloses, WatcherReturns
<1>2. channelClosed' \in SUBSET (1..leases) /\ watchers' \in SUBSET (1..leases)
  BY LeasesTyped DEF HubCloses, WatcherReturns
<1>3. UNCHANGED <<made, req, abandoned, wakers, notifier, pending, active, lastKey, wake, stopped, pc, cur, canceled, result,
                  state, dbConn, curKey, generation, opened, connKey, candidate, old, closed, lifecycleDone, stopping, queue,
                  queueClosed, final, worker, cleanupDone>>
  BY <1>1 DEF reqVars, coordVars, runVars, serverVars, connVars, stopVars
<1>4. TypeOK'
  BY <1>1, <1>2, <1>3 DEF CInv, TypeOK
<1>5. Numbered' /\ HandsEmpty' /\ LeasesKept' /\ QueriesLock'
  BY <1>1, <1>3 DEF CInv, Numbered, HandsEmpty, LeasesKept, QueriesLock
<1>6. Apart'
  BY <1>3 DEF CInv, Apart, InQueue
<1>7. MetadataFollows'
  BY <1>1, <1>3 DEF CInv, MetadataFollows
<1> QED
  BY <1>4, <1>5, <1>6, <1>7 DEF CInv

-----------------------------------------------------------------------------
(* Stop and the cleanup worker.                                            *)

\* Stop's first two steps and the closing of the queue move no connection.
LEMMA StopGoesInv ==
  ASSUME CInv, StopCancels \/ StopCoordinator \/ QueueCloses
  PROVE  CInv'
<1>1. UNCHANGED <<made, abandoned, wakers, notifier, active, lastKey, pc, cur, result, state, dbConn, curKey, generation,
                  opened, connKey, candidate, old, closed, metaLease, boundGeneration, leases, leaseKey, leaseAt, released,
                  subscribed, channelClosed, watchers, queue, final, worker, cleanupDone, query>>
  BY DEF StopCancels, StopCoordinator, QueueCloses, reqVars, coordVars, runVars, serverVars, connVars, leaseVars
<1>2. /\ lifecycleDone' \in BOOLEAN /\ queueClosed' \in BOOLEAN
      /\ stopping' \in {"no", "canceled", "coordinator", "done"}
      /\ stopping' = "done" => stopping = "done"
      /\ stopping' # "no" => lifecycleDone'
      /\ lifecycleDone => lifecycleDone'
      /\ stopping = "done" => stopping' = "done"
      /\ queueClosed' => stopping = "done" /\ pc = "exit"
      /\ queueClosed => queueClosed'
  <2>1. lifecycleDone \in BOOLEAN /\ queueClosed \in BOOLEAN /\ stopping \in {"no", "canceled", "coordinator", "done"}
    BY DEF CInv, TypeOK
  <2>2. (stopping # "no" => lifecycleDone) /\ (queueClosed => stopping = "done" /\ pc = "exit")
    BY DEF CInv, HandsEmpty
  <2>3. \/ stopping = "no" /\ stopping' = "canceled" /\ lifecycleDone' = TRUE /\ queueClosed' = queueClosed
        \/ stopping = "canceled" /\ stopping' = "coordinator" /\ UNCHANGED <<lifecycleDone, queueClosed>>
        \/ stopping = "done" /\ pc = "exit" /\ queueClosed' = TRUE /\ UNCHANGED <<lifecycleDone, stopping>>
    <3>1. StopCancels => stopping = "no" /\ stopping' = "canceled" /\ lifecycleDone' = TRUE /\ queueClosed' = queueClosed
      BY DEF StopCancels
    <3>2. StopCoordinator => stopping = "canceled" /\ stopping' = "coordinator" /\ UNCHANGED <<lifecycleDone, queueClosed>>
      BY DEF StopCoordinator
    <3>3. QueueCloses => stopping = "done" /\ pc = "exit" /\ queueClosed' = TRUE /\ UNCHANGED <<lifecycleDone, stopping>>
      BY DEF QueueCloses
    <3> QED
      BY <3>1, <3>2, <3>3
  <2>4. lifecycleDone' \in BOOLEAN /\ queueClosed' \in BOOLEAN
    BY <2>1, <2>3, Zenon
  <2>5. /\ stopping' \in {"no", "canceled", "coordinator", "done"} /\ (stopping' = "done" => stopping = "done")
        /\ stopping = "done" => stopping' = "done"
    BY <2>1, <2>3
  <2>6. (stopping' # "no" => lifecycleDone') /\ (lifecycleDone => lifecycleDone')
    BY <2>1, <2>2, <2>3, <2>4
  <2>7. (queueClosed' => stopping = "done" /\ pc = "exit") /\ (queueClosed => queueClosed')
    BY <2>1, <2>2, <2>3, <2>4
  <2> QED
    BY <2>4, <2>5, <2>6, <2>7
<1>3. req \in Reqs /\ pending \in 0..made /\ canceled \in BOOLEAN /\ wake \in BOOLEAN /\ stopped \in BOOLEAN
      /\ made \in 0..MaxReq /\ MaxReq \in Nat
  BY CoordinatorAssumption DEF CInv, TypeOK, Numbered, Reqs
<1>4. req' \in Reqs /\ \A j \in Ids : req'[j].key = req[j].key
  <2>1. \E i : \E a \in Answers : req' \in {req, Answer(req, i, a)}
    BY <1>3 DEF StopCancels, StopCoordinator, QueueCloses, CoordinatorStop, Answers, reqVars
  <2> QED
    BY <1>3, <2>1, AnswerKeeps
<1>5. canceled' \in BOOLEAN /\ wake' \in BOOLEAN /\ stopped' \in BOOLEAN
  BY <1>3 DEF StopCancels, StopCoordinator, QueueCloses, CoordinatorStop, coordVars, runVars
<1>6. pending' \in {pending, 0}
  BY DEF StopCancels, StopCoordinator, QueueCloses, CoordinatorStop, coordVars
<1>7. TypeOK'
  <2>1. pending' \in 0..MaxReq
    BY <1>3, <1>6
  <2> QED
    BY <1>1, <1>2, <1>4, <1>5, <2>1 DEF CInv, TypeOK, Reqs
<1>8. \A i \in 1..made : req'[i].key = req[i].key
  BY <1>3, <1>4 DEF Ids
<1>9. Numbered'
  <2>1. \A i \in 1..made' : req'[i].key \in Keys \union {NoConfig}
    BY <1>1, <1>8 DEF CInv, Numbered
  <2>2. pending' <= made /\ (pending' # 0 => generation < pending' /\ cur < pending')
    BY <1>3, <1>6 DEF CInv, Numbered
  <2> QED
    BY <1>1, <2>1, <2>2 DEF CInv, Numbered
<1>10. Apart'
  BY <1>1 DEF CInv, Apart, InQueue
<1>11. HandsEmpty'
  BY <1>1, <1>2 DEF CInv, HandsEmpty
<1>12. LeasesKept' /\ QueriesLock'
  BY <1>1, <1>2 DEF CInv, LeasesKept, QueriesLock
<1>13. MetadataFollows'
  <2>1. pc \in {"lock"} \union Locked => cur \in 1..made
    BY NumbersTyped DEF Attaching
  <2>2. pc \in {"lock"} \union Locked => req'[cur].key = req[cur].key
    BY <1>8, <2>1
  <2> QED
    BY <1>1, <2>2 DEF CInv, MetadataFollows, Binding, Locked
<1> QED
  BY <1>7, <1>9, <1>10, <1>11, <1>12, <1>13 DEF CInv

\* Stop takes the connection and the lease from the server.
LEMMA StopDetachesInv ==
  ASSUME CInv, StopDetaches
  PROVE  CInv'
<1>0. stopping = "coordinator" /\ pc # "install" /\ final = 0 /\ lifecycleDone
  BY DEF StopDetaches, StateMuFree, CInv, HandsEmpty
<1>1. /\ stopping' = "done" /\ state' = "stopped" /\ dbConn' = 0 /\ final' = dbConn /\ metaLease' = 0
      /\ released' = released \union ({metaLease} \ {0}) /\ subscribed' = subscribed \ ({metaLease} \ {0})
  BY DEF StopDetaches, Gives
<1>2. UNCHANGED <<made, req, abandoned, wakers, notifier, pending, active, lastKey, wake, stopped, pc, cur, canceled, result,
                  curKey, generation, opened, connKey, candidate, old, closed, boundGeneration, leases, leaseKey, leaseAt,
                  channelClosed, watchers, lifecycleDone, queue, queueClosed, worker, cleanupDone, query>>
  BY DEF StopDetaches, reqVars, coordVars, runVars, connVars
<1>3. dbConn \in 0..opened /\ opened \in Nat
  BY NumbersTyped
<1>4. TypeOK'
  <2>1. state' \in {"idle", "connecting", "ready", "failed", "stopped"} /\ stopping' \in {"no", "canceled", "coordinator", "done"}
    BY <1>1
  <2>2. 0 \in 0..opened /\ metaLease' \in 0..leases /\ released' \in SUBSET (1..leases) /\ subscribed' \in SUBSET (1..leases)
    BY <1>1, <1>3, LeasesTyped
  <2> QED
    BY <1>1, <1>2, <1>3, <2>1, <2>2 DEF CInv, TypeOK
<1>5. Numbered'
  BY <1>2 DEF CInv, Numbered
<1>6. Apart'
  <2>1. \A c : InQueue(c)' <=> InQueue(c)
    BY <1>2 DEF InQueue
  <2>2. \A c \in 1..opened : c \in closed <=> c \notin {dbConn', candidate, old, final', worker} /\ ~InQueue(c)
    <3>1. \A c \in 1..opened : c # 0
      OBVIOUS
    <3> QED
      BY <1>0, <1>1, <3>1 DEF CInv, Apart
  <2>3. dbConn # 0 => dbConn # worker /\ ~InQueue(dbConn)
    BY DEF CInv, Apart
  <2>4. dbConn # 0 => candidate # dbConn /\ old # dbConn
    BY <1>0 DEF CInv, HandsEmpty
  <2>5. \A c \in {dbConn', candidate', old'} : c # 0 => c # final' /\ c # worker' /\ ~InQueue(c)
    BY <1>1, <1>2, <2>3, <2>4 DEF CInv, Apart
  <2>6. queue \in Seq(1..opened) /\ (worker # 0 => ~InQueue(worker))
        /\ \A m, n \in 1..Len(queue) : queue[m] = queue[n] => m = n
    BY DEF CInv, Apart
  <2> QED
    BY <1>1, <1>2, <2>1, <2>2, <2>3, <2>5, <2>6 DEF Apart, InQueue
<1>7. HandsEmpty'
  BY <1>0, <1>1, <1>2 DEF CInv, HandsEmpty
<1>8. LeasesKept'
  BY <1>1, <1>2, LeasesTyped DEF CInv, LeasesKept
<1>9. QueriesLock'
  BY <1>0, <1>1, <1>2 DEF CInv, QueriesLock
<1>10. MetadataFollows'
  BY <1>1, <1>2 DEF CInv, MetadataFollows
<1> QED
  BY <1>4, <1>5, <1>6, <1>7, <1>8, <1>9, <1>10 DEF CInv

\* What a step of the worker leaves alone.
WorkerFrame == <<reqVars, coordVars, runVars, serverVars, opened, connKey, candidate, old, leaseVars, lifecycleDone,
                 stopping, queueClosed, query>>

\* Such a step keeps the invariant when the connections stay apart.
LEMMA WorkerStepInv ==
  ASSUME CInv, UNCHANGED WorkerFrame,
         final' \in 0..opened, worker' \in 0..opened, closed' \in SUBSET (1..opened), cleanupDone' \in BOOLEAN,
         queue' \in Seq(Ids), Len(queue') <= QueueLen, Apart',
         final' \in {final, 0},
         cleanupDone' => queueClosed /\ queue' = <<>> /\ worker' = 0 /\ final' = 0
  PROVE  CInv'
<1>1. UNCHANGED <<made, req, abandoned, wakers, notifier, pending, active, lastKey, wake, stopped, pc, cur, canceled, result,
                  state, dbConn, curKey, generation, opened, connKey, candidate, old, metaLease, boundGeneration, leases,
                  leaseKey, leaseAt, released, subscribed, channelClosed, watchers, lifecycleDone, stopping, queueClosed, query>>
  BY DEF WorkerFrame, reqVars, coordVars, runVars, serverVars, leaseVars
<1>2. TypeOK'
  BY <1>1 DEF CInv, TypeOK
<1>3. Numbered' /\ LeasesKept' /\ QueriesLock' /\ MetadataFollows'
  BY <1>1 DEF CInv, Numbered, LeasesKept, QueriesLock, MetadataFollows
<1>4. HandsEmpty'
  BY <1>1 DEF CInv, HandsEmpty
<1> QED
  BY <1>2, <1>3, <1>4 DEF CInv

\* The worker takes the oldest connection of the queue.
LEMMA WorkerTakesInv ==
  ASSUME CInv, WorkerTakes
  PROVE  CInv'
<1>1. /\ UNCHANGED WorkerFrame /\ UNCHANGED <<final, closed, cleanupDone>>
      /\ queue # <<>> /\ worker = 0 /\ worker' = Head(queue) /\ queue' = Tail(queue)
  BY DEF WorkerTakes, WorkerFrame, connVars
<1>2. /\ queue \in Seq(1..opened) /\ queue \in Seq(Ids) /\ Len(queue) \in Nat /\ Len(queue) <= QueueLen /\ QueueLen \in Nat
      /\ opened \in 0..MaxReq /\ final \in 0..opened /\ closed \in SUBSET (1..opened) /\ cleanupDone \in BOOLEAN
  BY NumbersTyped, CoordinatorAssumption DEF CInv, TypeOK
<1>3. /\ Len(queue) >= 1 /\ Len(queue') = Len(queue) - 1 /\ queue' \in Seq(1..opened) /\ queue' \in Seq(Ids)
      /\ worker' = queue[1] /\ \A n \in 1..Len(queue') : queue'[n] = queue[n + 1]
  BY <1>1, <1>2
<1>4. Len(queue') <= QueueLen /\ worker' \in 1..opened
  BY <1>2, <1>3
<1> PICK w \in 1..opened : w = worker'
  BY <1>4
<1>5. \A c : InQueue(c) <=> InQueue(c)' \/ c = w
  <2> TAKE c
  <2>1. InQueue(c)' => InQueue(c)
    <3>1. \A n \in 1..Len(queue') : n + 1 \in 1..Len(queue)
      BY <1>2, <1>3
    <3> QED
      BY <1>3, <3>1 DEF InQueue
  <2>2. InQueue(w)
    <3>1. 1 \in 1..Len(queue)
      BY <1>2, <1>3
    <3> QED
      BY <1>3, <3>1 DEF InQueue
  <2>3. ASSUME InQueue(c), c # w PROVE InQueue(c)'
    <3> PICK n \in 1..Len(queue) : queue[n] = c
      BY <2>3 DEF InQueue
    <3>1. n # 1
      BY <1>3, <2>3
    <3> PICK m \in Nat : m = n - 1
      BY <3>1
    <3>2. m \in 1..Len(queue') /\ m + 1 = n
      BY <1>2, <1>3, <3>1
    <3>3. queue'[m] = c
      BY <1>3, <3>2
    <3> QED
      BY <3>2, <3>3 DEF InQueue
  <2> QED
    BY <2>1, <2>2, <2>3
<1>6. ~InQueue(w)'
  <2> SUFFICES ASSUME NEW n \in 1..Len(queue'), queue'[n] = w PROVE FALSE
    BY DEF InQueue
  <2>1. n + 1 \in 1..Len(queue) /\ 1 \in 1..Len(queue) /\ queue[n + 1] = queue[1] /\ n + 1 # 1
    BY <1>2, <1>3
  <2> QED
    BY <2>1 DEF CInv, Apart
<1>7. UNCHANGED <<dbConn, candidate, old, final, closed, opened>>
  BY <1>1 DEF WorkerFrame, serverVars
<1>8. \A m, n \in 1..Len(queue') : queue'[m] = queue'[n] => m = n
  <2> SUFFICES ASSUME NEW m \in 1..Len(queue'), NEW n \in 1..Len(queue'), queue'[m] = queue'[n] PROVE m = n
    OBVIOUS
  <2>0. m + 1 \in 1..Len(queue) /\ n + 1 \in 1..Len(queue)
    BY <1>2, <1>3
  <2>1. queue[m + 1] = queue[n + 1]
    <3>1. queue'[m] = queue[m + 1] /\ queue'[n] = queue[n + 1]
      BY <1>3
    <3> QED
      BY <3>1
  <2>2. m + 1 = n + 1
    BY <2>0, <2>1 DEF CInv, Apart
  <2> QED
    BY <2>2
<1>9. Apart'
  <2>1. \A c \in {dbConn, candidate, old, final} : c # 0 => c # w /\ ~InQueue(c)'
    BY <1>5 DEF CInv, Apart
  <2>2. \A c \in {dbConn, candidate, old} : c # 0 => c # final
    BY DEF CInv, Apart
  <2>3. \A c \in 1..opened : c \in closed <=> c \notin {dbConn, candidate, old, final, w} /\ ~InQueue(c)'
    <3>1. \A c \in 1..opened : c # 0
      OBVIOUS
    <3> QED
      BY <1>1, <1>5, <1>6, <3>1 DEF CInv, Apart
  <2>4. queue' \in Seq(1..opened)
    BY <1>3
  <2>5. ~\E n \in 1..Len(queue') : queue'[n] = w
    BY <1>6 DEF InQueue
  <2>6. \A c \in {dbConn, candidate, old, final} : c # 0 => c # w /\ ~\E n \in 1..Len(queue') : queue'[n] = c
    BY <2>1 DEF InQueue
  <2>7. \A c \in 1..opened : c \in closed <=> /\ c \notin {dbConn, candidate, old, final, w}
                                              /\ ~\E n \in 1..Len(queue') : queue'[n] = c
    BY <2>3 DEF InQueue
  <2> QED
    BY <1>7, <1>8, <2>2, <2>4, <2>5, <2>6, <2>7 DEF Apart, InQueue
<1>10. ~cleanupDone
  BY <1>1 DEF CInv, HandsEmpty
<1> QED
  BY <1>1, <1>2, <1>3, <1>4, <1>9, <1>10, WorkerStepInv

\* The worker closes what it took, and at the end what Stop sent.
LEMMA WorkerClosesInv ==
  ASSUME CInv, WorkerCloses \/ WorkerFinishes
  PROVE  CInv'
<1>0. /\ queue \in Seq(1..opened) /\ queue \in Seq(Ids) /\ Len(queue) <= QueueLen
      /\ final \in 0..opened /\ worker \in 0..opened /\ closed \in SUBSET (1..opened) /\ cleanupDone \in BOOLEAN
      /\ opened \in 0..MaxReq /\ MaxReq \in Nat
  BY NumbersTyped DEF CInv, TypeOK
<1>1. UNCHANGED WorkerFrame /\ queue' = queue
  BY DEF WorkerCloses, WorkerFinishes, WorkerFrame
<1>2. UNCHANGED <<dbConn, candidate, old, opened, queue>>
  BY <1>1 DEF WorkerFrame, serverVars
<1>3. \A c : InQueue(c)' <=> InQueue(c)
  BY <1>1 DEF InQueue
<1>4. \A c \in 1..opened : c # 0
  BY <1>0
<1>5. CASE WorkerCloses
  <2>1. worker # 0 /\ worker' = 0 /\ closed' = closed \union {worker} /\ final' = final /\ cleanupDone' = cleanupDone
    BY <1>5 DEF WorkerCloses
  <2>2. worker \in 1..opened /\ ~InQueue(worker) /\ worker \notin {dbConn, candidate, old, final}
    BY <1>0, <2>1 DEF CInv, Apart
  <2>3. \A c \in 1..opened : c \in closed' <=> c \notin {dbConn, candidate, old, final, 0} /\ ~InQueue(c)
    BY <1>4, <2>1, <2>2 DEF CInv, Apart
  <2>4. Apart'
    BY <1>2, <1>3, <2>1, <2>3 DEF CInv, Apart, InQueue
  <2>5. ~cleanupDone
    BY <2>1 DEF CInv, HandsEmpty
  <2> QED
    BY <1>0, <1>1, <2>1, <2>2, <2>4, <2>5, WorkerStepInv
<1>6. CASE WorkerFinishes
  <2>1. /\ queueClosed /\ queue = <<>> /\ worker = 0 /\ worker' = 0
        /\ closed' = closed \union ({final} \ {0}) /\ final' = 0 /\ cleanupDone' = TRUE
    BY <1>6 DEF WorkerFinishes, WorkerMayFinish
  <2>2. final # 0 => final \in 1..opened /\ final \notin {dbConn, candidate, old, worker} /\ ~InQueue(final)
    BY <1>0 DEF CInv, Apart
  <2>3. \A c \in 1..opened : c \in closed' <=> c \notin {dbConn, candidate, old, 0, 0} /\ ~InQueue(c)
    BY <1>4, <2>1, <2>2 DEF CInv, Apart
  <2>4. Apart'
    BY <1>2, <1>3, <2>1, <2>3 DEF CInv, Apart, InQueue
  <2>5. closed' \in SUBSET (1..opened)
    BY <1>0, <2>1, <2>2
  <2>6. worker' \in 0..opened /\ final' \in 0..opened /\ final' \in {final, 0} /\ cleanupDone' \in BOOLEAN
    BY <1>0, <2>1
  <2> QED
    BY <1>0, <1>1, <2>1, <2>4, <2>5, <2>6, WorkerStepInv
<1> QED
  BY <1>5, <1>6

-----------------------------------------------------------------------------
(* Queries, and the whole.                                                 *)

\* A query takes its connection while the coordinator cannot.
LEMMA QueryInv ==
  ASSUME CInv, NEW q \in Queries, QueryStarts(q) \/ QueryTakes(q) \/ QueryEnds(q)
  PROVE  CInv'
<1>1. UNCHANGED UnlessQuery
  BY DEF QueryStarts, QueryTakes, QueryEnds
<1>2. UNCHANGED <<made, req, abandoned, wakers, notifier, pending, active, lastKey, wake, stopped, pc, cur, canceled, result,
                  state, dbConn, curKey, generation, opened, connKey, candidate, old, closed, metaLease, boundGeneration,
                  leases, leaseKey, leaseAt, released, subscribed, channelClosed, watchers, lifecycleDone, stopping, queue,
                  queueClosed, final, worker, cleanupDone>>
  BY <1>1 DEF UnlessQuery, reqVars, coordVars, runVars, serverVars, connVars, leaseVars, stopVars
<1>3. query \in [Queries -> [at : {"idle", "checked", "running"}, conn : 0..MaxReq]] /\ dbConn \in 0..MaxReq /\ 0 \in 0..MaxReq
  BY NumbersTyped DEF CInv, TypeOK
<1>4. \E a \in {"idle", "checked", "running"}, c \in 0..MaxReq :
        /\ query' = [query EXCEPT ![q] = [at |-> a, conn |-> c]]
        /\ a # "idle" => pc \notin Locked
        /\ a = "running" => c = dbConn /\ dbConn # 0
  <2>1. query[q] \in [at : {"idle", "checked", "running"}, conn : 0..MaxReq]
    BY <1>3
  <2>2. CASE QueryStarts(q)
    <3>1. [query[q] EXCEPT !.at = "checked"] = [at |-> "checked", conn |-> query[q].conn]
      BY <2>1
    <3>2. query' = [query EXCEPT ![q] = [at |-> "checked", conn |-> query[q].conn]] /\ pc \notin Locked
      BY <1>3, <2>2, <3>1 DEF QueryStarts
    <3> QED
      BY <2>1, <3>2
  <2>3. CASE QueryTakes(q)
    <3>1. query[q].at = "checked"
      BY <2>3 DEF QueryTakes
    <3>2. pc \notin Locked
      BY <3>1 DEF CInv, QueriesLock
    <3>3. query' = [query EXCEPT ![q] = [at |-> IF dbConn = 0 THEN "idle" ELSE "running", conn |-> dbConn]]
      BY <2>3 DEF QueryTakes
    <3> QED
      BY <1>3, <3>2, <3>3
  <2>4. CASE QueryEnds(q)
    BY <1>3, <2>4 DEF QueryEnds
  <2> QED
    BY <2>2, <2>3, <2>4
<1> PICK a \in {"idle", "checked", "running"}, c \in 0..MaxReq :
        /\ query' = [query EXCEPT ![q] = [at |-> a, conn |-> c]]
        /\ a # "idle" => pc \notin Locked
        /\ a = "running" => c = dbConn /\ dbConn # 0
  BY <1>4
<1>5. query' \in [Queries -> [at : {"idle", "checked", "running"}, conn : 0..MaxReq]]
  BY <1>3
<1>6. QueriesLock'
  <2>1. query'[q].at = a /\ query'[q].conn = c /\ \A p \in Queries \ {q} : query'[p] = query[p]
    BY <1>3
  <2> QED
    BY <1>2, <2>1 DEF CInv, QueriesLock
<1>7. TypeOK'
  BY <1>2, <1>5 DEF CInv, TypeOK
<1>8. Numbered' /\ HandsEmpty' /\ LeasesKept' /\ MetadataFollows'
  BY <1>2 DEF CInv, Numbered, HandsEmpty, LeasesKept, MetadataFollows
<1>9. Apart'
  BY <1>2 DEF CInv, Apart, InQueue
<1> QED
  BY <1>6, <1>7, <1>8, <1>9 DEF CInv

\* Nothing happens.
LEMMA IdleInv ==
  ASSUME CInv, UNCHANGED vars
  PROVE  CInv'
<1>1. UNCHANGED <<made, req, abandoned, wakers, notifier, pending, active, lastKey, wake, stopped, pc, cur, canceled, result,
                  state, dbConn, curKey, generation, opened, connKey, candidate, old, closed, metaLease, boundGeneration,
                  leases, leaseKey, leaseAt, released, subscribed, channelClosed, watchers, lifecycleDone, stopping, queue,
                  queueClosed, final, worker, cleanupDone, query>>
  BY DEF vars, reqVars, coordVars, runVars, serverVars, connVars, leaseVars, stopVars
<1>2. TypeOK'
  BY <1>1 DEF CInv, TypeOK
<1>3. Numbered' /\ HandsEmpty' /\ LeasesKept' /\ MetadataFollows' /\ QueriesLock'
  BY <1>1 DEF CInv, Numbered, HandsEmpty, LeasesKept, MetadataFollows, QueriesLock
<1>4. Apart'
  BY <1>1 DEF CInv, Apart, InQueue
<1> QED
  BY <1>2, <1>3, <1>4 DEF CInv

\* Every step keeps the invariant.
LEMMA NextInv == CInv /\ [Next]_vars => CInv'
<1> SUFFICES ASSUME CInv, [Next]_vars PROVE CInv'
  OBVIOUS
<1>1. CASE NotifierLooks \/ (\E k \in Asked : Notify(k) \/ Switch(k)) \/ (\E i \in Ids : CommandCanceled(i) \/ Wakes(i))
  BY <1>1, AroundRequestsInv
<1>2. CASE AfterFunc \/ Coordinator
  <2>1. CASE \/ RunEnds \/ RunClaims \/ RunDrops \/ RunAttaches \/ AfterFunc \/ RunAnswers
             \/ AttachBegins \/ AttachNothing \/ AttachLocks
    BY <2>1, CoordinatorInv
  <2>2. CASE AttachDetaches \/ AttachHandsOver \/ OpenReturns
    BY <2>2, DetachInv, HandOverInv, OpenReturnsInv
  <2>3. CASE OpenFails \/ AttachGivesUp \/ AttachChecks \/ AttachInstalls
    BY <2>3, AttachEndsInv, InstallInv
  <2>4. CASE TargetUnresolved \/ AcquireFails
    BY <2>4, AcquireFailedInv DEF TargetUnresolved, AcquireFails
  <2>5. CASE BindChooses \/ RefreshReturns \/ AcquireReturns \/ BindCommits
    BY <2>5, BindStepsInv, BindCommitsInv
  <2> QED
    BY <1>2, <2>1, <2>2, <2>3, <2>4, <2>5 DEF Coordinator
<1>3. CASE (\E k \in Keys : HubCloses(k)) \/ (\E l \in Ids : WatcherReturns(l))
  BY <1>3, WatchersInv
<1>4. CASE StopCancels \/ StopGoesOn
  BY <1>4, StopGoesInv, StopDetachesInv DEF StopGoesOn
<1>5. CASE CleanupWorker
  BY <1>5, WorkerTakesInv, WorkerClosesInv DEF CleanupWorker
<1>6. CASE \E q \in Queries : QueryStarts(q) \/ QueryTakes(q) \/ QueryEnds(q)
  BY <1>6, QueryInv
<1>7. CASE Done \/ UNCHANGED vars
  BY <1>7, IdleInv DEF Done
<1> QED
  BY <1>1, <1>2, <1>3, <1>4, <1>5, <1>6, <1>7 DEF Next

\* The inductive invariant holds whatever is requested, cancelled and stopped, and
\* whatever opens and acquires return; the type invariant is part of it.
THEOREM CoordinatorInvariant == Spec => []CInv
<1> QED
  BY InitInv, NextInv, PTL DEF Spec

\* The places a connection can be.
LEMMA PlacesOfConnections ==
  ASSUME CInv
  PROVE  /\ Holders \in Seq(0..opened) /\ DOMAIN Holders = 1..(5 + Len(queue))
         /\ Holders[1] = dbConn /\ Holders[2] = candidate /\ Holders[3] = old /\ Holders[4] = final /\ Holders[5] = worker
         /\ \A n \in 1..Len(queue) : Holders[5 + n] = queue[n]
<1>1. /\ queue \in Seq(0..opened) /\ Len(queue) \in Nat /\ dbConn \in 0..opened /\ candidate \in 0..opened /\ old \in 0..opened
      /\ final \in 0..opened /\ worker \in 0..opened
  <2>1. 1..opened \subseteq 0..opened /\ queue \in Seq(1..opened)
    BY NumbersTyped
  <2> QED
    BY <2>1, NumbersTyped
<1> DEFINE hands == <<dbConn, candidate, old, final, worker>>
<1>2. /\ hands \in Seq(0..opened) /\ Len(hands) = 5
      /\ hands[1] = dbConn /\ hands[2] = candidate /\ hands[3] = old /\ hands[4] = final /\ hands[5] = worker
  BY <1>1
<1>3. Holders = hands \o queue
  BY DEF Holders
<1> HIDE DEF hands
<1>4. /\ hands \o queue \in Seq(0..opened) /\ Len(hands \o queue) = 5 + Len(queue)
      /\ \A i \in 1..(5 + Len(queue)) : (hands \o queue)[i] = IF i <= 5 THEN hands[i] ELSE queue[i - 5]
  <2>1. /\ hands \o queue \in Seq(0..opened) /\ Len(hands \o queue) = Len(hands) + Len(queue)
        /\ \A i \in 1..(Len(hands) + Len(queue)) :
             (hands \o queue)[i] = IF i <= Len(hands) THEN hands[i] ELSE queue[i - Len(hands)]
    BY <1>1, <1>2, ConcatProperties
  <2> QED
    BY <1>2, <2>1
<1>5. \A i \in 1..5 : (hands \o queue)[i] = hands[i]
  <2>1. \A i \in 1..5 : i \in 1..(5 + Len(queue)) /\ i <= 5
    BY <1>1
  <2> QED
    BY <1>4, <2>1
<1>6. \A n \in 1..Len(queue) : (hands \o queue)[5 + n] = queue[n]
  <2> SUFFICES ASSUME NEW n \in 1..Len(queue) PROVE (hands \o queue)[5 + n] = queue[n]
    OBVIOUS
  <2>1. 5 + n \in 1..(5 + Len(queue)) /\ ~(5 + n <= 5) /\ (5 + n) - 5 = n
    BY <1>1
  <2> QED
    BY <1>4, <2>1
<1>7. DOMAIN (hands \o queue) = 1..(5 + Len(queue))
  BY <1>4
<1>8. 1 \in 1..5 /\ 2 \in 1..5 /\ 3 \in 1..5 /\ 4 \in 1..5 /\ 5 \in 1..5
  OBVIOUS
<1> QED
  BY <1>2, <1>3, <1>4, <1>5, <1>6, <1>7, <1>8

\* Every connection opened is in one place until it is closed, a lease is held or
\* released, and Stop's cleanup leaves none of either (NothingLeaks).
THEOREM NothingIsLeaked == Spec => []NothingLeaks
<1>1. CInv => NothingLeaks
  <2> SUFFICES ASSUME CInv PROVE NothingLeaks
    OBVIOUS
  <2> DEFINE has == Holders
  <2>1. /\ DOMAIN has = 1..(5 + Len(queue)) /\ Len(queue) \in Nat
        /\ has[1] = dbConn /\ has[2] = candidate /\ has[3] = old /\ has[4] = final /\ has[5] = worker
        /\ \A n \in 1..Len(queue) : has[5 + n] = queue[n]
    BY PlacesOfConnections, NumbersTyped
  <2>2. \A h \in DOMAIN has : h \in 1..5 \/ \E n \in 1..Len(queue) : h = 5 + n
    <3> SUFFICES ASSUME NEW h \in DOMAIN has, h \notin 1..5 PROVE \E n \in 1..Len(queue) : h = 5 + n
      OBVIOUS
    <3>1. h - 5 \in 1..Len(queue) /\ h = 5 + (h - 5)
      BY <2>1
    <3> QED
      BY <3>1
  <2> HIDE DEF has
  <2>3. \A c : (\E h \in DOMAIN has : has[h] = c) <=> c \in {dbConn, candidate, old, final, worker} \/ InQueue(c)
    <3> TAKE c
    <3>1. \A n \in 1..Len(queue) : 5 + n \in DOMAIN has
      BY <2>1
    <3>2. 1 \in DOMAIN has /\ 2 \in DOMAIN has /\ 3 \in DOMAIN has /\ 4 \in DOMAIN has /\ 5 \in DOMAIN has
      BY <2>1
    <3>3. \A h \in DOMAIN has : has[h] = c => c \in {dbConn, candidate, old, final, worker} \/ InQueue(c)
      BY <2>1, <2>2 DEF InQueue
    <3>4. InQueue(c) => \E h \in DOMAIN has : has[h] = c
      BY <2>1, <3>1 DEF InQueue
    <3> QED
      BY <2>1, <3>2, <3>3, <3>4
  <2>4. closed = (1..opened) \ {has[h] : h \in DOMAIN has}
    <3>1. \A c \in 1..opened : c \in closed <=> c \notin {dbConn, candidate, old, final, worker} /\ ~InQueue(c)
      BY DEF CInv, Apart
    <3>2. closed \in SUBSET (1..opened)
      BY NumbersTyped
    <3> QED
      BY <2>3, <3>1, <3>2
  <2>5. \A g, h \in DOMAIN has : g # h /\ has[g] # 0 => has[g] # has[h]
    <3> SUFFICES ASSUME NEW g \in DOMAIN has, NEW h \in DOMAIN has, g # h, has[g] # 0, has[g] = has[h] PROVE FALSE
      OBVIOUS
    <3>1. /\ dbConn # 0 => candidate = 0 /\ old = 0
          /\ candidate # 0 => old = 0
      BY DEF CInv, HandsEmpty
    <3>2. /\ \A c \in {dbConn, candidate, old} : c # 0 => c # final /\ c # worker /\ ~InQueue(c)
          /\ final # 0 => final # worker /\ ~InQueue(final)
          /\ worker # 0 => ~InQueue(worker)
          /\ \A m, n \in 1..Len(queue) : queue[m] = queue[n] => m = n
      BY DEF CInv, Apart
    <3>3. \A f \in DOMAIN has : f \notin 1..5 => InQueue(has[f])
      BY <2>1, <2>2 DEF InQueue
    <3>4. \A f \in 1..5 : has[f] = 0 \/ ~InQueue(has[f])
      <4>1. \A f \in 1..5 : f = 1 \/ f = 2 \/ f = 3 \/ f = 4 \/ f = 5
        OBVIOUS
      <4> QED
        BY <2>1, <3>2, <4>1
    <3>5. CASE g \in 1..5 /\ h \in 1..5
      <4>1. (g = 1 \/ g = 2 \/ g = 3 \/ g = 4 \/ g = 5) /\ (h = 1 \/ h = 2 \/ h = 3 \/ h = 4 \/ h = 5)
        BY <3>5
      <4> QED
        BY <2>1, <3>1, <3>2, <4>1
    <3>6. CASE g \notin 1..5 /\ h \notin 1..5
      <4> PICK m \in 1..Len(queue), n \in 1..Len(queue) : g = 5 + m /\ h = 5 + n
        BY <2>2, <3>6
      <4> QED
        BY <2>1, <3>2
    <3> QED
      BY <3>3, <3>4, <3>5, <3>6
  <2>6. ConnectionsAccounted
    BY <2>4, <2>5, LeasesTyped DEF ConnectionsAccounted, has
  <2>7. CleanupIsComplete
    <3> SUFFICES ASSUME cleanupDone PROVE closed = 1..opened /\ released = 1..leases
      BY DEF CleanupIsComplete
    <3>1. /\ queueClosed /\ queue = <<>> /\ worker = 0 /\ final = 0 /\ stopping = "done" /\ pc = "exit"
          /\ dbConn = 0 /\ candidate = 0 /\ old = 0 /\ metaLease = 0
      BY DEF CInv, HandsEmpty
    <3>2. \A c \in 1..opened : c \notin {dbConn, candidate, old, final, worker} /\ ~InQueue(c)
      BY <3>1 DEF InQueue
    <3>3. closed = 1..opened
      BY <3>2, NumbersTyped DEF CInv, Apart
    <3>4. released = 1..leases
      <4>1. \A l \in 1..leases : l # metaLease
        BY <3>1, LeasesTyped
      <4>2. pc # "bound"
        BY <3>1
      <4>3. \A l \in 1..leases : l \in released
        BY <4>1, <4>2, LeasesTyped
      <4> QED
        BY <4>3, LeasesTyped
    <3> QED
      BY <3>3, <3>4
  <2> QED
    BY <2>6, <2>7 DEF NothingLeaks
<1> QED
  BY <1>1, CoordinatorInvariant, PTL

\* Until Stop, a running query has the server's connection, and it is open; the metadata
\* reported for a generation is that of its connection (QueriesMatch).
THEOREM QueriesHaveTheConnection == Spec => []QueriesMatch
<1>1. CInv => QueriesMatch
  <2> SUFFICES ASSUME CInv PROVE QueriesMatch
    OBVIOUS
  <2>1. QueryKeepsConnection
    <3>1. DOMAIN query = Queries
      BY DEF CInv, TypeOK
    <3>2. dbConn # 0 => dbConn \in 1..opened
      BY NumbersTyped
    <3>3. dbConn # 0 => dbConn \notin closed
      BY <3>2 DEF CInv, Apart
    <3> QED
      BY <3>1, <3>3 DEF QueryKeepsConnection, CInv, QueriesLock
  <2>2. MetadataOfConnection
    BY DEF MetadataOfConnection, CInv, MetadataFollows, Binding
  <2> QED
    BY <2>1, <2>2 DEF QueriesMatch
<1> QED
  BY <1>1, CoordinatorInvariant, PTL

-----------------------------------------------------------------------------
(* The last switch.                                                        *)

\* Request i is a switch, and nothing came after it but notifications for the same
\* connection.
LastWord(i) == req[i].explicit /\ \A j \in (i + 1)..made : ~req[j].explicit /\ req[j].key = req[i].key

\* The coordinator's lock and its goroutine agree on the attempt under way; what was
\* not asked was not answered; only Stop stops the coordinator.
Agreed ==
  /\ active = cur /\ (pc = "select" => cur = 0)
  /\ \A j \in Ids : j > made => req[j].reply = "none"
  /\ stopped => lifecycleDone

\* What waits behind an attempt asks for something else: it would have coalesced.
Overtaken == pending # 0 /\ cur # 0 => ~LastWord(cur)

\* From the driver's open to the answer the connection is the one that was asked for.
Carried ==
  /\ pc \in {"opened", "install"} => connKey[candidate] = req[cur].key
  /\ ~lifecycleDone /\ (pc \in Binding \/ (pc = "finish" /\ result = "ok")) =>
       state = "ready" /\ dbConn # 0 /\ connKey[dbConn] = req[cur].key

\* Once the last switch was answered with success the coordinator has nothing else in
\* hand, remembers its connection, and the server has it.
Settled ==
  \A i \in 1..made : ~lifecycleDone /\ LastWord(i) /\ req[i].reply = "ok" =>
    /\ pending = 0 /\ pc = "select" /\ lastKey = req[i].key
    /\ state = "ready" /\ dbConn # 0 /\ connKey[dbConn] = req[i].key

SwitchInv == Agreed /\ Overtaken /\ Carried /\ Settled

\* Nobody has asked for anything.
LEMMA InitSwitch == Init => SwitchInv
<1> SUFFICES ASSUME Init PROVE SwitchInv
  OBVIOUS
<1>1. Agreed
  BY DEF Init, Agreed
<1>2. Overtaken /\ Carried
  BY DEF Init, Overtaken, Carried, Binding
<1>3. Settled
  BY DEF Init, Settled
<1> QED
  BY <1>1, <1>2, <1>3 DEF SwitchInv

\* What an answer writes: the first one is kept, a second one is seen.
LEMMA AnswerIs ==
  ASSUME NEW r \in Reqs, NEW i, NEW a \in Answers
  PROVE  \A j \in Ids : Answer(r, i, a)[j].reply = IF j # i THEN r[j].reply ELSE IF r[j].reply = "none" THEN a ELSE "twice"
<1>1. CASE i \notin Ids
  BY <1>1 DEF Answer, Reqs
<1>2. CASE i \in Ids
  <2>1. r[i] \in [key : Keys \union {NoConfig, NoKey}, explicit : BOOLEAN, reply : Answers \union {"twice"}]
    BY <1>2 DEF Reqs
  <2> DEFINE n == [r[i] EXCEPT !.reply = IF @ = "none" THEN a ELSE "twice"]
  <2>2. n.reply = IF r[i].reply = "none" THEN a ELSE "twice"
    BY <2>1
  <2>3. Answer(r, i, a) = [r EXCEPT ![i] = n]
    BY <1>2 DEF Answer, Reqs
  <2> HIDE DEF n
  <2> QED
    BY <1>2, <2>2, <2>3 DEF Reqs
<1> QED
  BY <1>1, <1>2

\* What is recorded of a new request.
LEMMA RecordedIs ==
  ASSUME CInv, made < MaxReq, NEW k \in Asked, NEW explicit \in BOOLEAN, NEW i \in Ids, i = made + 1
  PROVE  /\ Recorded(k, explicit)[i].key = k /\ Recorded(k, explicit)[i].explicit = explicit
         /\ Recorded(k, explicit)[i].reply = req[i].reply
         /\ \A j \in Ids \ {i} : Recorded(k, explicit)[j] = req[j]
<1>1. req \in Reqs
  BY DEF CInv, TypeOK, Reqs
<1>2. req[i] \in [key : Keys \union {NoConfig, NoKey}, explicit : BOOLEAN, reply : Answers \union {"twice"}]
  BY <1>1 DEF Reqs
<1> DEFINE n == [[req[i] EXCEPT !.key = k] EXCEPT !.explicit = explicit]
<1>3. n.key = k /\ n.explicit = explicit /\ n.reply = req[i].reply
  BY <1>2
<1>4. Recorded(k, explicit) = [req EXCEPT ![i] = n]
  BY <1>1 DEF Recorded, Reqs
<1> HIDE DEF n
<1> QED
  BY <1>1, <1>3, <1>4 DEF Reqs

\* A request that is no longer the last word does not become it again.
LEMMA LastWordStays ==
  ASSUME made \in Nat, made' \in Nat, made <= made',
         \A j \in 1..made : req'[j].key = req[j].key /\ req'[j].explicit = req[j].explicit,
         NEW i \in 1..made, LastWord(i)'
  PROVE  LastWord(i)
<1>1. \A j \in (i + 1)..made : j \in 1..made /\ j \in (i + 1)..made'
  OBVIOUS
<1>2. req'[i].explicit /\ \A j \in (i + 1)..made' : ~req'[j].explicit /\ req'[j].key = req'[i].key
  BY DEF LastWord
<1> QED
  BY <1>1, <1>2 DEF LastWord

\* Numbers and requests as these proofs need them.
LEMMA Asking ==
  ASSUME CInv
  PROVE  /\ made \in Nat /\ made <= MaxReq /\ MaxReq \in Nat /\ req \in Reqs /\ pending \in 0..made /\ cur \in 0..made
         /\ 1..made \subseteq Ids /\ result \in Answers
         /\ pc \in {"claimed", "finish"} \union Attaching => cur \in Ids
<1>1. /\ made \in Nat /\ made <= MaxReq /\ MaxReq \in Nat /\ req \in Reqs /\ pending \in 0..made /\ cur \in 0..made
      /\ result \in Answers
  BY CoordinatorAssumption DEF CInv, TypeOK, Reqs, Numbered
<1>2. 1..made \subseteq Ids
  BY <1>1 DEF Ids
<1>3. pc \in {"claimed", "finish"} \union Attaching => cur # 0
  BY DEF CInv, Numbered
<1>4. cur # 0 => cur \in 1..made
  BY <1>1
<1> QED
  BY <1>1, <1>2, <1>3, <1>4

\* A step that settles no request: what was settled is only looked at while the
\* coordinator waits, and then nobody but Stop takes the connection away.
LEMMA SwitchFrame ==
  ASSUME SwitchInv, UNCHANGED <<made, req, pending, active, lastKey, stopped, cur>>,
         lifecycleDone => lifecycleDone', pc' = "select" => pc = "select", Carried',
         pc = "select" /\ ~lifecycleDone' => UNCHANGED <<pc, state, dbConn, connKey>>
  PROVE  SwitchInv'
<1>1. Agreed'
  BY DEF SwitchInv, Agreed
<1>2. Overtaken'
  BY DEF SwitchInv, Overtaken, LastWord
<1>3. Settled'
  <2> SUFFICES ASSUME NEW i \in 1..made', ~lifecycleDone', LastWord(i)', req'[i].reply = "ok"
               PROVE  /\ pending' = 0 /\ pc' = "select" /\ lastKey' = req'[i].key
                      /\ state' = "ready" /\ dbConn' # 0 /\ connKey'[dbConn'] = req'[i].key
    BY DEF Settled
  <2>1. i \in 1..made /\ ~lifecycleDone /\ req[i].reply = "ok" /\ LastWord(i)
    BY DEF LastWord
  <2>2. /\ pending = 0 /\ pc = "select" /\ lastKey = req[i].key
        /\ state = "ready" /\ dbConn # 0 /\ connKey[dbConn] = req[i].key
    BY <2>1 DEF SwitchInv, Settled
  <2> QED
    BY <2>2
<1> QED
  BY <1>1, <1>2, <1>3 DEF SwitchInv

-----------------------------------------------------------------------------
(* The steps that change what is asked and answered.                       *)

\* A new request that does not ask for what the last switch got displaces it; one that
\* does is answered at once.
LEMMA RequestSwitch ==
  ASSUME CInv, SwitchInv, NEW k \in Asked, NEW explicit \in BOOLEAN, Request(k, explicit)
  PROVE  SwitchInv'
<1>1. /\ made < MaxReq
      /\ UNCHANGED <<active, lastKey, stopped, pc, cur, result, state, dbConn, connKey, candidate, lifecycleDone>>
  BY DEF Request, serverVars, connVars, stopVars
<1>2. /\ made \in Nat /\ MaxReq \in Nat /\ req \in Reqs /\ pending \in 0..made /\ cur \in 0..made /\ 1..made \subseteq Ids
  BY Asking
<1> PICK n \in Ids : n = made + 1
  BY <1>1, <1>2 DEF Ids
<1> DEFINE r == Recorded(k, explicit)
<1>3. /\ r \in Reqs /\ r[n].key = k /\ r[n].explicit = explicit /\ r[n].reply = req[n].reply
      /\ \A j \in Ids \ {n} : r[j] = req[j]
  BY <1>1, RecordedKeeps, RecordedIs
<1> HIDE DEF r
<1>4. req[n].reply = "none" /\ active = cur /\ (stopped => lifecycleDone)
  BY <1>2 DEF SwitchInv, Agreed
<1>5. \A j \in 1..made : j \in Ids /\ j # n
  BY <1>2
<1>6. \A i : \A a \in Answers : \A j \in Ids :
        /\ Answer(r, i, a)[j].key = r[j].key /\ Answer(r, i, a)[j].explicit = r[j].explicit
        /\ Answer(r, i, a)[j].reply = IF j # i THEN r[j].reply ELSE IF r[j].reply = "none" THEN a ELSE "twice"
  BY <1>3, AnswerKeeps, AnswerIs
<1>7. made' = n
  BY DEF Request, RequestAfterStop, RequestCoalesces, RequestQueues, Replies
<1>8. /\ \A j \in Ids : req'[j].key = r[j].key /\ req'[j].explicit = r[j].explicit
      /\ \A j \in Ids \ {n} : req'[j].reply = "ok" => req[j].reply = "ok"
      /\ \A j \in Ids : j > n => req'[j].reply = req[j].reply
      /\ explicit => req'[n].reply # "ok"
      /\ \/ pending' = pending /\ (~stopped => ~explicit /\ Coalesces(k))
         \/ pending' = n /\ (explicit \/ ~Coalesces(k))
  <2>1. CASE RequestAfterStop(k, explicit)
    <3>1. req' = Answer(r, n, "canceled") /\ pending' = pending /\ stopped
      BY <2>1 DEF RequestAfterStop, Replies, r
    <3>2. "canceled" \in Answers
      BY DEF Answers
    <3>3. \A j \in Ids : j > n => j # n
      BY <1>2 DEF Ids
    <3> QED
      BY <1>3, <1>6, <3>1, <3>2, <3>3
  <2>2. CASE RequestCoalesces(k, explicit)
    <3>1. req' = Answer(r, n, "ok") /\ pending' = pending /\ ~stopped /\ ~explicit /\ Coalesces(k)
      BY <2>2 DEF RequestCoalesces, Replies, r
    <3>2. "ok" \in Answers
      BY DEF Answers
    <3>3. \A j \in Ids : j > n => j # n
      BY <1>2 DEF Ids
    <3> QED
      BY <1>3, <1>6, <3>1, <3>2, <3>3
  <2>3. CASE RequestQueues(k, explicit)
    <3>1. req' = Displaced(r) /\ pending' = n /\ (explicit \/ ~Coalesces(k))
      BY <2>3 DEF RequestQueues, r
    <3>2. req' \in {r, Answer(r, pending, "canceled")}
      BY <3>1 DEF Displaced
    <3>3. "canceled" \in Answers
      BY DEF Answers
    <3>4. pending # n /\ \A j \in Ids : j > n => j # n /\ j # pending
      BY <1>2 DEF Ids
    <3> QED
      BY <1>3, <1>4, <1>6, <3>1, <3>2, <3>3, <3>4
  <2> QED
    BY <2>1, <2>2, <2>3 DEF Request
<1>9. /\ \A j \in 1..made : req'[j].key = req[j].key /\ req'[j].explicit = req[j].explicit
      /\ made' \in Nat /\ made <= made' /\ made < n
  BY <1>2, <1>3, <1>5, <1>7, <1>8
<1>10. Agreed'
  <2>1. \A j \in Ids : j > n => req'[j].reply = "none"
    <3>1. \A j \in Ids : j > n => j > made
      BY <1>2 DEF Ids
    <3> QED
      BY <1>8, <3>1 DEF SwitchInv, Agreed
  <2> QED
    BY <1>1, <1>7, <2>1 DEF SwitchInv, Agreed
<1>11. Overtaken'
  <2> SUFFICES ASSUME NEW c \in 1..made, c = cur, pending' # 0, LastWord(c)' PROVE FALSE
    <3>1. cur' = cur /\ (cur # 0 => cur \in 1..made)
      BY <1>1, <1>2
    <3> QED
      BY <3>1 DEF Overtaken, LastWord
  <2>1. LastWord(c)
    BY <1>2, <1>9, LastWordStays
  <2>2. pending = 0
    BY <1>2, <2>1 DEF SwitchInv, Overtaken
  <2>3. pending' = n /\ (explicit \/ ~Coalesces(k))
    BY <1>8, <2>2
  <2>4. n \in (c + 1)..made'
    BY <1>2, <1>7
  <2>5. ~req'[n].explicit /\ req'[n].key = req'[c].key
    BY <2>4 DEF LastWord
  <2>6. ~explicit /\ k = req[c].key
    BY <1>3, <1>8, <1>9, <2>5
  <2>7. Coalesces(k)
    BY <1>2, <1>4, <2>2, <2>6 DEF Coalesces
  <2> QED
    BY <2>3, <2>6, <2>7
<1>12. Carried'
  <2>1. pc \in {"opened", "install", "finish"} \union Binding => cur \in 1..made
    BY <1>2 DEF CInv, Numbered, Binding, Attaching, Locked
  <2>2. pc \in {"opened", "install", "finish"} \union Binding => req'[cur].key = req[cur].key
    BY <1>9, <2>1
  <2> QED
    BY <1>1, <2>2 DEF SwitchInv, Carried
<1>13. Settled'
  <2> SUFFICES ASSUME NEW i \in 1..made', ~lifecycleDone', LastWord(i)', req'[i].reply = "ok"
               PROVE  /\ pending' = 0 /\ pc' = "select" /\ lastKey' = req'[i].key
                      /\ state' = "ready" /\ dbConn' # 0 /\ connKey'[dbConn'] = req'[i].key
    BY DEF Settled
  <2>1. i # n
    <3> SUFFICES ASSUME i = n PROVE FALSE
      OBVIOUS
    <3>1. req'[n].explicit
      BY DEF LastWord
    <3> QED
      BY <1>3, <1>8, <3>1
  <2>2. i \in 1..made
    BY <1>2, <1>7, <2>1
  <2>3. LastWord(i)
    BY <1>2, <1>9, <2>2, LastWordStays
  <2>4. /\ pending = 0 /\ pc = "select" /\ lastKey = req[i].key
        /\ state = "ready" /\ dbConn # 0 /\ connKey[dbConn] = req[i].key
    <3>1. req[i].reply = "ok" /\ ~lifecycleDone
      BY <1>1, <1>5, <1>8, <2>2
    <3> QED
      BY <2>2, <2>3, <3>1 DEF SwitchInv, Settled
  <2>5. n \in (i + 1)..made'
    BY <1>2, <1>7, <2>2
  <2>6. ~req'[n].explicit /\ req'[n].key = req'[i].key
    BY <2>5 DEF LastWord
  <2>7. ~explicit /\ k = req[i].key
    BY <1>3, <1>8, <1>9, <2>2, <2>6
  <2>8. Coalesces(k)
    BY <2>4, <2>7 DEF Coalesces
  <2>9. pending' = 0
    BY <1>8, <2>4, <2>7, <2>8
  <2> QED
    BY <1>1, <1>9, <2>2, <2>4, <2>9
<1> QED
  BY <1>10, <1>11, <1>12, <1>13 DEF SwitchInv

\* Stop answers what is pending: after it nothing is settled.
LEMMA StopSwitch ==
  ASSUME CInv, SwitchInv, RunEnds \/ StopCoordinator
  PROVE  SwitchInv'
<1>1. /\ UNCHANGED <<made, active, lastKey, cur, result, state, dbConn, connKey, candidate, lifecycleDone>>
      /\ lifecycleDone /\ CoordinatorStop /\ pc' \in {pc, "exit"}
  <2>1. CASE RunEnds
    BY <2>1 DEF RunEnds, serverVars, connVars, stopVars
  <2>2. CASE StopCoordinator
    <3>1. stopping = "canceled" /\ (stopping # "no" => lifecycleDone)
      BY <2>2 DEF StopCoordinator, CInv, HandsEmpty
    <3>2. lifecycleDone
      BY <3>1
    <3>3. UNCHANGED <<made, active, lastKey, pc, cur, result, state, dbConn, connKey, candidate, lifecycleDone>> /\ CoordinatorStop
      BY <2>2 DEF StopCoordinator, serverVars, connVars
    <3> QED
      BY <3>2, <3>3
  <2> QED
    BY <2>1, <2>2
<1>2. made \in Nat /\ req \in Reqs /\ pending \in 0..made /\ cur \in 0..made /\ 1..made \subseteq Ids
  BY Asking
<1>3. /\ \/ req' = req
         \/ req' = Answer(req, pending, "canceled") /\ pending' = 0
      /\ pending' \in {pending, 0}
  BY <1>1 DEF CoordinatorStop
<1>4. "canceled" \in Answers
  BY DEF Answers
<1>5. \A j \in Ids : req'[j].key = req[j].key
  BY <1>2, <1>3, <1>4, AnswerKeeps
<1>6. \A j \in Ids : j > made => req'[j].reply = req[j].reply
  <2>1. \A j \in Ids : j > made => j # pending
    BY <1>2 DEF Ids
  <2> QED
    BY <1>2, <1>3, <1>4, <2>1, AnswerIs
<1>7. Agreed'
  BY <1>1, <1>6 DEF SwitchInv, Agreed
<1>8. Overtaken'
  BY <1>1, <1>3 DEF SwitchInv, Overtaken, LastWord
<1>9. Carried'
  <2>1. pc \in {"opened", "install"} => cur \in Ids
    BY Asking DEF Attaching, Locked
  <2> QED
    BY <1>1, <1>5, <2>1 DEF SwitchInv, Carried
<1>10. Settled'
  BY <1>1 DEF Settled
<1> QED
  BY <1>7, <1>8, <1>9, <1>10 DEF SwitchInv

\* Nothing is settled while something is pending, so a claim unsettles nothing.
LEMMA ClaimSwitch ==
  ASSUME CInv, SwitchInv, RunClaims
  PROVE  SwitchInv'
<1>1. UNCHANGED <<made, req, lastKey, stopped, result, state, dbConn, connKey, candidate, lifecycleDone>>
  BY DEF RunClaims, reqVars, serverVars, connVars, stopVars
<1>2. pc = "select"
  BY DEF RunClaims
<1>3. CASE stopped /\ pc' = "exit" /\ UNCHANGED <<pending, active, cur, canceled>>
  <2>1. lifecycleDone' /\ pc' = "exit"
    BY <1>1, <1>3 DEF SwitchInv, Agreed
  <2>2. Carried'
    BY <2>1 DEF Carried, Binding
  <2> QED
    BY <1>1, <1>2, <1>3, <2>1, <2>2, SwitchFrame
<1>4. CASE ~stopped /\ pending = 0 /\ UNCHANGED <<pc, pending, active, cur, canceled>>
  <2>1. Carried'
    BY <1>2, <1>4 DEF Carried, Binding
  <2> QED
    BY <1>1, <1>2, <1>4, <2>1, SwitchFrame
<1>5. CASE /\ ~stopped /\ pending # 0 /\ pc' = "claimed"
           /\ active' = pending /\ cur' = pending /\ pending' = PendingTaken /\ canceled' = FALSE
  <2>1. Agreed' /\ Overtaken' /\ Carried'
    BY <1>1, <1>5 DEF SwitchInv, Agreed, Overtaken, Carried, PendingTaken, Binding
  <2>2. Settled'
    BY <1>1, <1>5 DEF SwitchInv, Settled, LastWord
  <2> QED
    BY <2>1, <2>2 DEF SwitchInv
<1> QED
  BY <1>3, <1>4, <1>5 DEF RunClaims

\* The coordinator answers: with success only when the server has the connection, and
\* then nothing that asks for another one is in between.
LEMMA AnswersSwitch ==
  ASSUME CInv, SwitchInv, RunDrops \/ RunAnswers
  PROVE  SwitchInv'
<1>1. /\ UNCHANGED <<made, pending, stopped, state, dbConn, connKey, candidate, lifecycleDone>>
      /\ active' = 0 /\ cur' = 0 /\ pc \in {"claimed", "finish"} /\ pc' \in {"select", "exit"}
  BY DEF RunDrops, RunAnswers, serverVars, connVars, stopVars
<1>2. made \in Nat /\ req \in Reqs /\ cur \in 0..made /\ cur \in Ids /\ 1..made \subseteq Ids /\ result \in Answers
  BY <1>1, Asking
<1> PICK c \in Ids : c = cur
  BY <1>2
<1>3. \E a \in Answers : req' = Answer(req, c, a) /\ (a = "ok" => RunAnswers /\ result = "ok")
  <2>1. "canceled" \in Answers
    BY DEF Answers
  <2> QED
    BY <1>2, <2>1 DEF RunDrops, RunAnswers
<1> PICK a \in Answers : req' = Answer(req, c, a) /\ (a = "ok" => RunAnswers /\ result = "ok")
  BY <1>3
<1>4. \A j \in Ids : /\ req'[j].key = req[j].key /\ req'[j].explicit = req[j].explicit
                     /\ j # c => req'[j].reply = req[j].reply
                     /\ req'[c].reply = "ok" => a = "ok"
  BY <1>2, AnswerKeeps, AnswerIs
<1>5. Agreed'
  <2>1. \A j \in Ids : j > made => j # c
    BY <1>2 DEF Ids
  <2> QED
    BY <1>1, <1>4, <2>1 DEF SwitchInv, Agreed
<1>6. Overtaken' /\ Carried'
  BY <1>1 DEF Overtaken, Carried, Binding
<1>7. Settled'
  <2> SUFFICES ASSUME NEW i \in 1..made', ~lifecycleDone', LastWord(i)', req'[i].reply = "ok"
               PROVE  /\ pending' = 0 /\ pc' = "select" /\ lastKey' = req'[i].key
                      /\ state' = "ready" /\ dbConn' # 0 /\ connKey'[dbConn'] = req'[i].key
    BY DEF Settled
  <2>1. i \in 1..made /\ i \in Ids /\ ~lifecycleDone
    BY <1>1, <1>2
  <2>2. \A j \in 1..made : req'[j].key = req[j].key /\ req'[j].explicit = req[j].explicit
    BY <1>2, <1>4
  <2>3. LastWord(i)
    BY <1>1, <1>2, <2>1, <2>2, LastWordStays
  <2>4. i = c
    <3> SUFFICES ASSUME i # c PROVE FALSE
      OBVIOUS
    <3>1. req[i].reply = "ok"
      BY <1>4, <2>1
    <3>2. pc = "select"
      BY <2>1, <2>3, <3>1 DEF SwitchInv, Settled
    <3> QED
      BY <1>1, <3>2
  <2>5. RunAnswers /\ result = "ok"
    BY <1>4, <2>1, <2>4
  <2>6. pc = "finish" /\ pc' = "select" /\ lastKey' = req[c].key
    BY <2>5 DEF RunAnswers, LastKey
  <2>7. pending = 0
    <3>1. c # 0
      BY <2>1, <2>4
    <3> QED
      BY <2>3, <2>4, <3>1 DEF SwitchInv, Overtaken
  <2>8. state = "ready" /\ dbConn # 0 /\ connKey[dbConn] = req[c].key
    BY <2>1, <2>5, <2>6 DEF SwitchInv, Carried
  <2> QED
    BY <1>1, <1>4, <2>1, <2>4, <2>6, <2>7, <2>8
<1> QED
  BY <1>5, <1>6, <1>7 DEF SwitchInv

-----------------------------------------------------------------------------
(* The attempt, and everybody else.                                        *)

\* The steps of an attempt: what was opened is what was asked for, and it is kept.
LEMMA AttemptSwitch ==
  ASSUME CInv, SwitchInv,
         \/ RunAttaches \/ AttachBegins \/ AttachNothing \/ AttachLocks \/ AttachDetaches \/ AttachHandsOver
         \/ AttachGivesUp \/ AttachChecks \/ AttachInstalls \/ OpenReturns \/ OpenFails
         \/ TargetUnresolved \/ BindChooses \/ RefreshReturns \/ AcquireFails \/ AcquireReturns \/ BindCommits
  PROVE  SwitchInv'
<1>1. /\ UNCHANGED <<made, req, pending, active, lastKey, stopped, cur, lifecycleDone>>
      /\ pc # "select" /\ pc' # "select"
  BY DEF RunAttaches, AttachBegins, AttachNothing, AttachLocks, AttachDetaches, AttachHandsOver, AttachGivesUp,
         AttachChecks, AttachInstalls, OpenReturns, OpenFails, TargetUnresolved, BindChooses, RefreshReturns,
         AcquireFails, AcquireFailed, AcquireReturns, BindCommits, Finish, Goes, reqVars, coordVars, stopVars
<1>2. Carried'
  <2>1. CASE RunAttaches \/ AttachBegins \/ AttachNothing \/ AttachLocks \/ AttachDetaches \/ AttachHandsOver \/ OpenFails \/ AttachGivesUp
    <3>1. pc' \in {"attach", "nothing", "lock", "locked", "enqueue", "open"} \/ (pc' = "finish" /\ result' # "ok")
      BY <2>1 DEF RunAttaches, AttachBegins, AttachNothing, AttachLocks, AttachDetaches, AttachHandsOver, OpenFails,
                  AttachGivesUp, Finish, Goes
    <3> QED
      BY <3>1 DEF Carried, Binding
  <2>2. CASE OpenReturns
    <3>1. /\ opened' = opened + 1 /\ connKey' = [connKey EXCEPT ![opened + 1] = curKey] /\ candidate' = opened + 1
          /\ pc = "open" /\ pc' = "opened"
      BY <2>2 DEF OpenReturns, Goes
    <3>2. opened + 1 \in Ids /\ connKey \in [Ids -> Keys \union {NoKey}]
      <4>1. opened \in Nat /\ generation \in Nat /\ opened < generation /\ generation <= made
        BY <3>1, CoordinatorAssumption DEF CInv, TypeOK, Numbered
      <4> QED
        BY <4>1, Asking DEF Ids, CInv, TypeOK
    <3>3. connKey'[candidate'] = curKey
      BY <3>1, <3>2
    <3>4. curKey = req[cur].key
      BY <3>1 DEF CInv, MetadataFollows
    <3> QED
      BY <1>1, <3>1, <3>3, <3>4 DEF Carried, Binding
  <2>3. CASE AttachChecks
    BY <1>1, <2>3 DEF AttachChecks, Goes, SwitchInv, Carried, Binding, connVars
  <2>4. CASE AttachInstalls
    <3>1. candidate # 0 /\ connKey[candidate] = req[cur].key
      BY <2>4 DEF AttachInstalls, CInv, HandsEmpty, SwitchInv, Carried
    <3> QED
      BY <1>1, <2>4, <3>1 DEF AttachInstalls, Goes, Carried, Binding
  <2>5. CASE TargetUnresolved \/ BindChooses \/ RefreshReturns \/ AcquireFails \/ AcquireReturns \/ BindCommits
    <3>1. /\ pc \in Binding /\ pc' \in Binding \union {"finish"}
          /\ UNCHANGED <<state, dbConn, connKey>>
      BY <2>5 DEF TargetUnresolved, BindChooses, RefreshReturns, AcquireFails, AcquireFailed, AcquireReturns, BindCommits,
                  Finish, Goes, Binding, serverVars, connVars
    <3> QED
      BY <1>1, <3>1 DEF SwitchInv, Carried, Binding
  <2> QED
    BY <2>1, <2>2, <2>3, <2>4, <2>5
<1> QED
  BY <1>1, <1>2, SwitchFrame

\* Everybody else: commands and signals, metadata, Stop, the worker and the queries.
LEMMA OthersSwitch ==
  ASSUME CInv, SwitchInv,
         \/ NotifierLooks \/ AfterFunc \/ StopCancels \/ StopDetaches \/ QueueCloses \/ CleanupWorker
         \/ (\E i \in Ids : CommandCanceled(i) \/ Wakes(i))
         \/ (\E k \in Keys : HubCloses(k)) \/ (\E l \in Ids : WatcherReturns(l))
         \/ (\E q \in Queries : QueryStarts(q) \/ QueryTakes(q) \/ QueryEnds(q))
         \/ UNCHANGED vars
  PROVE  SwitchInv'
<1>1. UNCHANGED <<made, req, pending, active, lastKey, stopped, pc, cur, result, connKey, candidate>>
  BY DEF NotifierLooks, AfterFunc, StopCancels, StopDetaches, QueueCloses, CleanupWorker, WorkerTakes, WorkerCloses,
         WorkerFinishes, CommandCanceled, Wakes, HubCloses, WatcherReturns, QueryStarts, QueryTakes, QueryEnds,
         UnlessQuery, vars, reqVars, coordVars, runVars, connVars
<1>2. (lifecycleDone => lifecycleDone') /\ (~lifecycleDone' => UNCHANGED <<state, dbConn>>)
  <2>1. CASE StopCancels
    BY <2>1 DEF StopCancels
  <2>2. CASE StopDetaches
    BY <2>2 DEF StopDetaches, CInv, HandsEmpty
  <2>3. CASE ~StopCancels /\ ~StopDetaches
    BY <2>3 DEF NotifierLooks, AfterFunc, QueueCloses, CleanupWorker, WorkerTakes, WorkerCloses,
         WorkerFinishes, CommandCanceled, Wakes, HubCloses, WatcherReturns, QueryStarts, QueryTakes, QueryEnds,
         UnlessQuery, vars, serverVars, stopVars
  <2> QED
    BY <2>1, <2>2, <2>3
<1>3. Carried'
  BY <1>1, <1>2 DEF SwitchInv, Carried
<1> QED
  BY <1>1, <1>2, <1>3, SwitchFrame

\* Every step keeps it.
LEMMA NextSwitch == CInv /\ SwitchInv /\ [Next]_vars => SwitchInv'
<1> SUFFICES ASSUME CInv, SwitchInv, [Next]_vars PROVE SwitchInv'
  OBVIOUS
<1>1. CASE \E k \in Asked : Notify(k) \/ Switch(k)
  BY <1>1, RequestSwitch DEF Notify, Switch
<1>2. CASE RunEnds \/ StopCoordinator
  BY <1>2, StopSwitch
<1>3. CASE RunClaims
  BY <1>3, ClaimSwitch
<1>4. CASE RunDrops \/ RunAnswers
  BY <1>4, AnswersSwitch
<1>5. CASE \/ RunAttaches \/ AttachBegins \/ AttachNothing \/ AttachLocks \/ AttachDetaches \/ AttachHandsOver
           \/ AttachGivesUp \/ AttachChecks \/ AttachInstalls \/ OpenReturns \/ OpenFails
           \/ TargetUnresolved \/ BindChooses \/ RefreshReturns \/ AcquireFails \/ AcquireReturns \/ BindCommits
  BY <1>5, AttemptSwitch
<1>6. CASE \/ NotifierLooks \/ AfterFunc \/ StopCancels \/ StopDetaches \/ QueueCloses \/ CleanupWorker
           \/ (\E i \in Ids : CommandCanceled(i) \/ Wakes(i))
           \/ (\E k \in Keys : HubCloses(k)) \/ (\E l \in Ids : WatcherReturns(l))
           \/ (\E q \in Queries : QueryStarts(q) \/ QueryTakes(q) \/ QueryEnds(q))
           \/ UNCHANGED vars
  BY <1>6, OthersSwitch
<1> QED
  BY <1>1, <1>2, <1>3, <1>4, <1>5, <1>6 DEF Next, Coordinator, StopGoesOn, Done

\* A switch answered with success, and followed by nothing but notifications for the
\* same connection, is what the server ends up with (SwitchTakes).
THEOREM LastSwitchIsWhatRemains == Spec => []SwitchTakes
<1>1. Init => CInv /\ SwitchInv
  BY InitInv, InitSwitch
<1>2. CInv /\ SwitchInv /\ [Next]_vars => (CInv /\ SwitchInv)'
  BY NextInv, NextSwitch
<1>3. CInv /\ SwitchInv => SwitchTakes
  <2> SUFFICES ASSUME SwitchInv, Quiet, NEW i \in 1..made, req[i].explicit /\ req[i].reply = "ok",
                      \A j \in (i + 1)..made : ~req[j].explicit /\ req[j].key = req[i].key
               PROVE  state = "ready" /\ dbConn # 0 /\ connKey[dbConn] = req[i].key
    BY DEF SwitchTakes
  <2>1. ~lifecycleDone /\ LastWord(i)
    BY DEF Quiet, LastWord
  <2> QED
    BY <2>1 DEF SwitchInv, Settled
<1> QED
  BY <1>1, <1>2, <1>3, PTL DEF Spec

=============================================================================
