--------------------------- MODULE MetadataLoader ---------------------------
(***************************************************************************)
(* One metadata.Loader (metadata/loader.go): the generation state machine  *)
(* that lives under l.mu, the schedule goroutine of every generation that  *)
(* was started, and the runner goroutine of every admitted category job.   *)
(*                                                                         *)
(* Every step is one critical section of l.mu, one channel operation or    *)
(* one context check, so schedulers and runners of a retired generation    *)
(* interleave freely with those of the current one.  The immutable         *)
(* snapshot is its fields: generation, revision, started, startFailed,     *)
(* stale, status and cache.  A cached category is the pair <<k, g>> of its *)
(* kind and of the generation whose job read it; the rows are abstracted.  *)
(* Permits are one pool here: module MetadataBudget has both levels and    *)
(* the wake epochs, and shows that a parked scheduler with a free permit   *)
(* is woken, which is what Wake below assumes.                             *)
(***************************************************************************)
EXTENDS Integers, FiniteSets

CONSTANTS
  Kinds,        \* metadata categories a plan can name
  DependsOn,    \* DependsOn[k]: the prerequisites of k's job
  Parallelism,  \* MetadataPlan.Parallelism
  Permits,      \* permits of the semaphore every generation shares
  MaxGen,       \* bound: generations 1..MaxGen are requested
  ParentCancel, \* whether the caller's context may end before Stop is called
  None          \* "no job in hand"

ASSUME LoaderAssumption ==
  /\ DependsOn \in [Kinds -> SUBSET Kinds]
  /\ Parallelism \in Nat \ {0}
  /\ Permits \in Nat \ {0}
  /\ MaxGen \in Nat
  /\ ParentCancel \in BOOLEAN
  /\ None \notin Kinds

Gens == 1..MaxGen
State == {"Unsupported", "Pending", "Loading", "Ready", "Failed", "Blocked", "Cancelled"}
Unsettled == {"Pending", "Loading"}

VARIABLES
  generation, revision, started, startFailed, stopped, stale, status, cache,
  parentDone,   \* the context the owner passes to Start has ended
  ctx,          \* ctx[g]: the job context of generation g
  done,         \* done[g]: the Load.Done channel of generation g
  active,       \* l.active: goroutines l.Wait must outlive
  slots,        \* permits taken from the semaphore
  pc, plan, local, hand, staged,     \* the schedule goroutine of g
  runner, input, outcome, results    \* the runners of g and its channel

loaderVars == <<generation, revision, started, startFailed, stopped, stale, status, cache>>
schedVars  == <<pc, plan, local, hand, staged>>
runVars    == <<runner, input, outcome, results>>
vars == <<loaderVars, parentDone, ctx, done, active, slots, schedVars, runVars>>

PC == {"idle", "top", "scan", "admit", "park", "merge", "publish", "fail", "settle", "finish", "exit", "exited"}
RunnerPC == {"idle", "admitted", "running", "returned", "releasing", "finishing", "finished"}

TypeOK ==
  /\ generation \in 0..MaxGen
  /\ revision \in Nat
  /\ started \in BOOLEAN /\ startFailed \in BOOLEAN
  /\ stopped \in BOOLEAN /\ stale \in BOOLEAN
  /\ status \in [Kinds -> State]
  /\ cache \in SUBSET (Kinds \X Gens)
  /\ parentDone \in BOOLEAN
  /\ ctx \in [Gens -> {"none", "live", "cancelled"}]
  /\ done \in [Gens -> {"none", "open", "closed"}]
  /\ active \in Int /\ slots \in Int
  /\ pc \in [Gens -> PC]
  /\ plan \in [Gens -> SUBSET Kinds]
  /\ local \in [Gens -> [Kinds -> State]]
  /\ hand \in [Gens -> Kinds \union {None}]
  /\ \A g \in Gens : pc[g] \in {"admit", "merge", "publish", "fail"} => hand[g] \in Kinds
  /\ staged \in [Gens -> SUBSET (Kinds \X Gens)]
  /\ runner \in [Gens -> [Kinds -> RunnerPC]]
  /\ input \in [Gens -> [Kinds -> SUBSET (Kinds \X Gens)]]
  /\ outcome \in [Gens -> [Kinds -> {"ok", "err"}]]
  /\ results \in [Gens -> SUBSET Kinds]

Init ==
  /\ generation = 0 /\ revision = 0
  /\ started = FALSE /\ startFailed = FALSE /\ stopped = FALSE /\ stale = FALSE
  /\ status = [k \in Kinds |-> "Unsupported"]
  /\ cache = {}
  /\ parentDone = FALSE
  /\ ctx = [g \in Gens |-> "none"]
  /\ done = [g \in Gens |-> "none"]
  /\ active = 0 /\ slots = 0
  /\ pc = [g \in Gens |-> "idle"]
  /\ plan = [g \in Gens |-> {}]
  /\ local = [g \in Gens |-> [k \in Kinds |-> "Unsupported"]]
  /\ hand = [g \in Gens |-> None]
  /\ staged = [g \in Gens |-> {}]
  /\ runner = [g \in Gens |-> [k \in Kinds |-> "idle"]]
  /\ input = [g \in Gens |-> [k \in Kinds |-> {}]]
  /\ outcome = [g \in Gens |-> [k \in Kinds |-> "err"]]
  /\ results = [g \in Gens |-> {}]

-----------------------------------------------------------------------------
(* Helpers shared by the operations.                                       *)

\* Slip: a settled category is cancelled with the rest.
CancelledAll(st) == [k \in Kinds |-> IF st[k] # "Unsupported" THEN "Cancelled" ELSE st[k]]

\* The status a cancelled generation is left with.
Cancelled(st) == [k \in Kinds |-> IF st[k] \in Unsettled THEN "Cancelled" ELSE st[k]]
HasUnsettled(st) == \E k \in Kinds : st[k] \in Unsettled

\* l.cancel() of the generation in force, when it has a context.
CancelCurrent == [g \in Gens |-> IF g = generation /\ ctx[g] = "live" THEN "cancelled" ELSE ctx[g]]
\* closeDoneLocked
CloseDone == [g \in Gens |-> IF g = generation /\ done[g] = "open" THEN "closed" ELSE done[g]]

\* Slip: the generation and its context are not compared before publishing.
SetStatusUnfenced(g, k, s, c) ==
  IF status[k] \in Unsettled
  THEN status' = [status EXCEPT ![k] = s] /\ cache' = c /\ revision' = revision + 1
  ELSE UNCHANGED <<status, cache, revision>>

\* setStatus: publish one category's outcome, unless the generation moved on,
\* its context ended or the category is already settled.
SetStatus(g, k, s, c) ==
  IF generation = g /\ ctx[g] = "live" /\ status[k] \in Unsettled
  THEN /\ status' = [status EXCEPT ![k] = s]
       /\ cache' = c
       /\ revision' = revision + 1
  ELSE UNCHANGED <<status, cache, revision>>

LocalTerminal(g) == \A k \in plan[g] : local[g][k] \notin Unsettled
Running(g) == Cardinality({k \in Kinds : local[g][k] = "Loading"})
Blockable(g, k) ==
  /\ k \in plan[g] /\ local[g][k] = "Pending"
  /\ \E d \in DependsOn[k] : local[g][d] \in {"Failed", "Blocked", "Cancelled"}
\* Slip: a dependency that was launched counts as ready.
DependenciesLaunched(g, k) == \A d \in DependsOn[k] : local[g][d] \in {"Loading", "Ready"}

DependenciesReady(g, k) == \A d \in DependsOn[k] : local[g][d] = "Ready"
Launchable(g, k) ==
  /\ k \in plan[g] /\ local[g][k] = "Pending"
  /\ DependenciesReady(g, k)
  /\ Running(g) < Parallelism

\* A plan validateMetadataPlan accepts: dependencies are planned too, and no set
\* of jobs waits for itself.
ValidPlan(p) ==
  /\ \A k \in p : DependsOn[k] \subseteq p
  /\ \A S \in (SUBSET p) \ {{}} : \E k \in S : DependsOn[k] \intersect S = {}

-----------------------------------------------------------------------------
(* The loader's operations, called by the registry and the lease.          *)

\* Reset installs an empty generation; duplicate and older requests are ignored.
Reset(g) ==
  /\ ~stopped /\ g > generation
  /\ ctx' = CancelCurrent /\ done' = CloseDone
  /\ generation' = g /\ revision' = 1
  /\ started' = FALSE /\ startFailed' = FALSE /\ stale' = FALSE
  /\ status' = [k \in Kinds |-> "Unsupported"]
  /\ cache' = {}
  /\ UNCHANGED <<stopped, parentDone, active, slots, schedVars, runVars>>

MarkStartFailed(g) ==
  /\ ~stopped /\ g = generation /\ ~started /\ ~startFailed
  /\ startFailed' = TRUE
  /\ revision' = revision + 1
  /\ UNCHANGED <<generation, started, stopped, stale, status, cache, parentDone,
                 ctx, done, active, slots, schedVars, runVars>>

\* Slip: the stopped loader is not checked again after the plan was validated.
StartUnchecked(g, p) ==
  /\ g = generation /\ ~started /\ ~startFailed /\ ValidPlan(p)
  /\ started' = TRUE
  /\ ctx' = [ctx EXCEPT ![g] = IF parentDone THEN "cancelled" ELSE "live"]
  /\ done' = [done EXCEPT ![g] = "open"]
  /\ status' = [k \in Kinds |-> IF k \in p THEN "Pending" ELSE "Unsupported"]
  /\ revision' = revision + 1
  /\ active' = active + 1
  /\ pc' = [pc EXCEPT ![g] = "top"]
  /\ plan' = [plan EXCEPT ![g] = p]
  /\ local' = [local EXCEPT ![g] = [k \in Kinds |-> IF k \in p THEN "Pending" ELSE "Unsupported"]]
  /\ UNCHANGED <<generation, startFailed, stopped, stale, cache, parentDone, slots,
                 hand, staged, runVars>>

\* Start commits under the second critical section, which rechecks everything
\* the first one checked before the plan was validated.
Start(g, p) ==
  /\ ~stopped /\ g = generation /\ ~started /\ ~startFailed
  /\ ValidPlan(p)
  /\ started' = TRUE
  /\ ctx' = [ctx EXCEPT ![g] = IF parentDone THEN "cancelled" ELSE "live"]
  /\ done' = [done EXCEPT ![g] = "open"]
  /\ status' = [k \in Kinds |-> IF k \in p THEN "Pending" ELSE "Unsupported"]
  /\ revision' = revision + 1
  /\ active' = active + 1
  /\ pc' = [pc EXCEPT ![g] = "top"]
  /\ plan' = [plan EXCEPT ![g] = p]
  /\ local' = [local EXCEPT ![g] = [k \in Kinds |-> IF k \in p THEN "Pending" ELSE "Unsupported"]]
  /\ UNCHANGED <<generation, startFailed, stopped, stale, cache, parentDone, slots,
                 hand, staged, runVars>>

\* installSettled: a staged, complete generation goes into a fresh loader.
InstallSettled(g, ready) ==
  /\ ~stopped /\ ~started /\ generation = 0
  /\ generation' = g /\ revision' = 1 /\ started' = TRUE
  /\ status' = [k \in Kinds |-> IF k \in ready THEN "Ready" ELSE "Unsupported"]
  /\ cache' = ready \X {g}
  /\ ctx' = [ctx EXCEPT ![g] = IF parentDone THEN "cancelled" ELSE "live"]
  /\ done' = [done EXCEPT ![g] = "closed"]
  /\ UNCHANGED <<startFailed, stopped, stale, parentDone, active, slots, schedVars, runVars>>

\* markStaleDeferred: nothing new is started and the generation stays.
MarkStale ==
  /\ ~stopped /\ generation # 0 /\ ~stale
  /\ stale' = TRUE
  /\ ctx' = CancelCurrent /\ done' = CloseDone
  /\ status' = Cancelled(status)
  /\ revision' = revision + 1
  /\ UNCHANGED <<generation, started, startFailed, stopped, cache, parentDone,
                 active, slots, schedVars, runVars>>

\* Slip: Stop closes Done and leaves the categories as they are.
StopUnsettled ==
  /\ ~stopped /\ stopped' = TRUE
  /\ ctx' = CancelCurrent /\ done' = CloseDone
  /\ UNCHANGED <<generation, revision, started, startFailed, stale, status, cache, parentDone,
                 active, slots, schedVars, runVars>>

Stop ==
  /\ ~stopped
  /\ stopped' = TRUE
  /\ ctx' = CancelCurrent /\ done' = CloseDone
  /\ status' = Cancelled(status)
  /\ revision' = IF HasUnsettled(status) THEN revision + 1 ELSE revision
  /\ UNCHANGED <<generation, started, startFailed, stale, cache, parentDone,
                 active, slots, schedVars, runVars>>

\* The context handed to Start ends: every job context derived from it ends.
ParentEnds ==
  /\ ParentCancel /\ ~parentDone
  /\ parentDone' = TRUE
  /\ ctx' = [g \in Gens |-> IF ctx[g] = "live" THEN "cancelled" ELSE ctx[g]]
  /\ UNCHANGED <<loaderVars, done, active, slots, schedVars, runVars>>

-----------------------------------------------------------------------------
(* The schedule goroutine of generation g.                                 *)

\* The loop condition, then the context check at the top of the body.
Top(g) ==
  /\ pc[g] = "top"
  /\ pc' = [pc EXCEPT ![g] = IF LocalTerminal(g) THEN "finish"
                             ELSE IF ctx[g] = "cancelled" THEN "settle" ELSE "scan"]
  /\ UNCHANGED <<loaderVars, parentDone, ctx, done, active, slots, plan, local, hand, staged, runVars>>

\* A failed prerequisite blocks its dependents, before anything is launched.
BlockDependent(g, k) ==
  /\ pc[g] = "scan" /\ Blockable(g, k)
  /\ local' = [local EXCEPT ![g][k] = "Blocked"]
  /\ SetStatus(g, k, "Blocked", cache)
  /\ UNCHANGED <<generation, started, startFailed, stopped, stale, parentDone, ctx, done,
                 active, slots, pc, plan, hand, staged, runVars>>

TryAcquireSlot(g, k) ==
  /\ pc[g] = "scan" /\ \A j \in Kinds : ~Blockable(g, j)
  /\ Launchable(g, k) /\ slots < Permits
  /\ slots' = slots + 1
  /\ pc' = [pc EXCEPT ![g] = "admit"]
  /\ hand' = [hand EXCEPT ![g] = k]
  /\ UNCHANGED <<loaderVars, parentDone, ctx, done, active, plan, local, staged, runVars>>

\* admitJob's own checks; they subsume the context check that precedes the call.
Admissible(g, k) ==
  /\ ~stopped /\ started /\ generation = g
  /\ ctx[g] = "live" /\ status[k] = "Pending"

\* admitJob: the launch linearization point hands the job the cache of its own
\* generation.
AdmitJob(g) ==
  LET k == hand[g] IN
  /\ pc[g] = "admit" /\ Admissible(g, k)
  /\ status' = [status EXCEPT ![k] = "Loading"]
  /\ revision' = revision + 1
  /\ active' = active + 1
  /\ runner' = [runner EXCEPT ![g][k] = "admitted"]
  /\ input' = [input EXCEPT ![g][k] = cache]
  /\ local' = [local EXCEPT ![g][k] = "Loading"]
  /\ hand' = [hand EXCEPT ![g] = None]
  /\ pc' = [pc EXCEPT ![g] = "scan"]
  /\ UNCHANGED <<generation, started, startFailed, stopped, stale, cache, parentDone,
                 ctx, done, slots, plan, staged, outcome, results>>

\* Slip: the rejected job keeps its permit.
RejectJobLeaks(g) ==
  /\ pc[g] = "admit" /\ ~Admissible(g, hand[g])
  /\ hand' = [hand EXCEPT ![g] = None]
  /\ pc' = [pc EXCEPT ![g] = "settle"]
  /\ UNCHANGED <<loaderVars, parentDone, ctx, done, active, slots, plan, local, staged, runVars>>

\* Not admitted: the permit goes back and the generation settles.
RejectJob(g) ==
  /\ pc[g] = "admit" /\ ~Admissible(g, hand[g])
  /\ slots' = slots - 1
  /\ hand' = [hand EXCEPT ![g] = None]
  /\ pc' = [pc EXCEPT ![g] = "settle"]
  /\ UNCHANGED <<loaderVars, parentDone, ctx, done, active, plan, local, staged, runVars>>

\* Nothing more can be launched in this pass.
ScanEnds(g) ==
  /\ pc[g] = "scan" /\ \A j \in Kinds : ~Blockable(g, j)
  /\ slots = Permits \/ \A j \in Kinds : ~Launchable(g, j)
  /\ pc' = [pc EXCEPT ![g] = IF LocalTerminal(g) THEN "finish" ELSE "park"]
  /\ UNCHANGED <<loaderVars, parentDone, ctx, done, active, slots, plan, local, hand, staged, runVars>>

\* Slip: only the loop's own runners wake it.
WakeOwn(g) ==
  /\ pc[g] = "park" /\ slots < Permits
  /\ \E k \in Kinds : Launchable(g, k)
  /\ \E k \in Kinds : runner[g][k] # "idle"
  /\ pc' = [pc EXCEPT ![g] = "top"]
  /\ UNCHANGED <<loaderVars, parentDone, ctx, done, active, slots, plan, local, hand, staged, runVars>>

\* A store or host epoch closed: scan again.
Wake(g) ==
  /\ pc[g] = "park" /\ slots < Permits
  /\ \E k \in Kinds : Launchable(g, k)
  /\ pc' = [pc EXCEPT ![g] = "top"]
  /\ UNCHANGED <<loaderVars, parentDone, ctx, done, active, slots, plan, local, hand, staged, runVars>>

ParkCancelled(g) ==
  /\ pc[g] = "park" /\ ctx[g] = "cancelled"
  /\ pc' = [pc EXCEPT ![g] = "settle"]
  /\ UNCHANGED <<loaderVars, parentDone, ctx, done, active, slots, plan, local, hand, staged, runVars>>

\* Slip: the loop forgets which job the result belongs to.
ReceiveResultForgets(g, k) ==
  /\ pc[g] = "park" /\ k \in results[g]
  /\ results' = [results EXCEPT ![g] = @ \ {k}]
  /\ local' = [local EXCEPT ![g][k] = "Failed"]
  /\ pc' = [pc EXCEPT ![g] = IF ctx[g] = "cancelled" THEN "settle"
                             ELSE IF outcome[g][k] = "ok" THEN "merge" ELSE "fail"]
  /\ UNCHANGED <<loaderVars, parentDone, ctx, done, active, slots, plan, hand, staged, runner, input, outcome>>

\* A result arrives; the select may prefer it to a context that has ended.
ReceiveResult(g, k) ==
  /\ pc[g] = "park" /\ k \in results[g]
  /\ results' = [results EXCEPT ![g] = @ \ {k}]
  /\ local' = [local EXCEPT ![g][k] = "Failed"]
  /\ IF ctx[g] = "cancelled"
     THEN pc' = [pc EXCEPT ![g] = "settle"] /\ UNCHANGED hand
     ELSE /\ pc' = [pc EXCEPT ![g] = IF outcome[g][k] = "ok" THEN "merge" ELSE "fail"]
          /\ hand' = [hand EXCEPT ![g] = k]
  /\ UNCHANGED <<loaderVars, parentDone, ctx, done, active, slots, plan, staged, runner, input, outcome>>

\* l.Cache() and mergeMetadata: the merged cache is built outside l.mu.
Merge(g) ==
  /\ pc[g] = "merge"
  /\ staged' = [staged EXCEPT ![g] = cache \union {<<hand[g], g>>}]
  /\ pc' = [pc EXCEPT ![g] = "publish"]
  /\ UNCHANGED <<loaderVars, parentDone, ctx, done, active, slots, plan, local, hand, runVars>>

\* mergeMetadata rejects the patch.
MergeFails(g) ==
  /\ pc[g] = "merge"
  /\ pc' = [pc EXCEPT ![g] = "fail"]
  /\ UNCHANGED <<loaderVars, parentDone, ctx, done, active, slots, plan, local, hand, staged, runVars>>

PublishReady(g) ==
  /\ pc[g] = "publish"
  /\ SetStatus(g, hand[g], "Ready", staged[g])
  /\ local' = [local EXCEPT ![g][hand[g]] = "Ready"]
  /\ staged' = [staged EXCEPT ![g] = {}]
  /\ hand' = [hand EXCEPT ![g] = None]
  /\ pc' = [pc EXCEPT ![g] = "top"]
  /\ UNCHANGED <<generation, started, startFailed, stopped, stale, parentDone, ctx, done,
                 active, slots, plan, runVars>>

PublishFailed(g) ==
  /\ pc[g] = "fail"
  /\ SetStatus(g, hand[g], "Failed", cache)
  /\ hand' = [hand EXCEPT ![g] = None]
  /\ pc' = [pc EXCEPT ![g] = "top"]
  /\ UNCHANGED <<generation, started, startFailed, stopped, stale, parentDone, ctx, done,
                 active, slots, plan, local, staged, runVars>>

\* Slip: the cancelled statuses are published under the old revision.
SettleCancelledInPlace(g) ==
  /\ pc[g] = "settle"
  /\ pc' = [pc EXCEPT ![g] = "exit"]
  /\ IF generation = g
     THEN status' = Cancelled(status) /\ done' = CloseDone
     ELSE UNCHANGED <<status, done>>
  /\ UNCHANGED <<generation, revision, started, startFailed, stopped, stale, cache, parentDone, ctx,
                 active, slots, plan, local, hand, staged, runVars>>

SettleCancelled(g) ==
  /\ pc[g] = "settle"
  /\ pc' = [pc EXCEPT ![g] = "exit"]
  /\ IF generation = g
     THEN /\ status' = Cancelled(status)
          /\ revision' = IF HasUnsettled(status) THEN revision + 1 ELSE revision
          /\ done' = CloseDone
     ELSE UNCHANGED <<status, revision, done>>
  /\ UNCHANGED <<generation, started, startFailed, stopped, stale, cache, parentDone, ctx,
                 active, slots, plan, local, hand, staged, runVars>>

Finish(g) ==
  /\ pc[g] = "finish"
  /\ pc' = [pc EXCEPT ![g] = "exit"]
  /\ done' = IF generation = g THEN CloseDone ELSE done
  /\ UNCHANGED <<loaderVars, parentDone, ctx, active, slots, plan, local, hand, staged, runVars>>

\* The deferred runnerFinished of the schedule goroutine.
SchedulerExits(g) ==
  /\ pc[g] = "exit"
  /\ pc' = [pc EXCEPT ![g] = "exited"]
  /\ active' = active - 1
  /\ UNCHANGED <<loaderVars, parentDone, ctx, done, slots, plan, local, hand, staged, runVars>>

-----------------------------------------------------------------------------
(* The runner goroutine of job k of generation g.                          *)

\* The context check and markMetadataJobStarted; a job that must not start
\* returns without a result.
RunnerStarts(g, k) ==
  /\ runner[g][k] = "admitted"
  /\ IF ~stopped /\ generation = g /\ ctx[g] = "live" /\ status[k] = "Loading"
     THEN /\ runner' = [runner EXCEPT ![g][k] = "running"]
          /\ revision' = revision + 1
     ELSE /\ runner' = [runner EXCEPT ![g][k] = "releasing"]
          /\ UNCHANGED revision
  /\ UNCHANGED <<generation, started, startFailed, stopped, stale, status, cache, parentDone,
                 ctx, done, active, slots, schedVars, input, outcome, results>>

\* job.Run returns (a panic is recovered as an error), then
\* recordMetadataJobMetrics publishes counts for its own generation only.
RunReturns(g, k, o) ==
  /\ runner[g][k] = "running"
  /\ outcome' = [outcome EXCEPT ![g][k] = o]
  /\ runner' = [runner EXCEPT ![g][k] = "returned"]
  /\ revision' = IF generation = g /\ status[k] \in {"Loading", "Cancelled"}
                 THEN revision + 1 ELSE revision
  /\ UNCHANGED <<generation, started, startFailed, stopped, stale, status, cache, parentDone,
                 ctx, done, active, slots, schedVars, input, results>>

\* The channel holds one result per job of the plan, so the send never blocks.
SendResult(g, k) ==
  /\ runner[g][k] = "returned"
  /\ results' = [results EXCEPT ![g] = @ \union {k}]
  /\ runner' = [runner EXCEPT ![g][k] = "releasing"]
  /\ UNCHANGED <<loaderVars, parentDone, ctx, done, active, slots, schedVars, input, outcome>>

\* releaseMetadataSlot, the first half of the runner's deferred call.
ReleaseSlot(g, k) ==
  /\ runner[g][k] = "releasing"
  /\ slots' = slots - 1
  /\ runner' = [runner EXCEPT ![g][k] = "finishing"]
  /\ UNCHANGED <<loaderVars, parentDone, ctx, done, active, schedVars, input, outcome, results>>

\* runnerFinished, the second half.
RunnerFinished(g, k) ==
  /\ runner[g][k] = "finishing"
  /\ active' = active - 1
  /\ runner' = [runner EXCEPT ![g][k] = "finished"]
  /\ UNCHANGED <<loaderVars, parentDone, ctx, done, slots, schedVars, input, outcome, results>>

-----------------------------------------------------------------------------
Scheduler(g) ==
  \/ Top(g) \/ AdmitJob(g) \/ RejectJob(g) \/ ScanEnds(g) \/ Wake(g) \/ ParkCancelled(g)
  \/ Merge(g) \/ MergeFails(g) \/ PublishReady(g) \/ PublishFailed(g)
  \/ SettleCancelled(g) \/ Finish(g) \/ SchedulerExits(g)
  \/ \E k \in Kinds : BlockDependent(g, k) \/ TryAcquireSlot(g, k) \/ ReceiveResult(g, k)

\* Everything a runner does except waiting for the native call to return.
RunnerStep(g, k) ==
  RunnerStarts(g, k) \/ SendResult(g, k) \/ ReleaseSlot(g, k) \/ RunnerFinished(g, k)

NativeReturn(g, k) == \E o \in {"ok", "err"} : RunReturns(g, k, o)

Operation ==
  \/ \E g \in Gens : Reset(g) \/ MarkStartFailed(g)
  \/ \E g \in Gens, p \in SUBSET Kinds : Start(g, p) \/ InstallSettled(g, p)
  \/ MarkStale \/ Stop \/ ParentEnds

Next ==
  \/ Operation
  \/ \E g \in Gens : Scheduler(g)
  \/ \E g \in Gens, k \in Kinds : RunnerStep(g, k) \/ NativeReturn(g, k)

Spec == Init /\ [][Next]_vars

\* Goroutines run: each schedule goroutine and each runner keeps taking steps.
\* Nothing is assumed of the callers or of the native calls.
GoroutineFairness ==
  /\ \A g \in Gens : WF_vars(Scheduler(g))
  /\ \A g \in Gens, k \in Kinds : WF_vars(RunnerStep(g, k))

FairSpec == Spec /\ GoroutineFairness

-----------------------------------------------------------------------------
(* Properties.                                                             *)

\* The published snapshot, as a reader of Loader.Snapshot sees it.
snapshot == <<generation, revision, started, startFailed, stale, status, cache>>

\* A snapshot never mixes generations: its cache holds exactly the categories
\* its status calls ready, each read by a job of its own generation, although a
\* retired scheduler may merge into whatever cache it finds (schedule, setStatus).
ReadyIsCached == cache = {k \in Kinds : status[k] = "Ready"} \X {generation}
CacheMatchesStatus == TypeOK /\ ReadyIsCached

\* A job runs against a cache of its own generation in which every prerequisite
\* is loaded, whatever was reset meanwhile (admitJob).
InputsLoaded ==
  \A g \in Gens, k \in Kinds : runner[g][k] \in {"admitted", "running"} =>
    /\ DependsOn[k] \X {g} \subseteq input[g][k]
    /\ input[g][k] \subseteq Kinds \X {g}

\* What the two channels tell those who wait.  Load.Done, "logical settlement of
\* one generation", closes only when every category is settled (finish,
\* settleCancelled, Reset, markStaleDeferred, Stop), unless the owner's context has
\* ended: setStatus then drops a result that the schedule loop counts all the same.
\* Loader.Wait promises the registry's finalizer that when it returns no native call
\* is running, no permit is held and no scheduler is alive.
WaitersAreToldTheTruth ==
  /\ generation # 0 /\ done[generation] = "closed" /\ ~parentDone => ~HasUnsettled(status)
  /\ active = 0 =>
       /\ slots = 0
       /\ \A g \in Gens : pc[g] \in {"idle", "exited"}
       /\ \A g \in Gens, k \in Kinds : runner[g][k] \in {"idle", "finished"}

\* Two snapshots with the same generation and revision are the same snapshot:
\* the diagnostics publisher compares nothing else before it publishes.
RevisionOrder ==
  [][snapshot' # snapshot =>
       \/ generation' > generation
       \/ generation' = generation /\ revision' > revision]_vars

\* Within a generation a settled category is never reopened or overwritten, in
\* particular not by a result that arrives after MarkStale or Stop cancelled it.
SettledStays ==
  [][generation' = generation =>
       \A k \in Kinds : status[k] \in {"Ready", "Failed", "Blocked", "Cancelled"} =>
         status'[k] = status[k]]_vars

\* A driver call ends, by itself or when its context ends.
CallsReturn == \A g \in Gens, k \in Kinds : []<>(runner[g][k] # "running")

\* Every started generation settles, one that waits for permits of a retired
\* generation included, provided native calls return; one that is cancelled
\* settles without waiting for them.
\* Loader.Wait returns after Stop, provided native calls return, and for good:
\* nothing starts on a stopped loader any more (Start, admitJob).
LoadsSettleAndDrain ==
  /\ CallsReturn => \A g \in Gens : done[g] = "open" ~> done[g] = "closed"
  /\ \A g \in Gens : ctx[g] = "cancelled" ~> done[g] # "open"
  /\ CallsReturn => (stopped ~> active = 0)
  /\ [][stopped /\ active = 0 => active' = 0]_vars
=============================================================================
