--------------------------- MODULE MetadataBudget ---------------------------
(***************************************************************************)
(* The two levels of native-call permits (metadata/budget.go) and everyone *)
(* who competes for them: the schedule loops of several loaders, which poll*)
(* without blocking and park on wake epochs (metadata/loader.go), their    *)
(* runners, and detail loads, which block on the channels themselves       *)
(* (StoreBudget.acquire).  A permit operation and the broadcast after it   *)
(* are separate steps.                                                     *)
(*                                                                         *)
(* A waker is modelled by what its waiters can observe: broadcast closes   *)
(* the channel everyone who called wait holds, so each scheduler keeps for *)
(* each level whether the epoch it captured has been closed.  Jobs of one  *)
(* scheduler are independent here; dependencies are in MetadataLoader.     *)
(***************************************************************************)
EXTENDS Naturals, FiniteSets

CONSTANTS
  Schedulers,   \* running schedule loops, each of a different loader or generation
  Loads,        \* detail loads
  Stores,       \* metadata.Key: one StoreBudget each
  StoreOf,      \* StoreOf[x]: the store of a scheduler or of a load
  JobsOf,       \* JobsOf[l]: how many category jobs the plan of l has
  Parallelism,  \* MetadataPlan.Parallelism
  MayCancel,    \* bound: the loops whose context may end
  HostCap,      \* permits of Budget.host
  StoreCap      \* permits of each StoreBudget.sem

ASSUME BudgetAssumption ==
  /\ IsFiniteSet(Schedulers) /\ IsFiniteSet(Loads)
  /\ Schedulers \intersect Loads = {}
  /\ MayCancel \subseteq Schedulers
  /\ StoreOf \in [Schedulers \union Loads -> Stores]
  /\ JobsOf \in [Schedulers -> Nat]
  /\ Parallelism \in Nat \ {0} /\ HostCap \in Nat \ {0} /\ StoreCap \in Nat \ {0}

VARIABLES
  host,         \* permits taken from Budget.host
  store,        \* store[s]: permits taken from the sem of s
  storeClosed,  \* storeClosed[l]: l holds no storeWakeCh that is still open
  hostClosed,   \* hostClosed[l]: l holds no hostWakeCh that is still open
  pc,           \* the schedule loop of l
  next,         \* the job its pass looks at
  sawStoreFull, sawHostFull,
  received,     \* received[l]: the jobs whose result the loop has taken from the channel
  cancelled,    \* the context of l has ended
  job,          \* job[l][j]: job j of l and then its runner
  load          \* load[d]: the detail load d

permits == <<host, store>>
epochs  == <<storeClosed, hostClosed>>
loop    == <<pc, next, sawStoreFull, sawHostFull, received>>
vars    == <<permits, epochs, loop, cancelled, job, load>>

Jobs(l) == 1..JobsOf[l]

\* Giving both permits back: the host permit, the host broadcast, the store
\* permit, the store broadcast.
Stages == {"giveHost", "tellHost", "giveStore", "tellStore", "done"}
LoopPC == {"off", "top", "try", "host", "undo", "rewake", "admit", "park"} \union Stages
JobState == {"pending", "running"} \union Stages
LoadState == {"idle", "storeWait", "hostWait", "loading"} \union Stages

TypeOK ==
  /\ host \in 0..HostCap /\ store \in [Stores -> 0..StoreCap]
  /\ storeClosed \in [Schedulers -> BOOLEAN] /\ hostClosed \in [Schedulers -> BOOLEAN]
  /\ pc \in [Schedulers -> LoopPC]
  /\ sawStoreFull \in [Schedulers -> BOOLEAN] /\ sawHostFull \in [Schedulers -> BOOLEAN]
  /\ cancelled \in [Schedulers -> BOOLEAN]
  /\ \A l \in Schedulers : /\ next[l] \in 1..(JobsOf[l] + 1)
                           /\ received[l] \subseteq Jobs(l)
                           /\ job[l] \in [Jobs(l) -> JobState]
  /\ load \in [Loads -> LoadState]

Init ==
  /\ host = 0 /\ store = [s \in Stores |-> 0]
  /\ storeClosed = [l \in Schedulers |-> TRUE] /\ hostClosed = [l \in Schedulers |-> TRUE]
  /\ pc = [l \in Schedulers |-> "off"] /\ next = [l \in Schedulers |-> 1]
  /\ sawStoreFull = [l \in Schedulers |-> FALSE] /\ sawHostFull = [l \in Schedulers |-> FALSE]
  /\ received = [l \in Schedulers |-> {}]
  /\ cancelled = [l \in Schedulers |-> FALSE]
  /\ job = [l \in Schedulers |-> [j \in Jobs(l) |-> "pending"]]
  /\ load = [d \in Loads |-> "idle"]

-----------------------------------------------------------------------------
(* Permits and wakers.                                                     *)

\* waker.broadcast: every captured epoch closes.
HostBroadcast == hostClosed' = [l \in Schedulers |-> TRUE]
StoreBroadcast(s) == storeClosed' = [l \in Schedulers |-> StoreOf[l] = s \/ storeClosed[l]]

\* One step of giving both permits back, from one stage to the next.
GiveBack(from, to, s) ==
  \/ /\ from = "giveHost" /\ to = "tellHost"
     /\ host' = host - 1 /\ UNCHANGED <<store, epochs>>
  \/ /\ from = "tellHost" /\ to = "giveStore"
     /\ HostBroadcast /\ UNCHANGED <<permits, storeClosed>>
  \/ /\ from = "giveStore" /\ to = "tellStore"
     /\ store' = [store EXCEPT ![s] = @ - 1] /\ UNCHANGED <<host, epochs>>
  \/ /\ from = "tellStore" /\ to = "done"
     /\ StoreBroadcast(s) /\ UNCHANGED <<permits, hostClosed>>

-----------------------------------------------------------------------------
(* The schedule loop of l.                                                 *)

Pending(l) == {j \in Jobs(l) : job[l][j] = "pending"}
Running(l) == Cardinality((Jobs(l) \ Pending(l)) \ received[l])
Sent(l) == {j \in Jobs(l) : job[l][j] \in Stages} \ received[l]

\* Start runs the loop of a new generation in a goroutine of its own.
Starts(l) ==
  /\ pc[l] = "off" /\ pc' = [pc EXCEPT ![l] = "top"]
  /\ UNCHANGED <<permits, epochs, next, sawStoreFull, sawHostFull, received, cancelled, job, load>>

\* The loop condition and the context check, then both epochs are captured
\* before the first attempt of the pass.
Top(l) ==
  /\ pc[l] = "top"
  /\ IF received[l] = Jobs(l) \/ cancelled[l]
     THEN pc' = [pc EXCEPT ![l] = "done"] /\ UNCHANGED epochs
     ELSE /\ pc' = [pc EXCEPT ![l] = "try"]
          /\ storeClosed' = [storeClosed EXCEPT ![l] = FALSE]
          /\ hostClosed' = [hostClosed EXCEPT ![l] = FALSE]
  /\ UNCHANGED <<permits, next, sawStoreFull, sawHostFull, received, cancelled, job, load>>

PassOver(l) == next[l] > JobsOf[l] \/ Running(l) >= Parallelism
Advance(l) == next' = [next EXCEPT ![l] = @ + 1]

EndPass(l) ==
  /\ pc[l] = "try" /\ PassOver(l)
  /\ pc' = [pc EXCEPT ![l] = "park"] /\ next' = [next EXCEPT ![l] = 1]
  /\ UNCHANGED <<permits, epochs, sawStoreFull, sawHostFull, received, cancelled, job, load>>

SkipJob(l) ==
  /\ pc[l] = "try" /\ ~PassOver(l) /\ next[l] \notin Pending(l)
  /\ Advance(l)
  /\ UNCHANGED <<permits, epochs, pc, sawStoreFull, sawHostFull, received, cancelled, job, load>>

\* tryAcquireSlot, the store level.
TryStore(l) ==
  LET s == StoreOf[l] IN
  /\ pc[l] = "try" /\ ~PassOver(l) /\ next[l] \in Pending(l)
  /\ IF store[s] < StoreCap
     THEN /\ store' = [store EXCEPT ![s] = @ + 1]
          /\ pc' = [pc EXCEPT ![l] = "host"]
          /\ UNCHANGED <<next, sawStoreFull>>
     ELSE /\ sawStoreFull' = [sawStoreFull EXCEPT ![l] = TRUE]
          /\ Advance(l)
          /\ UNCHANGED <<store, pc>>
  /\ UNCHANGED <<host, epochs, sawHostFull, received, cancelled, job, load>>

\* tryAcquireSlot, the host level.
TryHost(l) ==
  /\ pc[l] = "host"
  /\ IF host < HostCap
     THEN host' = host + 1 /\ pc' = [pc EXCEPT ![l] = "admit"]
     ELSE UNCHANGED host /\ pc' = [pc EXCEPT ![l] = "undo"]
  /\ UNCHANGED <<store, epochs, next, sawStoreFull, sawHostFull, received, cancelled, job, load>>

\* The host is full: the store permit goes back, and its waiters are told.
UndoStore(l) ==
  /\ pc[l] = "undo"
  /\ store' = [store EXCEPT ![StoreOf[l]] = @ - 1]
  /\ pc' = [pc EXCEPT ![l] = "rewake"]
  /\ UNCHANGED <<host, epochs, next, sawStoreFull, sawHostFull, received, cancelled, job, load>>

TellUndo(l) ==
  /\ pc[l] = "rewake"
  /\ StoreBroadcast(StoreOf[l])
  /\ sawHostFull' = [sawHostFull EXCEPT ![l] = TRUE]
  /\ Advance(l)
  /\ pc' = [pc EXCEPT ![l] = "try"]
  /\ UNCHANGED <<permits, hostClosed, sawStoreFull, received, cancelled, job, load>>

\* Slip: the context is not looked at again once the permits are had.
AdmitAnyway(l) ==
  /\ pc[l] = "admit"
  /\ job' = [job EXCEPT ![l][next[l]] = "running"]
  /\ Advance(l)
  /\ pc' = [pc EXCEPT ![l] = "try"]
  /\ UNCHANGED <<permits, epochs, sawStoreFull, sawHostFull, received, cancelled, load>>

\* The runner starts, or a cancelled generation gives the slot back and settles.
Admit(l) ==
  /\ pc[l] = "admit"
  /\ IF cancelled[l]
     THEN pc' = [pc EXCEPT ![l] = "giveHost"] /\ UNCHANGED <<next, job>>
     ELSE /\ job' = [job EXCEPT ![l][next[l]] = "running"]
          /\ Advance(l)
          /\ pc' = [pc EXCEPT ![l] = "try"]
  /\ UNCHANGED <<permits, epochs, sawStoreFull, sawHostFull, received, cancelled, load>>

RejectGivesBack(l) ==
  /\ \E to \in Stages : GiveBack(pc[l], to, StoreOf[l]) /\ pc' = [pc EXCEPT ![l] = to]
  /\ UNCHANGED <<next, sawStoreFull, sawHostFull, received, cancelled, job, load>>

\* Slip: the loop waits for its own store only, not for the host.
AwakeStoreOnly(l) == storeClosed[l] /\ ~(sawHostFull[l] /\ ~sawStoreFull[l])

\* Slip: the loop waits on the epoch its own rollback has closed.
AwakeOnRollback(l) == hostClosed[l] \/ storeClosed[l]

\* parkStoreWakeCh is nil when only the host blocked this pass: its own rollback
\* has already closed the store epoch it captured.
Awake(l) == hostClosed[l] \/ (storeClosed[l] /\ ~(sawHostFull[l] /\ ~sawStoreFull[l]))

\* The loop goes round: what its pass had seen and the epochs it had captured are gone.
GoesRound(l) ==
  /\ pc' = [pc EXCEPT ![l] = "top"]
  /\ storeClosed' = [storeClosed EXCEPT ![l] = TRUE]
  /\ hostClosed' = [hostClosed EXCEPT ![l] = TRUE]
  /\ sawStoreFull' = [sawStoreFull EXCEPT ![l] = FALSE]
  /\ sawHostFull' = [sawHostFull EXCEPT ![l] = FALSE]

Unpark(l) ==
  /\ pc[l] = "park"
  /\ Awake(l) \/ cancelled[l]
  /\ GoesRound(l)
  /\ UNCHANGED <<permits, next, received, cancelled, job, load>>

ReceiveResult(l) ==
  /\ pc[l] = "park"
  /\ \E j \in Sent(l) : received' = [received EXCEPT ![l] = @ \union {j}]
  /\ GoesRound(l)
  /\ UNCHANGED <<permits, next, cancelled, job, load>>

\* Reset, MarkStale, Stop or the owner's context.
Cancel(l) ==
  /\ l \in MayCancel /\ pc[l] # "off" /\ ~cancelled[l]
  /\ cancelled' = [cancelled EXCEPT ![l] = TRUE]
  /\ UNCHANGED <<permits, epochs, loop, job, load>>

-----------------------------------------------------------------------------
(* Runners and detail loads.                                               *)

NativeReturn(l, j) ==
  /\ job[l][j] = "running"
  /\ job' = [job EXCEPT ![l][j] = "giveHost"]
  /\ UNCHANGED <<permits, epochs, loop, cancelled, load>>

RunnerGivesBack(l, j) ==
  /\ \E to \in Stages : GiveBack(job[l][j], to, StoreOf[l]) /\ job' = [job EXCEPT ![l][j] = to]
  /\ UNCHANGED <<loop, cancelled, load>>

Goto(d, to) == load' = [load EXCEPT ![d] = to]

LoadWants(d) ==
  /\ load[d] = "idle" /\ Goto(d, "storeWait")
  /\ UNCHANGED <<permits, epochs, loop, cancelled, job>>

\* StoreBudget.acquire: a blocking send needs no epoch.
LoadTakesStore(d) ==
  /\ load[d] = "storeWait" /\ store[StoreOf[d]] < StoreCap
  /\ store' = [store EXCEPT ![StoreOf[d]] = @ + 1]
  /\ Goto(d, "hostWait")
  /\ UNCHANGED <<host, epochs, loop, cancelled, job>>

LoadTakesHost(d) ==
  /\ load[d] = "hostWait" /\ host < HostCap
  /\ host' = host + 1
  /\ Goto(d, "loading")
  /\ UNCHANGED <<store, epochs, loop, cancelled, job>>

\* Slip: a load that gives up while it waits for the host keeps the store permit.
LoadGivesUpHolding(d) ==
  /\ load[d] \in {"storeWait", "hostWait"} /\ Goto(d, "done")
  /\ UNCHANGED <<permits, epochs, loop, cancelled, job>>

\* Slip: a load that gives up returns both permits, though it has only the first.
LoadGivesUpBoth(d) ==
  /\ \/ load[d] = "storeWait" /\ Goto(d, "done")
     \/ load[d] = "hostWait" /\ Goto(d, "giveHost")
  /\ UNCHANGED <<permits, epochs, loop, cancelled, job>>

\* The context of the detail generation ends while the load waits.
LoadGivesUp(d) ==
  /\ \/ load[d] = "storeWait" /\ Goto(d, "done")
     \/ load[d] = "hostWait" /\ Goto(d, "giveStore")
  /\ UNCHANGED <<permits, epochs, loop, cancelled, job>>

LoadReturns(d) ==
  /\ load[d] = "loading" /\ Goto(d, "giveHost")
  /\ UNCHANGED <<permits, epochs, loop, cancelled, job>>

LoadGivesBack(d) ==
  /\ \E to \in Stages : GiveBack(load[d], to, StoreOf[d]) /\ Goto(d, to)
  /\ UNCHANGED <<loop, cancelled, job>>

-----------------------------------------------------------------------------
LoopStep(l) ==
  \/ Top(l) \/ EndPass(l) \/ SkipJob(l) \/ TryStore(l) \/ TryHost(l) \/ UndoStore(l)
  \/ TellUndo(l) \/ Admit(l) \/ RejectGivesBack(l) \/ Unpark(l) \/ ReceiveResult(l)

LoadStep(d) == LoadTakesStore(d) \/ LoadTakesHost(d) \/ LoadGivesBack(d)

Next ==
  \/ \E l \in Schedulers : Starts(l) \/ LoopStep(l) \/ Cancel(l)
  \/ \E l \in Schedulers : \E j \in Jobs(l) : NativeReturn(l, j) \/ RunnerGivesBack(l, j)
  \/ \E d \in Loads : LoadStep(d) \/ LoadWants(d) \/ LoadGivesUp(d) \/ LoadReturns(d)

Spec == Init /\ [][Next]_vars

\* Goroutines run, once started.  A blocking channel send is first in, first out, so a
\* load whose channel keeps being emptied gets its permit in the end: SF there.
GoroutineFairness ==
  /\ \A l \in Schedulers : WF_vars(LoopStep(l))
  /\ \A l \in Schedulers : \A j \in Jobs(l) : WF_vars(RunnerGivesBack(l, j))
  /\ \A d \in Loads : SF_vars(LoadStep(d))

FairSpec == Spec /\ GoroutineFairness

-----------------------------------------------------------------------------
(* Properties.                                                             *)

HostHeld == {"admit", "running", "loading", "giveHost"}
StoreHeld == HostHeld \union {"host", "undo", "hostWait", "tellHost", "giveStore"}

\* Everyone at one of the given stages on one of the given stores.
At(stages, stores) ==
  LET mine == {x \in Schedulers \union Loads : StoreOf[x] \in stores} IN
    {<<l, 0>> : l \in {l \in mine \intersect Schedulers : pc[l] \in stages}}
      \union {<<d, 0>> : d \in {d \in mine \intersect Loads : load[d] \in stages}}
      \union UNION {{<<l, j>> : j \in {j \in Jobs(l) : job[l][j] \in stages}} : l \in mine \intersect Schedulers}

\* A permit is taken exactly while somebody holds it: from admission to the
\* return of the native call, whether or not its context was cancelled.
PermitsMatchHolders ==
  /\ TypeOK
  /\ host = Cardinality(At(HostHeld, Stores))
  /\ \A s \in Stores : store[s] = Cardinality(At(StoreHeld, {s}))

\* Native calls return, whether or not their context ended.
CallsReturn ==
  /\ \A l \in Schedulers : \A j \in Jobs(l) : []<>(job[l][j] # "running")
  /\ \A d \in Loads : []<>(load[d] # "loading")

\* A loop at rest: nothing it waits for has happened.
Quiet(l) == pc[l] \in {"off", "park", "done"} /\ (pc[l] = "park" => ~Awake(l))
Beside(l) == {m \in Schedulers \ {l} : StoreOf[m] = StoreOf[l]}

\* Every job of a schedule that is not cancelled is run in the end, however many
\* loaders and loads share the permits, and every load that asked for permits gets
\* them or gives up: no release is slept through (waker, schedule).
\* A loop that cannot launch anything stops trying, even with no native call
\* returning, and ends or parks for good, unless another loop of its own store is kept
\* awake for ever as well.  That exception is the code's: parkStoreWakeCh shuts out the
\* rollback of the loop itself only, and of two loops of one store that find both the
\* store and the host full in each pass, each wakes the other (tryAcquireSlot).
EveryJobRunsNobodySpins ==
  /\ CallsReturn =>
       /\ \A l \in Schedulers : pc[l] = "top" ~> cancelled[l] \/ received[l] = Jobs(l)
       /\ \A d \in Loads : load[d] = "storeWait" ~> load[d] = "done"
  /\ \A l \in Schedulers : (\A m \in Beside(l) : <>[]Quiet(m)) => <>[]Quiet(l)

\* The two levels of permits, taken one after the other by those who poll and by
\* those who block, bound the native calls in flight as module NativeCalls says:
\* on the host and on each store, however they are released and handed on.  A
\* cancelled loop starts no further call, and the calls it has started count until
\* they return.
CallOfJob(l, j) ==
  CASE job[l][j] = "running" -> "calling"
    [] job[l][j] = "pending" /\ ~cancelled[l] -> "waiting"
    [] OTHER -> "over"
CallOfLoad(d) ==
  CASE load[d] = "loading" -> "calling"
    [] load[d] \in {"idle", "storeWait", "hostWait"} -> "waiting"
    [] OTHER -> "over"

JobCallers == UNION {{<<l, j>> : j \in Jobs(l)} : l \in Schedulers}
Callers == JobCallers \union {<<d, 0>> : d \in Loads}
CallOf(c) == IF c \in JobCallers THEN CallOfJob(c[1], c[2]) ELSE CallOfLoad(c[1])

Calls == INSTANCE NativeCalls WITH StoreOf <- [c \in Callers |-> StoreOf[c[1]]],
                                   call <- [c \in Callers |-> CallOf(c)]

BoundsCalls == Calls!Spec
=============================================================================
