------------------------ MODULE MetadataLoader_proofs ------------------------
(***************************************************************************)
(* What module MetadataLoader promises for every set of categories, every  *)
(* dependency relation and any number of generations: published snapshots  *)
(* never mix generations, a job never runs before its prerequisites are in *)
(* the cache it is handed, and the revision orders the snapshots.          *)
(*                                                                         *)
(* And, in the second part, what module DetailPlans promises of the        *)
(* details loaded against those generations: whatever a store starts on,   *)
(* whoever asks and however many generations there are, a detail is of the *)
(* object its request denotes.  The third part is about what such a detail *)
(* says: the descriptors of module CatalogDescriptors.                     *)
(***************************************************************************)
EXTENDS MetadataLoader, DetailPlans, CatalogDescriptors, FiniteSetTheorems, TLAPS

-----------------------------------------------------------------------------
(* Type correctness.                                                       *)

\* What setStatus leaves behind is a well-typed snapshot.
LEMMA SetStatusType ==
  ASSUME TypeOK, NEW g \in Gens, NEW k \in Kinds, NEW s \in State,
         NEW c \in SUBSET (Kinds \X Gens), SetStatus(g, k, s, c)
  PROVE  /\ status' \in [Kinds -> State]
         /\ cache' \in SUBSET (Kinds \X Gens)
         /\ revision' \in Nat
<1>1. CASE generation = g /\ ctx[g] = "live" /\ status[k] \in Unsettled
  BY <1>1 DEF SetStatus, TypeOK
<1>2. CASE ~(generation = g /\ ctx[g] = "live" /\ status[k] \in Unsettled)
  BY <1>2 DEF SetStatus, TypeOK
<1> QED BY <1>1, <1>2

\* The initial state is well typed.
LEMMA TypeCorrectInit == Init => TypeOK
<1> USE LoaderAssumption DEF TypeOK, State, Unsettled, PC, RunnerPC, Gens
<1> SUFFICES ASSUME Init PROVE TypeOK
  OBVIOUS
<1>1. pc = [g \in Gens |-> "idle"]
  BY DEF Init
<1>2. \A g \in Gens : pc[g] \in {"admit", "merge", "publish", "fail"} => hand[g] \in Kinds
  BY <1>1
<1>3. /\ runner \in [Gens -> [Kinds -> RunnerPC]] /\ results \in [Gens -> SUBSET Kinds]
      /\ input \in [Gens -> [Kinds -> SUBSET (Kinds \X Gens)]]
      /\ outcome \in [Gens -> [Kinds -> {"ok", "err"}]]
  BY DEF Init
<1>4. /\ pc \in [Gens -> PC] /\ plan \in [Gens -> SUBSET Kinds]
      /\ local \in [Gens -> [Kinds -> State]] /\ hand \in [Gens -> Kinds \union {None}]
      /\ staged \in [Gens -> SUBSET (Kinds \X Gens)]
  BY DEF Init
<1>5. /\ generation \in 0..MaxGen /\ revision \in Nat
      /\ status \in [Kinds -> State] /\ cache \in SUBSET (Kinds \X Gens)
      /\ ctx \in [Gens -> {"none", "live", "cancelled"}]
      /\ done \in [Gens -> {"none", "open", "closed"}]
  BY DEF Init
<1>6. /\ started \in BOOLEAN /\ startFailed \in BOOLEAN /\ stopped \in BOOLEAN
      /\ stale \in BOOLEAN /\ parentDone \in BOOLEAN
  BY Zenon DEF Init
<1>7. active \in Int /\ slots \in Int
  BY SMT DEF Init
<1> QED BY <1>2, <1>3, <1>4, <1>5, <1>6, <1>7

\* Every variable of the loader keeps its type.
THEOREM TypeCorrect == Spec => []TypeOK
<1> USE LoaderAssumption DEF TypeOK, State, Unsettled, PC, RunnerPC, Gens
<1>1. Init => TypeOK
  BY TypeCorrectInit
<1>2. TypeOK /\ [Next]_vars => TypeOK'
  <2> SUFFICES ASSUME TypeOK, [Next]_vars PROVE TypeOK'
    OBVIOUS
  <2>1. CASE Operation
    <3>1. ASSUME NEW g \in Gens, Reset(g) PROVE TypeOK'
      <4>1. ctx' \in [Gens -> {"none", "live", "cancelled"}] /\ done' \in [Gens -> {"none", "open", "closed"}]
        BY <3>1 DEF Reset, CancelCurrent, CloseDone
      <4>2. generation' \in 0..MaxGen /\ revision' \in Nat /\ status' \in [Kinds -> State]
            /\ cache' \in SUBSET (Kinds \X Gens)
        BY <3>1 DEF Reset
      <4> QED BY <3>1, <4>1, <4>2 DEF Reset, schedVars, runVars
    <3>2. ASSUME NEW g \in Gens, MarkStartFailed(g) PROVE TypeOK'
      BY <3>2 DEF MarkStartFailed, schedVars, runVars
    <3>3. ASSUME NEW g \in Gens, NEW p \in SUBSET Kinds, Start(g, p) PROVE TypeOK'
      BY <3>3 DEF Start, runVars
    <3>4. ASSUME NEW g \in Gens, NEW p \in SUBSET Kinds, InstallSettled(g, p) PROVE TypeOK'
      BY <3>4 DEF InstallSettled, schedVars, runVars
    <3>5. CASE MarkStale
      BY <3>5 DEF MarkStale, Cancelled, CancelCurrent, CloseDone, schedVars, runVars
    <3>6. CASE Stop
      BY <3>6 DEF Stop, Cancelled, CancelCurrent, CloseDone, schedVars, runVars
    <3>7. CASE ParentEnds
      BY <3>7 DEF ParentEnds, loaderVars, schedVars, runVars
    <3> QED BY <2>1, <3>1, <3>2, <3>3, <3>4, <3>5, <3>6, <3>7 DEF Operation
  <2>2. ASSUME NEW g \in Gens, Scheduler(g) PROVE TypeOK'
    <3>1. CASE Top(g)
      BY <3>1 DEF Top, loaderVars, runVars
    <3>2. CASE AdmitJob(g)
      <4>1. pc[g] = "admit" /\ hand[g] \in Kinds \union {None}
        BY <3>2 DEF AdmitJob
      <4> QED BY <3>2, <4>1 DEF AdmitJob
    <3>3. CASE RejectJob(g)
      BY <3>3 DEF RejectJob, loaderVars, runVars
    <3>4. CASE ScanEnds(g)
      BY <3>4 DEF ScanEnds, loaderVars, runVars
    <3>5. CASE Wake(g)
      BY <3>5 DEF Wake, loaderVars, runVars
    <3>6. CASE ParkCancelled(g)
      BY <3>6 DEF ParkCancelled, loaderVars, runVars
    <3>7. CASE Merge(g)
      BY <3>7 DEF Merge, loaderVars, runVars
    <3>8. CASE MergeFails(g)
      BY <3>8 DEF MergeFails, loaderVars, runVars
    <3>9. CASE PublishReady(g)
      <4>1. hand[g] \in Kinds /\ staged[g] \in SUBSET (Kinds \X Gens)
        BY <3>9 DEF PublishReady
      <4>2. status' \in [Kinds -> State] /\ cache' \in SUBSET (Kinds \X Gens) /\ revision' \in Nat
        BY <3>9, <4>1, SetStatusType DEF PublishReady
      <4> QED BY <3>9, <4>1, <4>2 DEF PublishReady, runVars
    <3>10. CASE PublishFailed(g)
      <4>1. hand[g] \in Kinds
        BY <3>10 DEF PublishFailed
      <4>2. status' \in [Kinds -> State] /\ cache' \in SUBSET (Kinds \X Gens) /\ revision' \in Nat
        BY <3>10, <4>1, SetStatusType DEF PublishFailed
      <4> QED BY <3>10, <4>1, <4>2 DEF PublishFailed, runVars
    <3>11. CASE SettleCancelled(g)
      BY <3>11 DEF SettleCancelled, Cancelled, CloseDone, runVars
    <3>12. CASE Finish(g)
      BY <3>12 DEF Finish, CloseDone, loaderVars, runVars
    <3>13. CASE SchedulerExits(g)
      BY <3>13 DEF SchedulerExits, loaderVars, runVars
    <3>14. ASSUME NEW k \in Kinds, BlockDependent(g, k) PROVE TypeOK'
      <4>1. status' \in [Kinds -> State] /\ cache' \in SUBSET (Kinds \X Gens) /\ revision' \in Nat
        BY <3>14, SetStatusType DEF BlockDependent
      <4> QED BY <3>14, <4>1 DEF BlockDependent, runVars
    <3>15. ASSUME NEW k \in Kinds, TryAcquireSlot(g, k) PROVE TypeOK'
      BY <3>15 DEF TryAcquireSlot, loaderVars, runVars
    <3>16. ASSUME NEW k \in Kinds, ReceiveResult(g, k) PROVE TypeOK'
      <4>1. CASE ctx[g] = "cancelled"
        BY <3>16, <4>1 DEF ReceiveResult, loaderVars
      <4>2. CASE ctx[g] # "cancelled"
        <5>1. pc' \in [Gens -> PC] /\ hand' \in [Gens -> Kinds \union {None}]
              /\ \A h \in Gens : pc'[h] \in {"admit", "merge", "publish", "fail"} => hand'[h] \in Kinds
          <6>1. hand' = [hand EXCEPT ![g] = k]
            BY <3>16, <4>2 DEF ReceiveResult
          <6>2. PICK p \in {"merge", "fail"} : pc' = [pc EXCEPT ![g] = p]
            BY <3>16, <4>2 DEF ReceiveResult
          <6> QED BY <6>1, <6>2
        <5> QED BY <3>16, <5>1 DEF ReceiveResult, loaderVars
      <4> QED BY <4>1, <4>2
    <3> QED BY <2>2, <3>1, <3>2, <3>3, <3>4, <3>5, <3>6, <3>7, <3>8, <3>9, <3>10, <3>11,
               <3>12, <3>13, <3>14, <3>15, <3>16 DEF Scheduler
  <2>3. ASSUME NEW g \in Gens, NEW k \in Kinds, RunnerStep(g, k) PROVE TypeOK'
    <3>1. CASE RunnerStarts(g, k)
      <4>1. runner' \in [Gens -> [Kinds -> RunnerPC]] /\ revision' \in Nat
        <5>1. \/ runner' = [runner EXCEPT ![g][k] = "running"] /\ revision' = revision + 1
              \/ runner' = [runner EXCEPT ![g][k] = "releasing"] /\ revision' = revision
          BY <3>1, Zenon DEF RunnerStarts
        <5>2. PICK p \in {"running", "releasing"} : runner' = [runner EXCEPT ![g][k] = p]
          BY <5>1, Zenon
        <5>3. runner' \in [Gens -> [Kinds -> RunnerPC]]
          BY <5>2
        <5>4. revision' \in Nat
          BY <5>1, SMT
        <5> QED BY <5>3, <5>4
      <4> QED BY <3>1, <4>1 DEF RunnerStarts, schedVars
    <3>2. CASE SendResult(g, k)
      BY <3>2 DEF SendResult, loaderVars, schedVars
    <3>3. CASE ReleaseSlot(g, k)
      BY <3>3 DEF ReleaseSlot, loaderVars, schedVars
    <3>4. CASE RunnerFinished(g, k)
      BY <3>4 DEF RunnerFinished, loaderVars, schedVars
    <3> QED BY <2>3, <3>1, <3>2, <3>3, <3>4 DEF RunnerStep
  <2>4. ASSUME NEW g \in Gens, NEW k \in Kinds, NativeReturn(g, k) PROVE TypeOK'
    BY <2>4 DEF NativeReturn, RunReturns, schedVars
  <2>5. CASE UNCHANGED vars
    BY <2>5 DEF vars, loaderVars, schedVars, runVars
  <2> QED BY <2>1, <2>2, <2>3, <2>4, <2>5 DEF Next
<1> QED BY <1>1, <1>2, PTL DEF Spec

-----------------------------------------------------------------------------
(* The inductive invariant.  ReadyIsCached and InputsLoaded are not         *)
(* inductive alone: the scheduler builds the merged cache outside l.mu and  *)
(* decides what is launchable from its own copy of the states, so both rest *)
(* on how that private state relates to the snapshot as long as the context *)
(* of the generation lives.                                                *)

\* A generation that was not reset to yet has neither scheduler nor context.
FutureUntouched == \A g \in Gens : g > generation => pc[g] = "idle" /\ ctx[g] = "none"

\* Before Start commits there is nothing to publish and nobody to publish it.
BeforeStart ==
  ~started =>
    /\ \A k \in Kinds : status[k] = "Unsupported"
    /\ generation \in Gens => pc[generation] = "idle" /\ ctx[generation] = "none"

\* A generation without a scheduler has no runners, results or plan states.
IdleIsEmpty ==
  \A g \in Gens : pc[g] = "idle" =>
    /\ results[g] = {}
    /\ \A k \in Kinds : runner[g][k] = "idle" /\ local[g][k] = "Unsupported"

\* A runner that owes a result, and a result that was not received, are jobs
\* the scheduler still counts as loading.
RunnersAreLoading ==
  \A g \in Gens, k \in Kinds :
    /\ runner[g][k] \in {"admitted", "running", "returned"} =>
         local[g][k] = "Loading" /\ k \notin results[g]
    /\ k \in results[g] => local[g][k] = "Loading"

\* The job in the scheduler's hand: chosen with its prerequisites ready, or
\* received and not published.
HandInv ==
  \A g \in Gens :
    /\ pc[g] = "admit" => local[g][hand[g]] = "Pending" /\ DependenciesReady(g, hand[g])
    /\ pc[g] \in {"merge", "publish", "fail"} => local[g][hand[g]] = "Failed"

Live(g) == generation = g /\ ctx[g] = "live"

\* While its context lives the scheduler's states agree with the snapshot, and
\* the scheduler is not on its way to settle the generation as cancelled.
LocalAgrees ==
  \A g \in Gens : Live(g) =>
    /\ ~stopped /\ pc[g] # "settle"
    /\ \A k \in Kinds : local[g][k] \in {"Ready", "Loading", "Pending"} => status[k] = local[g][k]
    /\ pc[g] \in {"merge", "publish", "fail"} => status[hand[g]] = "Loading"
    /\ pc[g] = "publish" => staged[g] = cache \union {<<hand[g], g>>}

IInv ==
  /\ TypeOK
  /\ ReadyIsCached
  /\ InputsLoaded
  /\ FutureUntouched
  /\ BeforeStart
  /\ IdleIsEmpty
  /\ RunnersAreLoading
  /\ HandInv
  /\ LocalAgrees

\* Steps that move schedulers and runners along without touching the snapshot,
\* the contexts or the scheduler's own states.
PcMoves ==
  \A h \in Gens :
    \/ pc'[h] = pc[h] /\ hand'[h] = hand[h]
    \/ /\ pc[h] # "idle" /\ pc'[h] \notin {"idle", "admit", "merge", "publish", "fail"}
       /\ pc'[h] = "settle" => ~Live(h)

RunnerMoves ==
  \A h \in Gens, k \in Kinds :
    \/ runner'[h][k] = runner[h][k]
    \/ runner[h][k] = "admitted" /\ runner'[h][k] = "running"
    \/ runner[h][k] = "running" /\ runner'[h][k] = "returned"
    \/ runner[h][k] # "idle" /\ runner'[h][k] \in {"releasing", "finishing", "finished"}

\* A step that publishes nothing and only moves a runner along keeps IInv.
LEMMA QuietStep ==
  ASSUME IInv, TypeOK', PcMoves, RunnerMoves,
         UNCHANGED <<generation, started, stopped, status, cache, ctx, local, staged, input, results>>
  PROVE  IInv'
<1>1. ReadyIsCached'
  BY DEF IInv, ReadyIsCached
<1>2. InputsLoaded'
  BY DEF IInv, InputsLoaded, RunnerMoves
<1>3. FutureUntouched' /\ BeforeStart'
  BY DEF IInv, FutureUntouched, BeforeStart, PcMoves, Gens
<1>4. IdleIsEmpty'
  BY DEF IInv, IdleIsEmpty, PcMoves, RunnerMoves
<1>5. RunnersAreLoading'
  BY DEF IInv, RunnersAreLoading, RunnerMoves
<1>6. HandInv'
  BY DEF IInv, HandInv, PcMoves, DependenciesReady
<1>7. LocalAgrees'
  BY DEF IInv, LocalAgrees, PcMoves, Live
<1> QED BY <1>1, <1>2, <1>3, <1>4, <1>5, <1>6, <1>7 DEF IInv

\* The parts of IInv that only mention the schedulers and runners.
PrivateUnchanged == UNCHANGED <<pc, local, hand, staged, runner, input, results>>

\* Every operation of the loader's owner (Reset, MarkStartFailed, Start,
\* installSettled, MarkStale, Stop, the end of the context) keeps IInv.
LEMMA OperationStep == IInv /\ TypeOK' /\ Operation => IInv'
<1> SUFFICES ASSUME IInv, TypeOK', Operation PROVE IInv'
  OBVIOUS
<1> USE DEF IInv
<1>1. ASSUME NEW g \in Gens, Reset(g) PROVE IInv'
  <2>1. ReadyIsCached'
    BY <1>1 DEF Reset, ReadyIsCached
  <2>2. /\ generation' = g /\ g > generation /\ pc[g] = "idle" /\ ctx[g] = "none"
        /\ \A h \in Gens : ctx'[h] = ctx[h] \/ (ctx'[h] = "cancelled" /\ h = generation)
        /\ PrivateUnchanged
    <3>0. generation' = g /\ g > generation
      BY <1>1 DEF Reset
    <3>1. pc[g] = "idle" /\ ctx[g] = "none"
      BY <3>0 DEF FutureUntouched
    <3>2. \A h \in Gens : ctx'[h] = ctx[h] \/ (ctx'[h] = "cancelled" /\ h = generation)
      BY <1>1 DEF Reset, CancelCurrent
    <3>3. PrivateUnchanged
      BY <1>1 DEF Reset, PrivateUnchanged, schedVars, runVars
    <3> QED BY <3>0, <3>1, <3>2, <3>3
  <2>3. generation \in Int /\ \A h \in Gens : h \in Int
    BY DEF TypeOK, Gens
  <2>4. FutureUntouched'
    BY <2>2, <2>3 DEF FutureUntouched, PrivateUnchanged
  <2>5. ctx'[g] = "none"
    BY <2>2, <2>3
  <2>6. BeforeStart'
    BY <1>1, <2>2, <2>5 DEF Reset, BeforeStart, PrivateUnchanged
  <2>7. LocalAgrees'
    BY <2>2, <2>5 DEF LocalAgrees, Live
  <2>8. InputsLoaded' /\ IdleIsEmpty' /\ RunnersAreLoading' /\ HandInv'
    BY <2>2 DEF PrivateUnchanged, InputsLoaded, IdleIsEmpty, RunnersAreLoading, HandInv, DependenciesReady
  <2> QED BY <2>1, <2>4, <2>6, <2>7, <2>8
<1>2. ASSUME NEW g \in Gens, MarkStartFailed(g) PROVE IInv'
  BY <1>2, QuietStep DEF MarkStartFailed, schedVars, runVars, PcMoves, RunnerMoves
<1>3. ASSUME NEW g \in Gens, NEW p \in SUBSET Kinds, Start(g, p) PROVE IInv'
  <2>1. /\ generation = g /\ generation' = g /\ ~started /\ ~stopped /\ started' /\ stopped' = stopped
        /\ UNCHANGED <<cache, hand, staged, runner, input, results>>
        /\ pc' = [pc EXCEPT ![g] = "top"]
        /\ local' = [local EXCEPT ![g] = [k \in Kinds |-> IF k \in p THEN "Pending" ELSE "Unsupported"]]
        /\ status' = [k \in Kinds |-> IF k \in p THEN "Pending" ELSE "Unsupported"]
        /\ \A h \in Gens : h # g => ctx'[h] = ctx[h]
    BY <1>3 DEF Start, runVars, TypeOK
  <2>2. pc[g] = "idle" /\ \A k \in Kinds : status[k] = "Unsupported"
    BY <2>1 DEF BeforeStart
  <2>3. cache = {}
    BY <2>2 DEF ReadyIsCached
  <2>4. ReadyIsCached'
    BY <2>1, <2>3 DEF ReadyIsCached
  <2>5. InputsLoaded'
    BY <2>1 DEF InputsLoaded
  <2>6. FutureUntouched'
    BY <2>1 DEF FutureUntouched, TypeOK, Gens
  <2>7. BeforeStart'
    BY <2>1 DEF BeforeStart
  <2>8. IdleIsEmpty'
    BY <2>1 DEF IdleIsEmpty, TypeOK
  <2>9. RunnersAreLoading'
    BY <2>1, <2>2 DEF RunnersAreLoading, IdleIsEmpty, TypeOK
  <2>10. HandInv'
    <3>1. pc'[g] = "top" /\ \A h \in Gens : h # g => pc'[h] = pc[h] /\ local'[h] = local[h]
      BY <2>1 DEF TypeOK
    <3> QED BY <2>1, <3>1 DEF HandInv, DependenciesReady
  <2>11. LocalAgrees'
    BY <2>1 DEF LocalAgrees, Live, TypeOK
  <2> QED BY <2>4, <2>5, <2>6, <2>7, <2>8, <2>9, <2>10, <2>11
<1>4. ASSUME NEW g \in Gens, NEW p \in SUBSET Kinds, InstallSettled(g, p) PROVE IInv'
  <2>1. /\ generation = 0 /\ generation' = g /\ started'
        /\ status' = [k \in Kinds |-> IF k \in p THEN "Ready" ELSE "Unsupported"]
        /\ cache' = p \X {g}
        /\ \A h \in Gens : h # g => ctx'[h] = ctx[h]
        /\ PrivateUnchanged
    BY <1>4 DEF InstallSettled, PrivateUnchanged, schedVars, runVars, TypeOK
  <2>2. ~stopped'
    BY <1>4 DEF InstallSettled
  <2>3. \A h \in Gens : pc[h] = "idle" /\ ctx[h] = "none"
    BY <2>1 DEF FutureUntouched, Gens
  <2>4. ReadyIsCached'
    BY <2>1 DEF ReadyIsCached
  <2>5. FutureUntouched'
    BY <2>1, <2>3 DEF FutureUntouched, PrivateUnchanged, Gens
  <2>6. BeforeStart'
    BY <2>1 DEF BeforeStart
  <2>7. LocalAgrees'
    BY <2>1, <2>2, <2>3 DEF LocalAgrees, IdleIsEmpty, PrivateUnchanged
  <2>8. InputsLoaded' /\ IdleIsEmpty' /\ RunnersAreLoading' /\ HandInv'
    BY <2>1 DEF PrivateUnchanged, InputsLoaded, IdleIsEmpty, RunnersAreLoading, HandInv, DependenciesReady
  <2> QED BY <2>4, <2>5, <2>6, <2>7, <2>8
<1>5. CASE MarkStale \/ Stop
  <2>1. /\ UNCHANGED <<generation, started, cache>> /\ status' = Cancelled(status) /\ PrivateUnchanged
        /\ \A h \in Gens : ctx'[h] = ctx[h] \/ (ctx'[h] = "cancelled" /\ h = generation /\ ctx[h] = "live")
        /\ \A h \in Gens : ~(h = generation /\ ctx'[h] = "live")
    <3>1. ctx' = CancelCurrent /\ status' = Cancelled(status) /\ UNCHANGED <<generation, started, cache>>
      BY <1>5 DEF MarkStale, Stop
    <3>2. PrivateUnchanged
      BY <1>5 DEF MarkStale, Stop, PrivateUnchanged, schedVars, runVars
    <3>3. \A h \in Gens : ctx'[h] = IF h = generation /\ ctx[h] = "live" THEN "cancelled" ELSE ctx[h]
      BY <3>1 DEF CancelCurrent
    <3> QED BY <3>1, <3>2, <3>3
  <2>2. ReadyIsCached'
    BY <2>1 DEF ReadyIsCached, Cancelled, TypeOK, Unsettled
  <2>3. FutureUntouched'
    BY <2>1 DEF FutureUntouched, PrivateUnchanged
  <2>4. BeforeStart'
    BY <2>1 DEF BeforeStart, PrivateUnchanged, Cancelled, Unsettled
  <2>5. LocalAgrees'
    BY <2>1 DEF LocalAgrees, Live
  <2>6. InputsLoaded' /\ IdleIsEmpty' /\ RunnersAreLoading' /\ HandInv'
    BY <2>1 DEF PrivateUnchanged, InputsLoaded, IdleIsEmpty, RunnersAreLoading, HandInv, DependenciesReady
  <2> QED BY <2>2, <2>3, <2>4, <2>5, <2>6
<1>6. CASE ParentEnds
  <2>1. /\ UNCHANGED <<generation, started, stopped, status, cache>> /\ PrivateUnchanged
        /\ \A h \in Gens : ctx'[h] # "live" /\ (ctx[h] = "none" => ctx'[h] = "none")
    BY <1>6 DEF ParentEnds, PrivateUnchanged, loaderVars, schedVars, runVars, TypeOK
  <2>2. ReadyIsCached' /\ FutureUntouched' /\ BeforeStart' /\ LocalAgrees'
    BY <2>1 DEF ReadyIsCached, FutureUntouched, BeforeStart, LocalAgrees, Live, PrivateUnchanged
  <2>3. InputsLoaded' /\ IdleIsEmpty' /\ RunnersAreLoading' /\ HandInv'
    BY <2>1 DEF PrivateUnchanged, InputsLoaded, IdleIsEmpty, RunnersAreLoading, HandInv, DependenciesReady
  <2> QED BY <2>2, <2>3
<1> QED BY <1>1, <1>2, <1>3, <1>4, <1>5, <1>6 DEF Operation

\* setStatus while the context lives publishes; otherwise it changes nothing.
LEMMA SetStatusEffect ==
  ASSUME NEW g \in Gens, NEW k \in Kinds, NEW s, NEW c, SetStatus(g, k, s, c)
  PROVE  \/ /\ Live(g) /\ status[k] \in Unsettled
            /\ status' = [status EXCEPT ![k] = s] /\ cache' = c
         \/ /\ ~(Live(g) /\ status[k] \in Unsettled)
            /\ UNCHANGED <<status, cache>>
BY DEF SetStatus, Live

\* Every step of a generation's schedule goroutine keeps IInv.
LEMMA SchedulerStep == ASSUME IInv, TypeOK', NEW g \in Gens, Scheduler(g) PROVE IInv'
<1> USE DEF IInv
<1>1. CASE Top(g) \/ ScanEnds(g) \/ Wake(g) \/ ParkCancelled(g) \/ Finish(g) \/ SchedulerExits(g)
  <2>1. UNCHANGED <<generation, started, stopped, status, cache, ctx, local, hand, staged, runner, input, results>>
    BY <1>1 DEF Top, ScanEnds, Wake, ParkCancelled, Finish, SchedulerExits, loaderVars, runVars
  <2>2. PICK p \in {"finish", "settle", "scan", "park", "top", "exit", "exited"} :
          pc[g] # "idle" /\ pc' = [pc EXCEPT ![g] = p] /\ (p = "settle" => ctx[g] = "cancelled")
    BY <1>1 DEF Top, ScanEnds, Wake, ParkCancelled, Finish, SchedulerExits
  <2>3. PcMoves
    BY <2>1, <2>2 DEF PcMoves, Live, TypeOK
  <2> QED BY <2>1, <2>3, QuietStep DEF RunnerMoves
<1>2. CASE AdmitJob(g)
  <2> DEFINE k == hand[g]
  <2>1. /\ k \in Kinds /\ pc[g] = "admit" /\ Live(g) /\ started /\ ~stopped /\ status[k] = "Pending"
        /\ local[g][k] = "Pending" /\ DependenciesReady(g, k)
    BY <1>2 DEF AdmitJob, Admissible, TypeOK, HandInv, Live
  <2>2. /\ UNCHANGED <<generation, started, stopped, cache, ctx, staged, results>>
        /\ status' = [status EXCEPT ![k] = "Loading"]
        /\ runner' = [runner EXCEPT ![g][k] = "admitted"]
        /\ input' = [input EXCEPT ![g][k] = cache]
        /\ local' = [local EXCEPT ![g][k] = "Loading"]
        /\ hand' = [hand EXCEPT ![g] = None]
        /\ pc' = [pc EXCEPT ![g] = "scan"]
    BY <1>2 DEF AdmitJob
  <2>3. ReadyIsCached'
    BY <2>1, <2>2 DEF ReadyIsCached, TypeOK
  <2>4. DependsOn[k] \X {g} \subseteq cache /\ cache \subseteq Kinds \X {g}
    <3>1. \A d \in DependsOn[k] : d \in Kinds /\ status[d] = "Ready"
      BY <2>1, LoaderAssumption DEF LocalAgrees, DependenciesReady
    <3> QED BY <2>1, <3>1 DEF ReadyIsCached, Live
  <2>5. InputsLoaded'
    <3> SUFFICES ASSUME NEW h \in Gens, NEW j \in Kinds, runner'[h][j] \in {"admitted", "running"}
                 PROVE  DependsOn[j] \X {h} \subseteq input'[h][j] /\ input'[h][j] \subseteq Kinds \X {h}
      BY DEF InputsLoaded
    <3>1. CASE h = g /\ j = k
      BY <2>1, <2>2, <2>4, <3>1 DEF TypeOK
    <3>2. CASE ~(h = g /\ j = k)
      BY <2>1, <2>2, <3>2 DEF TypeOK, InputsLoaded
    <3> QED BY <3>1, <3>2
  <2>6. FutureUntouched' /\ BeforeStart'
    BY <2>1, <2>2 DEF FutureUntouched, BeforeStart, TypeOK, Live, Gens
  <2>7. IdleIsEmpty'
    BY <2>1, <2>2 DEF IdleIsEmpty, TypeOK
  <2>8. RunnersAreLoading'
    BY <2>1, <2>2 DEF RunnersAreLoading, TypeOK
  <2>9. HandInv'
    BY <2>1, <2>2 DEF HandInv, DependenciesReady, TypeOK
  <2>10. LocalAgrees'
    BY <2>1, <2>2 DEF LocalAgrees, Live, TypeOK
  <2> QED BY <2>3, <2>5, <2>6, <2>7, <2>8, <2>9, <2>10
<1>3. CASE RejectJob(g)
  <2>1. /\ UNCHANGED <<generation, started, stopped, status, cache, ctx, local, staged, runner, input, results>>
        /\ pc[g] = "admit" /\ pc' = [pc EXCEPT ![g] = "settle"] /\ hand' = [hand EXCEPT ![g] = None]
    BY <1>3 DEF RejectJob, loaderVars, runVars
  <2>2. ~Live(g)
    <3> SUFFICES ASSUME Live(g) PROVE FALSE
      OBVIOUS
    <3>1. hand[g] \in Kinds /\ local[g][hand[g]] = "Pending"
      BY <2>1 DEF HandInv, TypeOK
    <3>2. ~stopped /\ status[hand[g]] = "Pending"
      BY <3>1 DEF LocalAgrees
    <3>3. started
      BY DEF BeforeStart, Live
    <3> QED BY <1>3, <3>2, <3>3 DEF RejectJob, Admissible, Live
  <2>3. PcMoves
    BY <2>1, <2>2 DEF PcMoves, TypeOK
  <2> QED BY <2>1, <2>3, QuietStep DEF RunnerMoves
<1>4. CASE Merge(g)
  <2>1. /\ UNCHANGED <<generation, started, stopped, status, cache, ctx, local, hand, runner, input, results>>
        /\ pc[g] = "merge" /\ pc' = [pc EXCEPT ![g] = "publish"]
        /\ staged' = [staged EXCEPT ![g] = cache \union {<<hand[g], g>>}]
    BY <1>4 DEF Merge, loaderVars, runVars
  <2>2. ReadyIsCached' /\ InputsLoaded'
    BY <2>1 DEF ReadyIsCached, InputsLoaded
  <2>3. FutureUntouched' /\ BeforeStart' /\ IdleIsEmpty' /\ RunnersAreLoading'
    BY <2>1 DEF FutureUntouched, BeforeStart, IdleIsEmpty, RunnersAreLoading, TypeOK, Gens
  <2>4. HandInv' /\ LocalAgrees'
    BY <2>1 DEF HandInv, DependenciesReady, LocalAgrees, Live, TypeOK
  <2> QED BY <2>2, <2>3, <2>4
<1>5. CASE MergeFails(g)
  <2>1. /\ UNCHANGED <<generation, started, stopped, status, cache, ctx, local, hand, staged, runner, input, results>>
        /\ pc[g] = "merge" /\ pc' = [pc EXCEPT ![g] = "fail"]
    BY <1>5 DEF MergeFails, loaderVars, runVars
  <2>2. ReadyIsCached' /\ InputsLoaded'
    BY <2>1 DEF ReadyIsCached, InputsLoaded
  <2>3. FutureUntouched' /\ BeforeStart' /\ IdleIsEmpty' /\ RunnersAreLoading'
    BY <2>1 DEF FutureUntouched, BeforeStart, IdleIsEmpty, RunnersAreLoading, TypeOK, Gens
  <2>4. HandInv' /\ LocalAgrees'
    BY <2>1 DEF HandInv, DependenciesReady, LocalAgrees, Live, TypeOK
  <2> QED BY <2>2, <2>3, <2>4
<1>6. CASE PublishReady(g) \/ PublishFailed(g)
  <2> DEFINE k == hand[g]
  <2>1. k \in Kinds /\ pc[g] \in {"publish", "fail"} /\ local[g][k] = "Failed"
    BY <1>6 DEF PublishReady, PublishFailed, TypeOK, HandInv
  <2>2. /\ UNCHANGED <<generation, started, stopped, ctx, runner, input, results>>
        /\ hand' = [hand EXCEPT ![g] = None] /\ pc' = [pc EXCEPT ![g] = "top"]
        /\ \A h \in Gens : h # g => staged'[h] = staged[h] /\ local'[h] = local[h]
        /\ \A j \in Kinds : j # k => local'[g][j] = local[g][j]
    BY <1>6 DEF PublishReady, PublishFailed, runVars, TypeOK
  <2>3. \/ /\ ~Live(g) /\ UNCHANGED <<status, cache>> /\ local'[g][k] \in {"Ready", "Failed"}
        \/ /\ Live(g) /\ status' = [status EXCEPT ![k] = "Ready"]
           /\ cache' = cache \union {<<k, g>>} /\ local'[g][k] = "Ready"
        \/ /\ Live(g) /\ status' = [status EXCEPT ![k] = "Failed"]
           /\ cache' = cache /\ local'[g][k] = "Failed"
    <3>1. Live(g) => status[k] = "Loading"
      BY <2>1 DEF LocalAgrees
    <3>2. CASE PublishReady(g)
      <4>1. SetStatus(g, k, "Ready", staged[g]) /\ local'[g][k] = "Ready" /\ pc[g] = "publish"
        BY <2>1, <3>2 DEF PublishReady, TypeOK
      <4>2. Live(g) => staged[g] = cache \union {<<k, g>>}
        BY <4>1 DEF LocalAgrees
      <4> QED BY <2>1, <3>1, <4>1, <4>2, SetStatusEffect DEF Unsettled
    <3>3. CASE PublishFailed(g)
      <4>1. SetStatus(g, k, "Failed", cache) /\ local'[g][k] = "Failed"
        BY <2>1, <3>3 DEF PublishFailed
      <4> QED BY <2>1, <3>1, <4>1, SetStatusEffect DEF Unsettled
    <3> QED BY <1>6, <3>2, <3>3
  <2>4. ReadyIsCached'
    <3>1. Live(g) => status[k] = "Loading" /\ generation = g
      BY <2>1 DEF LocalAgrees, Live
    <3> QED BY <2>1, <2>2, <2>3, <3>1 DEF ReadyIsCached, TypeOK
  <2>5. InputsLoaded'
    BY <2>2 DEF InputsLoaded
  <2>6. FutureUntouched' /\ IdleIsEmpty'
    BY <2>1, <2>2 DEF FutureUntouched, IdleIsEmpty, TypeOK
  <2>7. BeforeStart'
    <3>1. ~started => ~Live(g)
      BY DEF BeforeStart, Live
    <3> QED BY <2>1, <2>2, <2>3, <3>1 DEF BeforeStart, TypeOK
  <2>8. RunnersAreLoading'
    BY <2>1, <2>2 DEF RunnersAreLoading
  <2>9. HandInv'
    BY <2>1, <2>2 DEF HandInv, DependenciesReady, TypeOK
  <2>10. LocalAgrees'
    <3> SUFFICES ASSUME NEW h \in Gens, Live(h)'
                 PROVE /\ ~stopped' /\ pc'[h] # "settle"
                       /\ \A j \in Kinds : local'[h][j] \in {"Ready", "Loading", "Pending"} => status'[j] = local'[h][j]
                       /\ pc'[h] \in {"merge", "publish", "fail"} => status'[hand'[h]] = "Loading"
                       /\ pc'[h] = "publish" => staged'[h] = cache' \union {<<hand'[h], h>>}
      BY DEF LocalAgrees
    <3>1. Live(h)
      BY <2>2 DEF Live
    <3>2. CASE h = g
      <4>1. ~stopped' /\ pc'[h] = "top"
        BY <2>2, <3>1, <3>2 DEF LocalAgrees, TypeOK
      <4>2. ASSUME NEW j \in Kinds, local'[g][j] \in {"Ready", "Loading", "Pending"}
            PROVE  status'[j] = local'[g][j]
        <5>1. CASE j = k
          BY <2>1, <2>3, <3>1, <3>2, <4>2, <5>1 DEF TypeOK
        <5>2. CASE j # k
          BY <2>1, <2>2, <2>3, <3>1, <3>2, <4>2, <5>2 DEF LocalAgrees, TypeOK
        <5> QED BY <5>1, <5>2
      <4> QED BY <3>2, <4>1, <4>2
    <3>3. CASE h # g
      <4>1. UNCHANGED <<status, cache>>
        BY <2>3, <3>1, <3>3 DEF Live
      <4> QED BY <2>2, <3>1, <3>3, <4>1 DEF LocalAgrees, TypeOK
    <3> QED BY <3>2, <3>3
  <2> QED BY <2>4, <2>5, <2>6, <2>7, <2>8, <2>9, <2>10
<1>7. CASE SettleCancelled(g)
  <2>1. /\ UNCHANGED <<generation, started, stopped, cache, ctx, local, hand, staged, runner, input, results>>
        /\ pc[g] = "settle" /\ pc' = [pc EXCEPT ![g] = "exit"]
        /\ (status' = Cancelled(status) /\ generation = g) \/ UNCHANGED status
    <3>1. (status' = Cancelled(status) /\ generation = g) \/ UNCHANGED status
      BY <1>7 DEF SettleCancelled
    <3> QED BY <1>7, <3>1 DEF SettleCancelled, runVars
  <2>2. ~Live(g)
    BY <2>1 DEF LocalAgrees
  <2>3. ReadyIsCached' /\ InputsLoaded'
    <3>1. \A k \in Kinds : status'[k] = "Ready" <=> status[k] = "Ready"
      BY <2>1 DEF Cancelled, Unsettled, TypeOK
    <3> QED BY <2>1, <3>1 DEF ReadyIsCached, InputsLoaded
  <2>4. FutureUntouched' /\ IdleIsEmpty' /\ RunnersAreLoading'
    BY <2>1 DEF FutureUntouched, IdleIsEmpty, RunnersAreLoading, TypeOK, Gens
  <2>5. BeforeStart'
    BY <2>1 DEF BeforeStart, Cancelled, Unsettled, TypeOK
  <2>6. HandInv'
    BY <2>1 DEF HandInv, DependenciesReady, TypeOK
  <2>7. LocalAgrees'
    <3>1. \A h \in Gens : Live(h)' => Live(h) /\ h # g
      BY <2>1, <2>2 DEF Live
    <3>2. \A h \in Gens : Live(h)' => UNCHANGED status
      BY <2>1, <3>1 DEF Live
    <3> QED BY <2>1, <3>1, <3>2 DEF LocalAgrees, TypeOK
  <2> QED BY <2>3, <2>4, <2>5, <2>6, <2>7
<1>8. ASSUME NEW k \in Kinds, BlockDependent(g, k) PROVE IInv'
  <2>1. /\ UNCHANGED <<generation, started, stopped, ctx, pc, hand, staged, runner, input, results>>
        /\ pc[g] = "scan" /\ local[g][k] = "Pending" /\ local' = [local EXCEPT ![g][k] = "Blocked"]
        /\ SetStatus(g, k, "Blocked", cache)
    BY <1>8 DEF BlockDependent, Blockable, runVars
  <2>2. /\ cache' = cache
        /\ \/ Live(g) /\ status[k] = "Pending" /\ status' = [status EXCEPT ![k] = "Blocked"]
           \/ ~Live(g) /\ UNCHANGED status
    <3>1. Live(g) => status[k] = "Pending"
      BY <2>1 DEF LocalAgrees
    <3> QED BY <2>1, <3>1, SetStatusEffect DEF Unsettled
  <2>3. ReadyIsCached' /\ InputsLoaded'
    BY <2>1, <2>2 DEF ReadyIsCached, InputsLoaded, TypeOK
  <2>4. FutureUntouched' /\ IdleIsEmpty'
    BY <2>1 DEF FutureUntouched, IdleIsEmpty, TypeOK
  <2>5. BeforeStart'
    <3>1. ~started => ~Live(g)
      BY DEF BeforeStart, Live
    <3> QED BY <2>1, <2>2, <3>1 DEF BeforeStart, TypeOK
  <2>6. RunnersAreLoading'
    BY <2>1 DEF RunnersAreLoading, TypeOK
  <2>7. HandInv'
    BY <2>1 DEF HandInv, DependenciesReady, TypeOK
  <2>8. LocalAgrees'
    <3>1. \A h \in Gens : Live(h)' => Live(h) /\ (h # g => UNCHANGED status)
      BY <2>1, <2>2 DEF Live
    <3> QED BY <2>1, <2>2, <3>1 DEF LocalAgrees, TypeOK
  <2> QED BY <2>3, <2>4, <2>5, <2>6, <2>7, <2>8
<1>9. ASSUME NEW k \in Kinds, TryAcquireSlot(g, k) PROVE IInv'
  <2>1. /\ UNCHANGED <<generation, started, stopped, status, cache, ctx, local, staged, runner, input, results>>
        /\ pc[g] = "scan" /\ pc' = [pc EXCEPT ![g] = "admit"] /\ hand' = [hand EXCEPT ![g] = k]
        /\ local[g][k] = "Pending" /\ DependenciesReady(g, k)
    BY <1>9 DEF TryAcquireSlot, Launchable, loaderVars, runVars
  <2>2. ReadyIsCached' /\ InputsLoaded'
    BY <2>1 DEF ReadyIsCached, InputsLoaded
  <2>3. FutureUntouched' /\ BeforeStart' /\ IdleIsEmpty' /\ RunnersAreLoading'
    BY <2>1 DEF FutureUntouched, BeforeStart, IdleIsEmpty, RunnersAreLoading, TypeOK, Gens
  <2>4. HandInv'
    BY <2>1 DEF HandInv, DependenciesReady, TypeOK
  <2>5. LocalAgrees'
    BY <2>1 DEF LocalAgrees, Live, TypeOK
  <2> QED BY <2>2, <2>3, <2>4, <2>5
<1>10. ASSUME NEW k \in Kinds, ReceiveResult(g, k) PROVE IInv'
  <2>1. /\ UNCHANGED <<generation, started, stopped, status, cache, ctx, staged, runner, input>>
        /\ pc[g] = "park" /\ k \in results[g] /\ results' = [results EXCEPT ![g] = @ \ {k}]
        /\ local' = [local EXCEPT ![g][k] = "Failed"]
    BY <1>10 DEF ReceiveResult, loaderVars
  <2>2. \/ ~Live(g) /\ pc' = [pc EXCEPT ![g] = "settle"] /\ hand' = hand
        \/ /\ hand' = [hand EXCEPT ![g] = k]
           /\ \E p \in {"merge", "fail"} : pc' = [pc EXCEPT ![g] = p]
    BY <1>10 DEF ReceiveResult, Live
  <2>3. local[g][k] = "Loading" /\ runner[g][k] \notin {"admitted", "running", "returned"}
    BY <2>1 DEF RunnersAreLoading
  <2>4. \A h \in Gens : h # g => pc'[h] = pc[h] /\ hand'[h] = hand[h]
                               /\ local'[h] = local[h] /\ results'[h] = results[h]
    BY <2>1, <2>2 DEF TypeOK
  <2>5. \/ ~Live(g) /\ pc'[g] = "settle"
        \/ pc'[g] \in {"merge", "fail"} /\ hand'[g] = k
    BY <2>1, <2>2 DEF TypeOK
  <2>6. /\ local'[g][k] = "Failed" /\ \A j \in Kinds : j # k => local'[g][j] = local[g][j]
        /\ results'[g] = results[g] \ {k}
    BY <2>1 DEF TypeOK
  <2>7. ReadyIsCached' /\ InputsLoaded'
    BY <2>1 DEF ReadyIsCached, InputsLoaded
  <2>8. FutureUntouched' /\ BeforeStart'
    BY <2>1, <2>4, <2>5 DEF FutureUntouched, BeforeStart
  <2>9. IdleIsEmpty'
    BY <2>1, <2>4, <2>5 DEF IdleIsEmpty
  <2>10. RunnersAreLoading'
    <3> SUFFICES ASSUME NEW h \in Gens, NEW j \in Kinds
                 PROVE  /\ runner'[h][j] \in {"admitted", "running", "returned"} =>
                             local'[h][j] = "Loading" /\ j \notin results'[h]
                        /\ j \in results'[h] => local'[h][j] = "Loading"
      BY DEF RunnersAreLoading
    <3>1. CASE h = g
      BY <2>1, <2>3, <2>6, <3>1 DEF RunnersAreLoading
    <3>2. CASE h # g
      BY <2>1, <2>4, <3>2 DEF RunnersAreLoading
    <3> QED BY <3>1, <3>2
  <2>11. HandInv'
    BY <2>1, <2>4, <2>5, <2>6 DEF HandInv, DependenciesReady
  <2>12. LocalAgrees'
    <3> SUFFICES ASSUME NEW h \in Gens, Live(h)'
                 PROVE /\ ~stopped' /\ pc'[h] # "settle"
                       /\ \A j \in Kinds : local'[h][j] \in {"Ready", "Loading", "Pending"} => status'[j] = local'[h][j]
                       /\ pc'[h] \in {"merge", "publish", "fail"} => status'[hand'[h]] = "Loading"
                       /\ pc'[h] = "publish" => staged'[h] = cache' \union {<<hand'[h], h>>}
      BY DEF LocalAgrees
    <3>1. Live(h)
      BY <2>1 DEF Live
    <3>2. CASE h = g
      BY <2>1, <2>3, <2>5, <2>6, <3>1, <3>2 DEF LocalAgrees
    <3>3. CASE h # g
      BY <2>1, <2>4, <3>1, <3>3 DEF LocalAgrees
    <3> QED BY <3>2, <3>3
  <2> QED BY <2>7, <2>8, <2>9, <2>10, <2>11, <2>12
<1> QED BY <1>1, <1>2, <1>3, <1>4, <1>5, <1>6, <1>7, <1>8, <1>9, <1>10 DEF Scheduler

\* Every step of a category's runner keeps IInv.
LEMMA RunnerMovesStep ==
  ASSUME IInv, TypeOK', NEW g \in Gens, NEW k \in Kinds, RunnerStep(g, k) \/ NativeReturn(g, k)
  PROVE  IInv'
<1> USE DEF IInv
<1>1. CASE SendResult(g, k)
  <2>1. /\ UNCHANGED <<generation, started, stopped, status, cache, ctx, pc, local, hand, staged, input>>
        /\ runner[g][k] = "returned" /\ runner' = [runner EXCEPT ![g][k] = "releasing"]
        /\ results' = [results EXCEPT ![g] = @ \union {k}]
    BY <1>1 DEF SendResult, loaderVars, schedVars
  <2>2. ReadyIsCached' /\ FutureUntouched' /\ BeforeStart' /\ HandInv' /\ LocalAgrees'
    BY <2>1 DEF ReadyIsCached, FutureUntouched, BeforeStart, HandInv, DependenciesReady, LocalAgrees, Live
  <2>3. InputsLoaded'
    BY <2>1 DEF InputsLoaded, TypeOK
  <2>4. IdleIsEmpty'
    BY <2>1 DEF IdleIsEmpty, TypeOK
  <2>5. RunnersAreLoading'
    BY <2>1 DEF RunnersAreLoading, TypeOK
  <2> QED BY <2>2, <2>3, <2>4, <2>5
<1>2. ASSUME NEW p \in RunnerPC, runner' = [runner EXCEPT ![g][k] = p],
             \/ runner[g][k] = "admitted" /\ p = "running"
             \/ runner[g][k] = "running" /\ p = "returned"
             \/ runner[g][k] # "idle" /\ p \in {"releasing", "finishing", "finished"}
      PROVE  RunnerMoves
  BY <1>2 DEF RunnerMoves, TypeOK
<1>3. CASE RunnerStarts(g, k)
  <2>1. \/ runner' = [runner EXCEPT ![g][k] = "running"]
        \/ runner' = [runner EXCEPT ![g][k] = "releasing"]
    BY <1>3, Zenon DEF RunnerStarts
  <2>2. RunnerMoves
    BY <1>2, <1>3, <2>1 DEF RunnerStarts, RunnerPC
  <2> QED BY <1>3, <2>2, QuietStep DEF RunnerStarts, schedVars, PcMoves
<1>4. CASE ReleaseSlot(g, k)
  <2>1. RunnerMoves
    BY <1>2, <1>4 DEF ReleaseSlot, RunnerPC
  <2> QED BY <1>4, <2>1, QuietStep DEF ReleaseSlot, loaderVars, schedVars, PcMoves
<1>5. CASE RunnerFinished(g, k)
  <2>1. RunnerMoves
    BY <1>2, <1>5 DEF RunnerFinished, RunnerPC
  <2> QED BY <1>5, <2>1, QuietStep DEF RunnerFinished, loaderVars, schedVars, PcMoves
<1>6. CASE NativeReturn(g, k)
  <2>1. RunnerMoves
    BY <1>2, <1>6 DEF NativeReturn, RunReturns, RunnerPC
  <2> QED BY <1>6, <2>1, QuietStep DEF NativeReturn, RunReturns, schedVars, PcMoves
<1> QED BY <1>1, <1>3, <1>4, <1>5, <1>6 DEF RunnerStep

\* Nothing is published, started or running at first.
LEMMA InitIInv == Init => IInv
<1> SUFFICES ASSUME Init PROVE IInv
  OBVIOUS
<1>1. TypeOK
  BY TypeCorrectInit
<1>2. ReadyIsCached /\ BeforeStart
  BY LoaderAssumption DEF Init, ReadyIsCached, BeforeStart, Gens
<1>3. InputsLoaded /\ FutureUntouched /\ IdleIsEmpty /\ RunnersAreLoading
  BY DEF Init, InputsLoaded, FutureUntouched, IdleIsEmpty, RunnersAreLoading
<1>4. HandInv /\ LocalAgrees
  BY DEF Init, HandInv, LocalAgrees, Live
<1> QED BY <1>1, <1>2, <1>3, <1>4 DEF IInv

\* The inductive invariant holds in every reachable state.
THEOREM Inductive == Spec => []IInv
<1>1. Init => IInv
  BY InitIInv
<1>2. IInv /\ TypeOK' /\ [Next]_vars => IInv'
  <2> SUFFICES ASSUME IInv, TypeOK', [Next]_vars PROVE IInv'
    OBVIOUS
  <2>1. CASE UNCHANGED vars
    BY <2>1, QuietStep DEF vars, loaderVars, schedVars, runVars, PcMoves, RunnerMoves
  <2> QED BY <2>1, OperationStep, SchedulerStep, RunnerMovesStep DEF Next
<1> QED BY <1>1, <1>2, TypeCorrect, PTL DEF Spec

\* A published snapshot never mixes generations.
THEOREM SnapshotsNeverMix == Spec => []CacheMatchesStatus
<1>1. IInv => CacheMatchesStatus
  BY DEF IInv, CacheMatchesStatus
<1> QED BY <1>1, Inductive, PTL

\* A job runs against a cache of its own generation with its prerequisites in it.
THEOREM JobsSeeTheirInputs == Spec => []InputsLoaded
<1>1. IInv => InputsLoaded
  BY DEF IInv
<1> QED BY <1>1, Inductive, PTL

-----------------------------------------------------------------------------
(* Action properties.                                                      *)

\* Schedulers and runners leave the generation, its lifecycle flags and every
\* settled category alone, and count each change of status or cache.
LEMMA GoroutineStep ==
  ASSUME TypeOK, \/ \E g \in Gens : Scheduler(g)
                 \/ \E g \in Gens, k \in Kinds : RunnerStep(g, k) \/ NativeReturn(g, k)
  PROVE  /\ UNCHANGED <<generation, started, startFailed, stale>>
         /\ \A j \in Kinds : status[j] \notin Unsettled => status'[j] = status[j]
         /\ revision' > revision \/ UNCHANGED <<revision, status, cache>>
<1>1. ASSUME NEW g \in Gens, NEW k \in Kinds, RunnerStep(g, k) \/ NativeReturn(g, k)
      PROVE  UNCHANGED <<generation, started, startFailed, stale, status, cache>> /\ revision' \in {revision, revision + 1}
  BY <1>1 DEF RunnerStep, NativeReturn, RunnerStarts, RunReturns, SendResult, ReleaseSlot, RunnerFinished, loaderVars
<1>2. ASSUME NEW g \in Gens, NEW k \in Kinds, NEW s, NEW c, SetStatus(g, k, s, c)
      PROVE  /\ \A j \in Kinds : status[j] \notin Unsettled => status'[j] = status[j]
             /\ revision' = revision + 1 \/ UNCHANGED <<revision, status, cache>>
  BY <1>2 DEF SetStatus, TypeOK
<1>3. ASSUME NEW g \in Gens, Scheduler(g)
      PROVE  /\ UNCHANGED <<generation, started, startFailed, stale>>
             /\ \A j \in Kinds : status[j] \notin Unsettled => status'[j] = status[j]
             /\ revision' = revision + 1 \/ UNCHANGED <<revision, status, cache>>
  <2>1. CASE \/ Top(g) \/ RejectJob(g) \/ ScanEnds(g) \/ Wake(g) \/ ParkCancelled(g) \/ Merge(g)
             \/ MergeFails(g) \/ Finish(g) \/ SchedulerExits(g)
             \/ \E k \in Kinds : TryAcquireSlot(g, k) \/ ReceiveResult(g, k)
    BY <2>1 DEF Top, RejectJob, ScanEnds, Wake, ParkCancelled, Merge, MergeFails, Finish,
                SchedulerExits, TryAcquireSlot, ReceiveResult, loaderVars
  <2>2. CASE AdmitJob(g)
    BY <2>2 DEF AdmitJob, Admissible, TypeOK, Unsettled
  <2>3. CASE PublishReady(g)
    <3>1. hand[g] \in Kinds
      BY <2>3 DEF PublishReady, TypeOK
    <3> QED BY <1>2, <2>3, <3>1 DEF PublishReady
  <2>4. CASE PublishFailed(g)
    <3>1. hand[g] \in Kinds
      BY <2>4 DEF PublishFailed, TypeOK
    <3> QED BY <1>2, <2>4, <3>1 DEF PublishFailed
  <2>5. ASSUME NEW k \in Kinds, BlockDependent(g, k)
        PROVE  /\ UNCHANGED <<generation, started, startFailed, stale>>
               /\ \A j \in Kinds : status[j] \notin Unsettled => status'[j] = status[j]
               /\ revision' = revision + 1 \/ UNCHANGED <<revision, status, cache>>
    BY <1>2, <2>5 DEF BlockDependent
  <2>6. CASE SettleCancelled(g)
    <3>1. CASE generation = g
      <4>1. status' = Cancelled(status) /\ revision' = IF HasUnsettled(status) THEN revision + 1 ELSE revision
        BY <2>6, <3>1 DEF SettleCancelled
      <4>2. ~HasUnsettled(status) => Cancelled(status) = status
        BY DEF HasUnsettled, Cancelled, TypeOK
      <4>3. \A j \in Kinds : status[j] \notin Unsettled => status'[j] = status[j]
        BY <4>1 DEF Cancelled
      <4> QED BY <2>6, <4>1, <4>2, <4>3 DEF SettleCancelled
    <3>2. CASE generation # g
      BY <2>6, <3>2 DEF SettleCancelled
    <3> QED BY <3>1, <3>2
  <2> QED BY <1>3, <2>1, <2>2, <2>3, <2>4, <2>5, <2>6 DEF Scheduler
<1> QED BY <1>1, <1>3 DEF TypeOK, Unsettled

\* Two snapshots with the same generation and revision are the same snapshot.
THEOREM RevisionOrdersSnapshots == Spec => RevisionOrder
<1> DEFINE Ordered == snapshot' # snapshot =>
             \/ generation' > generation
             \/ generation' = generation /\ revision' > revision
<1>1. TypeOK /\ [Next]_vars => Ordered
  <2> SUFFICES ASSUME TypeOK, [Next]_vars PROVE Ordered
    OBVIOUS
  <2>1. CASE Operation
    <3>1. CASE MarkStale \/ Stop
      <4>1. ~HasUnsettled(status) => Cancelled(status) = status
        BY DEF HasUnsettled, Cancelled, TypeOK
      <4> QED BY <3>1, <4>1 DEF MarkStale, Stop, snapshot, TypeOK
    <3>2. CASE ~(MarkStale \/ Stop)
      BY <2>1, <3>2 DEF Operation, Reset, MarkStartFailed, Start, InstallSettled, ParentEnds,
                        loaderVars, snapshot, TypeOK, Gens
    <3> QED BY <3>1, <3>2
  <2>2. CASE \/ \E g \in Gens : Scheduler(g)
             \/ \E g \in Gens, k \in Kinds : RunnerStep(g, k) \/ NativeReturn(g, k)
    BY <2>2, GoroutineStep DEF snapshot
  <2>3. CASE UNCHANGED vars
    BY <2>3 DEF vars, loaderVars, snapshot
  <2> QED BY <2>1, <2>2, <2>3 DEF Next
<1> QED BY <1>1, TypeCorrect, PTL DEF Spec, RevisionOrder

\* A settled category is never reopened or overwritten within its generation.
THEOREM SettledForGood == Spec => SettledStays
<1> DEFINE Stays == generation' = generation =>
             \A k \in Kinds : status[k] \in {"Ready", "Failed", "Blocked", "Cancelled"} => status'[k] = status[k]
<1>1. IInv /\ [Next]_vars => Stays
  <2> SUFFICES ASSUME IInv, [Next]_vars PROVE Stays
    OBVIOUS
  <2>0. TypeOK /\ BeforeStart
    BY DEF IInv
  <2>1. CASE Operation
    <3>1. CASE MarkStale \/ Stop
      BY <3>1 DEF MarkStale, Stop, Cancelled, Unsettled
    <3>2. ASSUME NEW g \in Gens, NEW p \in SUBSET Kinds, Start(g, p) PROVE Stays
      BY <2>0, <3>2 DEF Start, BeforeStart
    <3>3. ASSUME NEW g \in Gens, Reset(g) \/ MarkStartFailed(g) PROVE Stays
      BY <2>0, <3>3 DEF Reset, MarkStartFailed, TypeOK, Gens
    <3>4. ASSUME NEW g \in Gens, NEW p \in SUBSET Kinds, InstallSettled(g, p) PROVE Stays
      BY <2>0, <3>4 DEF InstallSettled, TypeOK, Gens
    <3>5. CASE ParentEnds
      BY <3>5 DEF ParentEnds, loaderVars
    <3> QED BY <2>1, <3>1, <3>2, <3>3, <3>4, <3>5 DEF Operation
  <2>2. CASE \/ \E g \in Gens : Scheduler(g)
             \/ \E g \in Gens, k \in Kinds : RunnerStep(g, k) \/ NativeReturn(g, k)
    BY <2>0, <2>2, GoroutineStep DEF Unsettled
  <2>3. CASE UNCHANGED vars
    BY <2>3 DEF vars, loaderVars
  <2> QED BY <2>1, <2>2, <2>3 DEF Next
<1> QED BY <1>1, Inductive, PTL DEF Spec, SettledStays

-----------------------------------------------------------------------------
(* What closed channels and an empty count tell those who wait.            *)

\* What the scheduler has no plan for it knows nothing of.
PlanIsLocal == \A g \in Gens, k \in Kinds : k \notin plan[g] => local[g][k] = "Unsupported"

\* The scheduler leaves its loop with nothing unsettled of its own, and while its
\* context lives what it has settled the snapshot shows as settled, except the
\* result in its hand.
TerminalAgrees ==
  \A g \in Gens :
    /\ pc[g] = "finish" => \A k \in Kinds : local[g][k] \notin Unsettled
    /\ Live(g) => \A k \in Kinds :
         local[g][k] \notin Unsettled /\ status[k] \in Unsettled =>
           pc[g] \in {"merge", "publish", "fail"} /\ hand[g] = k

\* A scheduler has a context to run under.
ContextsBegin == \A g \in Gens : pc[g] # "idle" => ctx[g] # "none"

\* Whoever ends the context of the current generation, or closes its Done,
\* settles what is unsettled, unless the owner's context ended first.
EndsAreSettled ==
  generation # 0 /\ ~parentDone /\ (ctx[generation] = "cancelled" \/ done[generation] = "closed") =>
    ~HasUnsettled(status)

\* A job that was not launched has no runner.
PendingHasNoRunner == \A g \in Gens, k \in Kinds : local[g][k] \in {"Pending", "Unsupported"} => runner[g][k] = "idle"

Jobs == Gens \X Kinds
Schedulers == {g \in Gens : pc[g] \notin {"idle", "exited"}}
Runners == {x \in Jobs : runner[x[1]][x[2]] \notin {"idle", "finished"}}
Admitting == {g \in Gens : pc[g] = "admit"}
Holding == {x \in Jobs : runner[x[1]][x[2]] \in {"admitted", "running", "returned", "releasing"}}

\* l.active counts the goroutines that are alive, the semaphore the permits that
\* are out.
Counted ==
  /\ IsFiniteSet(Runners)
  /\ active = Cardinality(Schedulers) + Cardinality(Runners)
  /\ slots = Cardinality(Admitting) + Cardinality(Holding)

ToldInv ==
  IInv /\ PlanIsLocal /\ TerminalAgrees /\ ContextsBegin /\ EndsAreSettled /\ PendingHasNoRunner /\ Counted

\* Nothing is planned, running or ended at first.
LEMMA InitTold == Init => ToldInv
<1> SUFFICES ASSUME Init PROVE ToldInv
  OBVIOUS
<1>1. IInv
  BY InitIInv
<1>2. PlanIsLocal /\ TerminalAgrees /\ ContextsBegin /\ PendingHasNoRunner
  BY DEF Init, PlanIsLocal, TerminalAgrees, ContextsBegin, PendingHasNoRunner, Live
<1>3. EndsAreSettled
  BY DEF Init, EndsAreSettled
<1>4. Schedulers = {} /\ Runners = {} /\ Admitting = {} /\ Holding = {}
  BY DEF Init, Schedulers, Runners, Admitting, Holding, Jobs
<1>5. Counted
  BY <1>4, FS_EmptySet DEF Init, Counted
<1> QED BY <1>1, <1>2, <1>3, <1>5 DEF ToldInv

\* What a schedule goroutine or a runner may touch of the others' state.
LEMMA GoroutineFrame ==
  ASSUME \/ \E g \in Gens : Scheduler(g)
         \/ \E g \in Gens, k \in Kinds : RunnerStep(g, k) \/ NativeReturn(g, k)
  PROVE  UNCHANGED <<generation, stopped, parentDone, ctx, plan>>
BY DEF Scheduler, RunnerStep, NativeReturn, Top, AdmitJob, RejectJob, ScanEnds, Wake, ParkCancelled, Merge, MergeFails,
       PublishReady, PublishFailed, SettleCancelled, Finish, SchedulerExits, BlockDependent, TryAcquireSlot, ReceiveResult,
       RunnerStarts, RunReturns, SendResult, ReleaseSlot, RunnerFinished, loaderVars, schedVars

\* The scheduler works on what it planned, and launches a job once.
LEMMA PlanStep ==
  ASSUME IInv, PlanIsLocal, PendingHasNoRunner, TypeOK', [Next]_vars
  PROVE  PlanIsLocal' /\ PendingHasNoRunner'
<1> USE DEF PlanIsLocal, PendingHasNoRunner
<1>0. TypeOK
  BY DEF IInv
<1>1. CASE UNCHANGED <<plan, local, runner>>
  BY <1>1
<1>2. ASSUME NEW g \in Gens, NEW p \in SUBSET Kinds, Start(g, p) PROVE PlanIsLocal' /\ PendingHasNoRunner'
  <2>1. /\ plan' = [plan EXCEPT ![g] = p] /\ runner' = runner
        /\ local' = [local EXCEPT ![g] = [k \in Kinds |-> IF k \in p THEN "Pending" ELSE "Unsupported"]]
    BY <1>2 DEF Start, runVars
  <2>2. pc[g] = "idle"
    BY <1>2 DEF Start, IInv, BeforeStart
  <2>3. \A k \in Kinds : runner[g][k] = "idle"
    BY <2>2 DEF IInv, IdleIsEmpty
  <2> QED BY <1>0, <2>1, <2>3 DEF TypeOK
<1>3. ASSUME NEW g \in Gens, NEW k \in Kinds, NEW s \in {"Blocked", "Loading", "Failed", "Ready"},
             k \in plan[g], local' = [local EXCEPT ![g][k] = s], UNCHANGED <<plan, runner>>
      PROVE  PlanIsLocal' /\ PendingHasNoRunner'
  BY <1>0, <1>3 DEF TypeOK
<1>4. ASSUME NEW g \in Gens, Scheduler(g) PROVE PlanIsLocal' /\ PendingHasNoRunner'
  <2>1. CASE \/ Top(g) \/ RejectJob(g) \/ ScanEnds(g) \/ Wake(g) \/ ParkCancelled(g) \/ Merge(g)
             \/ MergeFails(g) \/ PublishFailed(g) \/ SettleCancelled(g) \/ Finish(g) \/ SchedulerExits(g)
             \/ \E k \in Kinds : TryAcquireSlot(g, k)
    BY <1>1, <2>1 DEF Top, RejectJob, ScanEnds, Wake, ParkCancelled, Merge, MergeFails, PublishFailed, SettleCancelled, Finish,
                SchedulerExits, TryAcquireSlot, runVars
  <2>2. CASE AdmitJob(g)
    <3>1. PICK k \in Kinds : k = hand[g]
      BY <1>0, <2>2 DEF AdmitJob, TypeOK
    <3>2. local[g][k] = "Pending"
      BY <2>2, <3>1 DEF AdmitJob, IInv, HandInv
    <3>3. /\ local' = [local EXCEPT ![g][k] = "Loading"] /\ runner' = [runner EXCEPT ![g][k] = "admitted"]
          /\ plan' = plan
      BY <2>2, <3>1 DEF AdmitJob
    <3>4. \A h \in Gens, j \in Kinds : ~(h = g /\ j = k) => local'[h][j] = local[h][j] /\ runner'[h][j] = runner[h][j]
      BY <1>0, <3>3 DEF TypeOK
    <3>5. local'[g][k] = "Loading" /\ k \in plan[g]
      BY <1>0, <3>2, <3>3 DEF TypeOK
    <3> QED BY <3>3, <3>4, <3>5
  <2>3. CASE PublishReady(g)
    <3>1. PICK k \in Kinds : k = hand[g]
      BY <1>0, <2>3 DEF PublishReady, TypeOK
    <3>2. local[g][k] = "Failed"
      BY <2>3, <3>1 DEF PublishReady, IInv, HandInv
    <3> QED BY <1>3, <2>3, <3>1, <3>2 DEF PublishReady, runVars
  <2>4. ASSUME NEW k \in Kinds, BlockDependent(g, k) PROVE PlanIsLocal' /\ PendingHasNoRunner'
    BY <1>3, <2>4 DEF BlockDependent, Blockable, runVars
  <2>5. ASSUME NEW k \in Kinds, ReceiveResult(g, k) PROVE PlanIsLocal' /\ PendingHasNoRunner'
    <3>1. local[g][k] = "Loading"
      BY <2>5 DEF ReceiveResult, IInv, RunnersAreLoading
    <3> QED BY <1>3, <2>5, <3>1 DEF ReceiveResult
  <2> QED BY <1>4, <2>1, <2>2, <2>3, <2>4, <2>5 DEF Scheduler
<1>5. ASSUME NEW g \in Gens, NEW k \in Kinds, RunnerStep(g, k) \/ NativeReturn(g, k) PROVE PlanIsLocal' /\ PendingHasNoRunner'
  <2>1. UNCHANGED <<plan, local>> /\ runner[g][k] # "idle"
    BY <1>5 DEF RunnerStep, NativeReturn, RunnerStarts, RunReturns, SendResult, ReleaseSlot, RunnerFinished, schedVars
  <2>2. \E p \in RunnerPC : runner' = [runner EXCEPT ![g][k] = p]
    BY <1>5 DEF RunnerStep, NativeReturn, RunnerStarts, RunReturns, SendResult, ReleaseSlot, RunnerFinished, RunnerPC
  <2>3. \A h \in Gens, j \in Kinds : ~(h = g /\ j = k) => runner'[h][j] = runner[h][j]
    BY <1>0, <2>2 DEF TypeOK
  <2> QED BY <2>1, <2>3
<1>6. CASE Operation
  <2>1. ASSUME NEW g \in Gens, Reset(g) \/ MarkStartFailed(g) PROVE UNCHANGED <<plan, local, runner>>
    BY <2>1 DEF Reset, MarkStartFailed, schedVars, runVars
  <2>2. ASSUME NEW g \in Gens, NEW p \in SUBSET Kinds, InstallSettled(g, p) PROVE UNCHANGED <<plan, local, runner>>
    BY <2>2 DEF InstallSettled, schedVars, runVars
  <2>3. ASSUME MarkStale \/ Stop \/ ParentEnds PROVE UNCHANGED <<plan, local, runner>>
    BY <2>3 DEF MarkStale, Stop, ParentEnds, schedVars, runVars
  <2> QED BY <1>1, <1>2, <1>6, <2>1, <2>2, <2>3 DEF Operation
<1>7. CASE UNCHANGED vars
  BY <1>1, <1>7 DEF vars, schedVars, runVars
<1> QED BY <1>4, <1>5, <1>6, <1>7 DEF Next

\* A scheduler comes to life under a context, and no context is taken back.
LEMMA ContextStep ==
  ASSUME IInv, ContextsBegin, TypeOK', [Next]_vars
  PROVE  ContextsBegin'
<1> USE DEF ContextsBegin
<1>0. TypeOK
  BY DEF IInv
<1>1. CASE Operation
  <2>1. ASSUME NEW g \in Gens, Reset(g) PROVE ContextsBegin'
    BY <2>1 DEF Reset, CancelCurrent, schedVars
  <2>2. ASSUME NEW g \in Gens, MarkStartFailed(g) PROVE ContextsBegin'
    BY <2>2 DEF MarkStartFailed, schedVars
  <2>3. ASSUME NEW g \in Gens, NEW p \in SUBSET Kinds, Start(g, p) \/ InstallSettled(g, p) PROVE ContextsBegin'
    <3>1. PICK c \in {"live", "cancelled"} : ctx' = [ctx EXCEPT ![g] = c]
      BY <2>3, Zenon DEF Start, InstallSettled
    <3>2. \A h \in Gens : h # g => pc'[h] = pc[h]
      BY <1>0, <2>3 DEF Start, InstallSettled, schedVars, TypeOK
    <3> QED BY <1>0, <3>1, <3>2 DEF TypeOK
  <2>4. CASE MarkStale \/ Stop
    BY <2>4 DEF MarkStale, Stop, CancelCurrent, schedVars
  <2>5. CASE ParentEnds
    BY <2>5 DEF ParentEnds, schedVars
  <2> QED BY <1>1, <2>1, <2>2, <2>3, <2>4, <2>5 DEF Operation
<1>2. ASSUME NEW g \in Gens, Scheduler(g) PROVE ContextsBegin'
  <2>1. ctx' = ctx
    BY <1>2, GoroutineFrame
  <2>2. pc[g] # "idle" /\ \E p \in PC : pc' = [pc EXCEPT ![g] = p]
    <3>2. ASSUME NEW k \in Kinds, BlockDependent(g, k) PROVE pc[g] = "scan" /\ pc' = pc
      BY <3>2 DEF BlockDependent
    <3>3. ASSUME NEW k \in Kinds, BlockDependent(g, k) PROVE pc[g] # "idle" /\ \E p \in PC : pc' = [pc EXCEPT ![g] = p]
      BY <1>0, <3>2, <3>3 DEF PC, TypeOK
    <3>4. ASSUME NEW k \in Kinds, TryAcquireSlot(g, k) \/ ReceiveResult(g, k)
          PROVE  pc[g] # "idle" /\ \E p \in PC : pc' = [pc EXCEPT ![g] = p]
      BY <3>4 DEF TryAcquireSlot, ReceiveResult, PC
    <3>5. ASSUME Top(g) \/ AdmitJob(g) \/ RejectJob(g) \/ ScanEnds(g) \/ Wake(g) \/ ParkCancelled(g)
          PROVE  pc[g] # "idle" /\ \E p \in PC : pc' = [pc EXCEPT ![g] = p]
      BY <3>5 DEF Top, AdmitJob, RejectJob, ScanEnds, Wake, ParkCancelled, PC
    <3>6. ASSUME \/ Merge(g) \/ MergeFails(g) \/ PublishReady(g) \/ PublishFailed(g) \/ SettleCancelled(g)
                 \/ Finish(g) \/ SchedulerExits(g)
          PROVE  pc[g] # "idle" /\ \E p \in PC : pc' = [pc EXCEPT ![g] = p]
      BY <3>6 DEF Merge, MergeFails, PublishReady, PublishFailed, SettleCancelled, Finish, SchedulerExits, PC
    <3> QED BY <1>2, <3>3, <3>4, <3>5, <3>6 DEF Scheduler
  <2> QED BY <1>0, <2>1, <2>2 DEF TypeOK
<1>3. ASSUME NEW g \in Gens, NEW k \in Kinds, RunnerStep(g, k) \/ NativeReturn(g, k) PROVE ContextsBegin'
  <2>1. UNCHANGED <<ctx, pc>>
    BY <1>3 DEF RunnerStep, NativeReturn, RunnerStarts, RunReturns, SendResult, ReleaseSlot, RunnerFinished, schedVars
  <2> QED BY <2>1
<1>4. CASE UNCHANGED vars
  BY <1>4 DEF vars, schedVars
<1> QED BY <1>1, <1>2, <1>3, <1>4 DEF Next

\* While a context lives, what the scheduler has settled is settled for all.
LEMMA TerminalStep ==
  ASSUME IInv, PlanIsLocal, TerminalAgrees, TypeOK', [Next]_vars
  PROVE  TerminalAgrees'
<1> USE DEF TerminalAgrees
<1>0. TypeOK
  BY DEF IInv
<1>1. CASE Operation
  <2>1. ASSUME UNCHANGED <<pc, local>>, \A h \in Gens : ~Live(h)' PROVE TerminalAgrees'
    BY <2>1
  <2>2. ASSUME NEW g \in Gens, Reset(g) PROVE TerminalAgrees'
    <3>1. ctx[g] = "none" /\ g # generation
      BY <2>2 DEF Reset, IInv, FutureUntouched, TypeOK, Gens
    <3>2. generation' = g /\ ctx'[g] = "none" /\ UNCHANGED <<pc, local>>
      BY <2>2, <3>1 DEF Reset, CancelCurrent, schedVars
    <3> QED BY <2>1, <3>2 DEF Live
  <2>3. ASSUME NEW g \in Gens, MarkStartFailed(g) PROVE TerminalAgrees'
    BY <2>3 DEF MarkStartFailed, schedVars, Live
  <2>4. ASSUME NEW g \in Gens, NEW p \in SUBSET Kinds, Start(g, p) PROVE TerminalAgrees'
    <3>1. /\ generation' = g /\ pc' = [pc EXCEPT ![g] = "top"]
          /\ local' = [local EXCEPT ![g] = [k \in Kinds |-> IF k \in p THEN "Pending" ELSE "Unsupported"]]
          /\ status' = [k \in Kinds |-> IF k \in p THEN "Pending" ELSE "Unsupported"]
      BY <2>4 DEF Start
    <3>2. \A h \in Gens : h # g => ~Live(h)' /\ pc'[h] = pc[h] /\ local'[h] = local[h]
      BY <1>0, <3>1 DEF Live, TypeOK
    <3>3. pc'[g] = "top" /\ \A k \in Kinds : local'[g][k] = status'[k]
      BY <1>0, <3>1 DEF TypeOK
    <3> QED BY <3>2, <3>3
  <2>5. ASSUME NEW g \in Gens, NEW p \in SUBSET Kinds, InstallSettled(g, p) PROVE TerminalAgrees'
    <3>1. \A k \in Kinds : status'[k] \notin Unsettled
      BY <2>5 DEF InstallSettled, Unsettled
    <3> QED BY <2>5, <3>1 DEF InstallSettled, schedVars
  <2>6. CASE MarkStale \/ Stop
    <3>1. \A h \in Gens : ~Live(h)'
      BY <2>6 DEF MarkStale, Stop, CancelCurrent, Live
    <3> QED BY <2>1, <2>6, <3>1 DEF MarkStale, Stop, schedVars
  <2>7. CASE ParentEnds
    <3>1. \A h \in Gens : ~Live(h)'
      BY <2>7 DEF ParentEnds, Live
    <3> QED BY <2>1, <2>7, <3>1 DEF ParentEnds, schedVars
  <2> QED BY <1>1, <2>2, <2>3, <2>4, <2>5, <2>6, <2>7 DEF Operation
<1>2. ASSUME NEW g \in Gens, Scheduler(g) PROVE TerminalAgrees'
  <2>0. UNCHANGED <<generation, ctx>> /\ \A h \in Gens : Live(h)' <=> Live(h)
    BY <1>2, GoroutineFrame DEF Live
  \* Others only see the snapshot: it changes while their own context is dead.
  <2>1. ASSUME \A h \in Gens : h # g => UNCHANGED <<pc[h], local[h], hand[h]>> /\ (Live(h) => status' = status),
               pc'[g] = "finish" => \A k \in Kinds : local'[g][k] \notin Unsettled,
               Live(g) => \A k \in Kinds : local'[g][k] \notin Unsettled /\ status'[k] \in Unsettled =>
                            pc'[g] \in {"merge", "publish", "fail"} /\ hand'[g] = k
        PROVE  TerminalAgrees'
    BY <2>0, <2>1
  <2>2. Live(g) => \A h \in Gens : h # g => ~Live(h)
    BY DEF Live
  <2>3. CASE Top(g) \/ ScanEnds(g)
    <3>1. UNCHANGED <<local, hand, status>> /\ pc[g] \in {"top", "scan"}
      BY <2>3 DEF Top, ScanEnds, loaderVars
    <3>2. PICK p \in PC : pc' = [pc EXCEPT ![g] = p] /\ (p = "finish" => LocalTerminal(g))
      BY <2>3 DEF Top, ScanEnds, PC
    <3>3. LocalTerminal(g) => \A k \in Kinds : local[g][k] \notin Unsettled
      BY DEF LocalTerminal, PlanIsLocal, Unsettled
    <3>4. pc'[g] = p /\ \A h \in Gens : h # g => pc'[h] = pc[h]
      BY <1>0, <3>2 DEF TypeOK
    <3> QED BY <2>1, <3>1, <3>2, <3>3, <3>4
  <2>4. CASE RejectJob(g) \/ Wake(g) \/ ParkCancelled(g) \/ Finish(g) \/ SchedulerExits(g)
    <3>1. UNCHANGED <<local, status>> /\ pc[g] \in {"admit", "park", "finish", "exit"}
      BY <2>4 DEF RejectJob, Wake, ParkCancelled, Finish, SchedulerExits, loaderVars
    <3>2. PICK p \in {"settle", "top", "exit", "exited"} : pc' = [pc EXCEPT ![g] = p]
      BY <2>4 DEF RejectJob, Wake, ParkCancelled, Finish, SchedulerExits
    <3>3. \A h \in Gens : h # g => hand'[h] = hand[h]
      BY <1>0, <2>4 DEF RejectJob, Wake, ParkCancelled, Finish, SchedulerExits, TypeOK
    <3>4. pc'[g] = p /\ \A h \in Gens : h # g => pc'[h] = pc[h]
      BY <1>0, <3>2 DEF TypeOK
    <3> QED BY <2>1, <3>1, <3>3, <3>4
  <2>5. CASE Merge(g) \/ MergeFails(g)
    <3>1. UNCHANGED <<local, hand, status>> /\ pc[g] = "merge"
      BY <2>5 DEF Merge, MergeFails, loaderVars
    <3>2. PICK p \in {"publish", "fail"} : pc' = [pc EXCEPT ![g] = p]
      BY <2>5 DEF Merge, MergeFails
    <3>3. pc'[g] = p /\ \A h \in Gens : h # g => pc'[h] = pc[h]
      BY <1>0, <3>2 DEF TypeOK
    <3> QED BY <2>1, <3>1, <3>3
  <2>6. CASE AdmitJob(g)
    <3>1. PICK k \in Kinds : k = hand[g]
      BY <1>0, <2>6 DEF AdmitJob, TypeOK
    <3>2. /\ pc[g] = "admit" /\ Live(g) /\ pc' = [pc EXCEPT ![g] = "scan"] /\ hand' = [hand EXCEPT ![g] = None]
          /\ local' = [local EXCEPT ![g][k] = "Loading"] /\ status' = [status EXCEPT ![k] = "Loading"]
      BY <2>6, <3>1 DEF AdmitJob, Admissible, Live
    <3>3. \A h \in Gens : h # g => UNCHANGED <<pc[h], local[h], hand[h]>>
      BY <1>0, <3>2 DEF TypeOK
    <3>4. pc'[g] = "scan" /\ local'[g][k] = "Loading" /\ \A j \in Kinds : j # k => local'[g][j] = local[g][j] /\ status'[j] = status[j]
      BY <1>0, <3>2 DEF TypeOK
    <3>5. \A j \in Kinds : local[g][j] \notin Unsettled => status[j] \notin Unsettled
      BY <3>2
    <3> QED BY <2>1, <2>2, <3>2, <3>3, <3>4, <3>5 DEF Unsettled
  <2>7. CASE PublishReady(g) \/ PublishFailed(g)
    <3>1. PICK k \in Kinds : k = hand[g]
      BY <1>0, <2>7 DEF PublishReady, PublishFailed, TypeOK
    <3>2. /\ pc[g] \in {"publish", "fail"} /\ pc' = [pc EXCEPT ![g] = "top"] /\ hand' = [hand EXCEPT ![g] = None]
          /\ local[g][k] = "Failed"
      BY <2>7, <3>1 DEF PublishReady, PublishFailed, IInv, HandInv
    <3>3. \A j \in Kinds : j # k => local'[g][j] = local[g][j]
      BY <1>0, <2>7, <3>1 DEF PublishReady, PublishFailed, TypeOK
    <3>4. \A h \in Gens : h # g => UNCHANGED <<pc[h], local[h], hand[h]>>
      BY <1>0, <2>7, <3>1, <3>2 DEF PublishReady, PublishFailed, TypeOK
    <3>5. PICK s \in {"Ready", "Failed"}, c \in {staged[g], cache} : SetStatus(g, k, s, c)
      BY <2>7, <3>1 DEF PublishReady, PublishFailed
    <3>6. (~Live(g) /\ status' = status) \/ (status[k] \notin Unsettled /\ status' = status) \/ status' = [status EXCEPT ![k] = s]
      BY <3>5, SetStatusEffect
    <3>7. ~Live(g) => status' = status
      BY <3>5, SetStatusEffect
    <3>8. Live(g) => status'[k] \notin Unsettled
      BY <1>0, <3>6 DEF TypeOK, Unsettled
    <3>9. \A j \in Kinds : j # k => status'[j] = status[j]
      BY <1>0, <3>6 DEF TypeOK
    <3>10. pc'[g] = "top"
      BY <1>0, <3>2 DEF TypeOK
    <3> QED BY <2>1, <2>2, <3>1, <3>3, <3>4, <3>7, <3>8, <3>9, <3>10
  <2>8. CASE SettleCancelled(g)
    <3>1. UNCHANGED <<local, hand>> /\ pc[g] = "settle" /\ pc' = [pc EXCEPT ![g] = "exit"] /\ (generation # g => status' = status)
      BY <2>8 DEF SettleCancelled
    <3>2. ~Live(g)
      BY <3>1 DEF IInv, LocalAgrees
    <3>3. \A h \in Gens : h # g => pc'[h] = pc[h] /\ (Live(h) => status' = status)
      BY <1>0, <3>1 DEF TypeOK, Live
    <3>4. pc'[g] = "exit"
      BY <1>0, <3>1 DEF TypeOK
    <3> QED BY <2>1, <3>1, <3>2, <3>3, <3>4
  <2>9. ASSUME NEW k \in Kinds, BlockDependent(g, k) PROVE TerminalAgrees'
    <3>1. UNCHANGED <<pc, hand>> /\ pc[g] = "scan" /\ local' = [local EXCEPT ![g][k] = "Blocked"] /\ SetStatus(g, k, "Blocked", cache)
      BY <2>9 DEF BlockDependent
    <3>2. ~Live(g) => status' = status
      BY <3>1, SetStatusEffect
    <3>3. status' = status \/ status' = [status EXCEPT ![k] = "Blocked"]
      BY <3>1, SetStatusEffect
    <3>4. Live(g) => status'[k] \notin Unsettled
      BY <1>0, <3>1, <3>3, SetStatusEffect DEF TypeOK, Unsettled
    <3>5. \A j \in Kinds : j # k => status'[j] = status[j] /\ local'[g][j] = local[g][j]
      BY <1>0, <3>1, <3>3 DEF TypeOK
    <3>6. \A h \in Gens : h # g => local'[h] = local[h]
      BY <1>0, <3>1 DEF TypeOK
    <3> QED BY <2>1, <2>2, <3>1, <3>2, <3>4, <3>5, <3>6
  <2>10. ASSUME NEW k \in Kinds, TryAcquireSlot(g, k) PROVE TerminalAgrees'
    <3>1. UNCHANGED <<local, status>> /\ pc[g] = "scan" /\ pc' = [pc EXCEPT ![g] = "admit"] /\ hand' = [hand EXCEPT ![g] = k]
      BY <2>10 DEF TryAcquireSlot, loaderVars
    <3>2. pc'[g] = "admit" /\ \A h \in Gens : h # g => UNCHANGED <<pc[h], hand[h]>>
      BY <1>0, <3>1 DEF TypeOK
    <3> QED BY <2>1, <3>1, <3>2
  <2>11. ASSUME NEW k \in Kinds, ReceiveResult(g, k) PROVE TerminalAgrees'
    <3>1. UNCHANGED status /\ pc[g] = "park" /\ local' = [local EXCEPT ![g][k] = "Failed"]
      BY <2>11 DEF ReceiveResult, loaderVars
    <3>2. \/ ctx[g] = "cancelled" /\ pc' = [pc EXCEPT ![g] = "settle"] /\ hand' = hand
          \/ hand' = [hand EXCEPT ![g] = k] /\ \E p \in {"merge", "fail"} : pc' = [pc EXCEPT ![g] = p]
      BY <2>11 DEF ReceiveResult
    <3>3. \A h \in Gens : h # g => UNCHANGED <<pc[h], local[h], hand[h]>>
      BY <1>0, <3>1, <3>2 DEF TypeOK
    <3>4. \/ ~Live(g) /\ pc'[g] = "settle"
          \/ hand'[g] = k /\ pc'[g] \in {"merge", "fail"}
      BY <1>0, <3>2 DEF TypeOK, Live
    <3>5. \A j \in Kinds : j # k => local'[g][j] = local[g][j]
      BY <1>0, <3>1 DEF TypeOK
    <3> QED BY <2>1, <3>1, <3>3, <3>4, <3>5
  <2> QED BY <1>2, <2>3, <2>4, <2>5, <2>6, <2>7, <2>8, <2>9, <2>10, <2>11 DEF Scheduler
<1>3. ASSUME NEW g \in Gens, NEW k \in Kinds, RunnerStep(g, k) \/ NativeReturn(g, k) PROVE TerminalAgrees'
  <2>1. UNCHANGED <<pc, local, hand, status, generation, ctx>>
    BY <1>3 DEF RunnerStep, NativeReturn, RunnerStarts, RunReturns, SendResult, ReleaseSlot, RunnerFinished, loaderVars, schedVars
  <2> QED BY <2>1 DEF Live
<1>4. CASE UNCHANGED vars
  BY <1>4 DEF vars, loaderVars, schedVars, Live
<1> QED BY <1>1, <1>2, <1>3, <1>4 DEF Next

\* Done closes on a settled generation, and a settled generation stays so.
LEMMA EndsStep ==
  ASSUME IInv, TerminalAgrees, ContextsBegin, EndsAreSettled, TypeOK', [Next]_vars
  PROVE  EndsAreSettled'
<1> USE DEF EndsAreSettled
<1>0. TypeOK
  BY DEF IInv
<1>1. ~HasUnsettled(Cancelled(status))
  BY DEF HasUnsettled, Cancelled, Unsettled
<1>2. CASE Operation
  <2>1. ASSUME NEW g \in Gens, Reset(g) PROVE EndsAreSettled'
    BY <2>1 DEF Reset, HasUnsettled, Unsettled
  <2>2. ASSUME NEW g \in Gens, MarkStartFailed(g) PROVE EndsAreSettled'
    BY <2>2 DEF MarkStartFailed
  <2>3. ASSUME NEW g \in Gens, NEW p \in SUBSET Kinds, Start(g, p) PROVE EndsAreSettled'
    <3>1. generation' = g /\ ctx'[g] = (IF parentDone THEN "cancelled" ELSE "live") /\ done'[g] = "open" /\ parentDone' = parentDone
      BY <1>0, <2>3 DEF Start, TypeOK
    <3> QED BY <3>1
  <2>4. ASSUME NEW g \in Gens, NEW p \in SUBSET Kinds, InstallSettled(g, p) PROVE EndsAreSettled'
    BY <2>4 DEF InstallSettled, HasUnsettled, Unsettled
  <2>5. CASE MarkStale \/ Stop
    BY <1>1, <2>5 DEF MarkStale, Stop
  <2>6. CASE ParentEnds
    BY <2>6 DEF ParentEnds
  <2> QED BY <1>2, <2>1, <2>2, <2>3, <2>4, <2>5, <2>6 DEF Operation
<1>3. ASSUME \/ \E g \in Gens : Scheduler(g)
             \/ \E g \in Gens, k \in Kinds : RunnerStep(g, k) \/ NativeReturn(g, k),
             done' = done
      PROVE  EndsAreSettled'
  <2>1. UNCHANGED <<generation, parentDone, ctx>>
    BY <1>3, GoroutineFrame
  <2>2. ~HasUnsettled(status) => ~HasUnsettled(status')
    BY <1>0, <1>3, GoroutineStep DEF HasUnsettled
  <2> QED BY <1>3, <2>1, <2>2
<1>4. ASSUME NEW g \in Gens, Scheduler(g) PROVE EndsAreSettled'
  <2>1. CASE SettleCancelled(g)
    <3>1. CASE generation = g
      BY <1>1, <2>1, <3>1 DEF SettleCancelled
    <3>2. CASE generation # g
      BY <1>3, <1>4, <2>1, <3>2 DEF SettleCancelled
    <3> QED BY <3>1, <3>2
  <2>2. CASE Finish(g)
    <3>1. CASE generation = g
      <4>1. pc[g] = "finish" /\ UNCHANGED <<generation, parentDone, ctx, status>>
        BY <2>2 DEF Finish, loaderVars
      <4>2. ctx[g] \in {"live", "cancelled"}
        BY <1>0, <4>1 DEF ContextsBegin, TypeOK
      <4>3. ctx[g] = "live" => ~HasUnsettled(status)
        BY <3>1, <4>1 DEF TerminalAgrees, Live, HasUnsettled
      <4> QED BY <3>1, <4>1, <4>2, <4>3
    <3>2. CASE generation # g
      BY <1>3, <1>4, <2>2, <3>2 DEF Finish
    <3> QED BY <3>1, <3>2
  <2>3. CASE ~SettleCancelled(g) /\ ~Finish(g)
    <3>1. done' = done
      BY <1>4, <2>3 DEF Scheduler, Top, AdmitJob, RejectJob, ScanEnds, Wake, ParkCancelled, Merge, MergeFails, PublishReady,
                        PublishFailed, SchedulerExits, BlockDependent, TryAcquireSlot, ReceiveResult
    <3> QED BY <1>3, <1>4, <3>1
  <2> QED BY <2>1, <2>2, <2>3
<1>5. ASSUME NEW g \in Gens, NEW k \in Kinds, RunnerStep(g, k) \/ NativeReturn(g, k) PROVE EndsAreSettled'
  <2>1. done' = done
    BY <1>5 DEF RunnerStep, NativeReturn, RunnerStarts, RunReturns, SendResult, ReleaseSlot, RunnerFinished
  <2> QED BY <1>3, <1>5, <2>1
<1>6. CASE UNCHANGED vars
  BY <1>6 DEF vars, loaderVars
<1> QED BY <1>2, <1>4, <1>5, <1>6 DEF Next

\* A set that gains or loses one element.
LEMMA CountsMove ==
  ASSUME NEW S, IsFiniteSet(S), NEW x
  PROVE  /\ IsFiniteSet(S \union {x}) /\ IsFiniteSet(S \ {x}) /\ Cardinality(S) \in Nat
         /\ x \notin S => Cardinality(S \union {x}) = Cardinality(S) + 1 /\ S \ {x} = S
         /\ x \in S => Cardinality(S \ {x}) = Cardinality(S) - 1 /\ S \union {x} = S
<1>1. IsFiniteSet(S \union {x}) /\ (x \notin S => Cardinality(S \union {x}) = Cardinality(S) + 1)
  BY FS_AddElement
<1>2. IsFiniteSet(S \ {x}) /\ (x \in S => Cardinality(S \ {x}) = Cardinality(S) - 1)
  BY FS_RemoveElement
<1>3. Cardinality(S) \in Nat
  BY FS_CardinalityType
<1>4. (x \notin S => S \ {x} = S) /\ (x \in S => S \union {x} = S)
  OBVIOUS
<1> QED BY <1>1, <1>2, <1>3, <1>4

\* There are finitely many schedulers, and the runners that hold a permit are
\* among the runners.
LEMMA CountsAreFinite ==
  ASSUME IsFiniteSet(Runners)
  PROVE  IsFiniteSet(Schedulers) /\ IsFiniteSet(Admitting) /\ IsFiniteSet(Holding)
<1>1. IsFiniteSet(Gens)
  BY LoaderAssumption, FS_Interval DEF Gens
<1>2. Schedulers \subseteq Gens /\ Admitting \subseteq Gens /\ Holding \subseteq Runners
  BY DEF Schedulers, Admitting, Holding, Runners
<1> QED BY <1>1, <1>2, FS_Subset

\* What a move of one scheduler or of one runner does to the four sets.
LEMMA PcMove ==
  ASSUME TypeOK, NEW g \in Gens, NEW p \in PC, pc' = [pc EXCEPT ![g] = p]
  PROVE  /\ Schedulers' = IF p \in {"idle", "exited"} THEN Schedulers \ {g} ELSE Schedulers \union {g}
         /\ Admitting' = IF p = "admit" THEN Admitting \union {g} ELSE Admitting \ {g}
<1>1. pc'[g] = p /\ \A h \in Gens : h # g => pc'[h] = pc[h]
  BY DEF TypeOK
<1> QED BY <1>1 DEF Schedulers, Admitting

LEMMA RunnerMove ==
  ASSUME TypeOK, NEW g \in Gens, NEW k \in Kinds, NEW r \in RunnerPC, runner' = [runner EXCEPT ![g][k] = r]
  PROVE  /\ Runners' = IF r \in {"idle", "finished"} THEN Runners \ {<<g, k>>} ELSE Runners \union {<<g, k>>}
         /\ Holding' = IF r \in {"admitted", "running", "returned", "releasing"}
                       THEN Holding \union {<<g, k>>} ELSE Holding \ {<<g, k>>}
<1>1. runner'[g][k] = r /\ \A h \in Gens, j \in Kinds : <<h, j>> # <<g, k>> => runner'[h][j] = runner[h][j]
  BY DEF TypeOK
<1>2. \A x \in Jobs : x # <<g, k>> => runner'[x[1]][x[2]] = runner[x[1]][x[2]]
  BY <1>1 DEF Jobs
<1>3. <<g, k>> \in Jobs /\ <<g, k>>[1] = g /\ <<g, k>>[2] = k
  BY DEF Jobs
<1>4. Runners' = IF r \in {"idle", "finished"} THEN Runners \ {<<g, k>>} ELSE Runners \union {<<g, k>>}
  BY <1>1, <1>2, <1>3 DEF Runners
<1>5. Holding' = IF r \in {"admitted", "running", "returned", "releasing"}
                 THEN Holding \union {<<g, k>>} ELSE Holding \ {<<g, k>>}
  BY <1>1, <1>2, <1>3 DEF Holding
<1> QED BY <1>4, <1>5

\* The counts follow every launch, return, exit and permit.
LEMMA CountedStep ==
  ASSUME IInv, PendingHasNoRunner, Counted, TypeOK', [Next]_vars
  PROVE  Counted'
<1>0. TypeOK /\ active \in Int /\ slots \in Int
  BY DEF IInv, TypeOK
<1>1. /\ IsFiniteSet(Runners) /\ IsFiniteSet(Schedulers) /\ IsFiniteSet(Admitting) /\ IsFiniteSet(Holding)
      /\ active = Cardinality(Schedulers) + Cardinality(Runners)
      /\ slots = Cardinality(Admitting) + Cardinality(Holding)
  BY CountsAreFinite DEF Counted
<1>2. /\ Cardinality(Runners) \in Nat /\ Cardinality(Schedulers) \in Nat
      /\ Cardinality(Admitting) \in Nat /\ Cardinality(Holding) \in Nat
  BY <1>1, FS_CardinalityType
<1>3. ASSUME UNCHANGED <<pc, runner, active, slots>> PROVE Counted'
  <2>1. UNCHANGED <<Schedulers, Runners, Admitting, Holding>>
    BY <1>3 DEF Schedulers, Runners, Admitting, Holding
  <2> QED BY <1>1, <1>3, <2>1 DEF Counted
\* A scheduler that goes on, without a job it took a permit for.
<1>4. ASSUME NEW g \in Gens, NEW p \in PC \ {"idle", "exited", "admit"}, pc' = [pc EXCEPT ![g] = p],
             pc[g] \notin {"idle", "exited", "admit"}, UNCHANGED <<runner, active, slots>>
      PROVE  Counted'
  <2>1. Schedulers' = Schedulers \union {g} /\ Admitting' = Admitting \ {g}
    BY <1>0, <1>4, PcMove
  <2>2. g \in Schedulers /\ g \notin Admitting
    BY <1>4 DEF Schedulers, Admitting
  <2>3. UNCHANGED <<Schedulers, Admitting>>
    BY <2>1, <2>2
  <2>4. UNCHANGED <<Runners, Holding>>
    BY <1>4 DEF Runners, Holding
  <2> QED BY <1>1, <1>4, <2>3, <2>4 DEF Counted
<1>5. CASE Operation
  <2>1. ASSUME NEW g \in Gens, NEW p \in SUBSET Kinds, Start(g, p) PROVE Counted'
    <3>1. pc[g] = "idle"
      BY <2>1 DEF Start, IInv, BeforeStart
    <3>2. pc' = [pc EXCEPT ![g] = "top"] /\ active' = active + 1 /\ UNCHANGED <<slots, runner>>
      BY <2>1 DEF Start, runVars
    <3>3. Schedulers' = Schedulers \union {g} /\ Admitting' = Admitting \ {g}
      BY <1>0, <3>2, PcMove DEF PC
    <3>4. g \notin Schedulers /\ g \notin Admitting
      BY <3>1 DEF Schedulers, Admitting
    <3>5. Cardinality(Schedulers') = Cardinality(Schedulers) + 1 /\ Admitting' = Admitting
      BY <1>1, <3>3, <3>4, CountsMove
    <3>6. UNCHANGED <<Runners, Holding>>
      BY <3>2 DEF Runners, Holding
    <3>7. active' = Cardinality(Schedulers') + Cardinality(Runners')
      BY <1>1, <1>2, <3>2, <3>5, <3>6
    <3> QED BY <1>1, <3>2, <3>5, <3>6, <3>7 DEF Counted
  <2>2. ASSUME NEW g \in Gens, Reset(g) \/ MarkStartFailed(g) PROVE Counted'
    BY <1>3, <2>2 DEF Reset, MarkStartFailed, schedVars, runVars
  <2>3. ASSUME NEW g \in Gens, NEW p \in SUBSET Kinds, InstallSettled(g, p) PROVE Counted'
    BY <1>3, <2>3 DEF InstallSettled, schedVars, runVars
  <2>4. ASSUME MarkStale \/ Stop \/ ParentEnds PROVE Counted'
    BY <1>3, <2>4 DEF MarkStale, Stop, ParentEnds, schedVars, runVars
  <2> QED BY <1>5, <2>1, <2>2, <2>3, <2>4 DEF Operation
<1>6. ASSUME NEW g \in Gens, Scheduler(g) PROVE Counted'
  <2>1. CASE \/ Top(g) \/ ScanEnds(g) \/ Wake(g) \/ ParkCancelled(g) \/ Merge(g) \/ MergeFails(g)
             \/ PublishReady(g) \/ PublishFailed(g) \/ SettleCancelled(g) \/ Finish(g)
    <3>1. UNCHANGED <<runner, active, slots>> /\ pc[g] \notin {"idle", "exited", "admit"}
      BY <2>1 DEF Top, ScanEnds, Wake, ParkCancelled, Merge, MergeFails, PublishReady, PublishFailed, SettleCancelled, Finish, runVars
    <3>2. PICK p \in PC \ {"idle", "exited", "admit"} : pc' = [pc EXCEPT ![g] = p]
      BY <2>1 DEF Top, ScanEnds, Wake, ParkCancelled, Merge, MergeFails, PublishReady, PublishFailed, SettleCancelled, Finish, PC
    <3> QED BY <1>4, <3>1, <3>2
  <2>2. ASSUME NEW k \in Kinds, BlockDependent(g, k) PROVE Counted'
    BY <1>3, <2>2 DEF BlockDependent, runVars
  <2>3. ASSUME NEW k \in Kinds, ReceiveResult(g, k) PROVE Counted'
    <3>1. UNCHANGED <<runner, active, slots>> /\ pc[g] = "park"
      BY <2>3 DEF ReceiveResult
    <3>2. PICK p \in PC \ {"idle", "exited", "admit"} : pc' = [pc EXCEPT ![g] = p]
      BY <2>3 DEF ReceiveResult, PC
    <3> QED BY <1>4, <3>1, <3>2
  <2>4. ASSUME NEW k \in Kinds, TryAcquireSlot(g, k) PROVE Counted'
    <3>1. pc[g] = "scan" /\ pc' = [pc EXCEPT ![g] = "admit"] /\ slots' = slots + 1 /\ UNCHANGED <<active, runner>>
      BY <2>4 DEF TryAcquireSlot, runVars
    <3>2. Schedulers' = Schedulers \union {g} /\ Admitting' = Admitting \union {g}
      BY <1>0, <3>1, PcMove DEF PC
    <3>3. g \in Schedulers /\ g \notin Admitting
      BY <3>1 DEF Schedulers, Admitting
    <3>4. Schedulers' = Schedulers /\ Cardinality(Admitting') = Cardinality(Admitting) + 1
      BY <1>1, <3>2, <3>3, CountsMove
    <3>5. UNCHANGED <<Runners, Holding>>
      BY <3>1 DEF Runners, Holding
    <3>6. slots' = Cardinality(Admitting') + Cardinality(Holding')
      BY <1>1, <1>2, <3>1, <3>4, <3>5
    <3> QED BY <1>1, <3>1, <3>4, <3>5, <3>6 DEF Counted
  <2>5. CASE RejectJob(g)
    <3>1. pc[g] = "admit" /\ pc' = [pc EXCEPT ![g] = "settle"] /\ slots' = slots - 1 /\ UNCHANGED <<active, runner>>
      BY <2>5 DEF RejectJob, runVars
    <3>2. Schedulers' = Schedulers \union {g} /\ Admitting' = Admitting \ {g}
      BY <1>0, <3>1, PcMove DEF PC
    <3>3. g \in Schedulers /\ g \in Admitting
      BY <3>1 DEF Schedulers, Admitting
    <3>4. Schedulers' = Schedulers /\ Cardinality(Admitting') = Cardinality(Admitting) - 1
      BY <1>1, <3>2, <3>3, CountsMove
    <3>5. UNCHANGED <<Runners, Holding>>
      BY <3>1 DEF Runners, Holding
    <3>6. slots' = Cardinality(Admitting') + Cardinality(Holding')
      BY <1>1, <1>2, <3>1, <3>4, <3>5
    <3> QED BY <1>1, <3>1, <3>4, <3>5, <3>6 DEF Counted
  \* The permit and the job go from the scheduler to the runner.
  <2>6. CASE AdmitJob(g)
    <3>1. PICK k \in Kinds : k = hand[g]
      BY <1>0, <2>6 DEF AdmitJob, TypeOK
    <3>2. /\ pc[g] = "admit" /\ pc' = [pc EXCEPT ![g] = "scan"] /\ runner' = [runner EXCEPT ![g][k] = "admitted"]
          /\ active' = active + 1 /\ slots' = slots
      BY <2>6, <3>1 DEF AdmitJob
    <3>3. runner[g][k] = "idle"
      BY <3>1, <3>2 DEF IInv, HandInv, PendingHasNoRunner
    <3>4. Schedulers' = Schedulers \union {g} /\ Admitting' = Admitting \ {g}
      BY <1>0, <3>2, PcMove DEF PC
    <3>5. Runners' = Runners \union {<<g, k>>} /\ Holding' = Holding \union {<<g, k>>}
      BY <1>0, <3>2, RunnerMove DEF RunnerPC
    <3>6. g \in Schedulers /\ g \in Admitting /\ <<g, k>> \notin Runners /\ <<g, k>> \notin Holding
      BY <3>2, <3>3 DEF Schedulers, Admitting, Runners, Holding
    <3>7. Schedulers' = Schedulers /\ Cardinality(Admitting') = Cardinality(Admitting) - 1
      BY <1>1, <3>4, <3>6, CountsMove
    <3>8. /\ Cardinality(Runners') = Cardinality(Runners) + 1 /\ Cardinality(Holding') = Cardinality(Holding) + 1
          /\ IsFiniteSet(Runners')
      BY <1>1, <3>5, <3>6, CountsMove
    <3>9. active' = Cardinality(Schedulers') + Cardinality(Runners') /\ slots' = Cardinality(Admitting') + Cardinality(Holding')
      BY <1>1, <1>2, <3>2, <3>7, <3>8
    <3> QED BY <3>8, <3>9 DEF Counted
  <2>7. CASE SchedulerExits(g)
    <3>1. pc[g] = "exit" /\ pc' = [pc EXCEPT ![g] = "exited"] /\ active' = active - 1 /\ UNCHANGED <<slots, runner>>
      BY <2>7 DEF SchedulerExits, runVars
    <3>2. Schedulers' = Schedulers \ {g} /\ Admitting' = Admitting \ {g}
      BY <1>0, <3>1, PcMove DEF PC
    <3>3. g \in Schedulers /\ g \notin Admitting
      BY <3>1 DEF Schedulers, Admitting
    <3>4. Cardinality(Schedulers') = Cardinality(Schedulers) - 1 /\ Admitting' = Admitting
      BY <1>1, <3>2, <3>3, CountsMove
    <3>5. UNCHANGED <<Runners, Holding>>
      BY <3>1 DEF Runners, Holding
    <3>6. active' = Cardinality(Schedulers') + Cardinality(Runners')
      BY <1>1, <1>2, <3>1, <3>4, <3>5
    <3> QED BY <1>1, <3>1, <3>4, <3>5, <3>6 DEF Counted
  <2> QED BY <1>6, <2>1, <2>2, <2>3, <2>4, <2>5, <2>6, <2>7 DEF Scheduler
<1>7. ASSUME NEW g \in Gens, NEW k \in Kinds, RunnerStep(g, k) \/ NativeReturn(g, k) PROVE Counted'
  <2>1. pc' = pc
    BY <1>7 DEF RunnerStep, NativeReturn, RunnerStarts, RunReturns, SendResult, ReleaseSlot, RunnerFinished, schedVars
  <2>2. UNCHANGED <<Schedulers, Admitting>>
    BY <2>1 DEF Schedulers, Admitting
  <2>3. CASE RunnerStarts(g, k) \/ NativeReturn(g, k) \/ SendResult(g, k)
    <3>1. runner[g][k] \in {"admitted", "running", "returned"} /\ UNCHANGED <<active, slots>>
      BY <2>3 DEF RunnerStarts, NativeReturn, RunReturns, SendResult
    <3>2. PICK r \in {"running", "returned", "releasing"} : runner' = [runner EXCEPT ![g][k] = r]
      BY <2>3 DEF RunnerStarts, NativeReturn, RunReturns, SendResult
    <3>3. Runners' = Runners \union {<<g, k>>} /\ Holding' = Holding \union {<<g, k>>}
      BY <1>0, <3>2, RunnerMove DEF RunnerPC
    <3>4. <<g, k>> \in Runners /\ <<g, k>> \in Holding
      BY <3>1 DEF Runners, Holding, Jobs
    <3>5. UNCHANGED <<Runners, Holding>>
      BY <3>3, <3>4
    <3> QED BY <1>1, <2>2, <3>1, <3>5 DEF Counted
  <2>4. CASE ReleaseSlot(g, k)
    <3>1. /\ runner[g][k] = "releasing" /\ runner' = [runner EXCEPT ![g][k] = "finishing"]
          /\ slots' = slots - 1 /\ active' = active
      BY <2>4 DEF ReleaseSlot
    <3>2. Runners' = Runners \union {<<g, k>>} /\ Holding' = Holding \ {<<g, k>>}
      BY <1>0, <3>1, RunnerMove DEF RunnerPC
    <3>3. <<g, k>> \in Runners /\ <<g, k>> \in Holding
      BY <3>1 DEF Runners, Holding, Jobs
    <3>4. Runners' = Runners /\ Cardinality(Holding') = Cardinality(Holding) - 1
      BY <1>1, <3>2, <3>3, CountsMove
    <3>5. slots' = Cardinality(Admitting') + Cardinality(Holding')
      BY <1>1, <1>2, <2>2, <3>1, <3>4
    <3> QED BY <1>1, <2>2, <3>1, <3>4, <3>5 DEF Counted
  <2>5. CASE RunnerFinished(g, k)
    <3>1. /\ runner[g][k] = "finishing" /\ runner' = [runner EXCEPT ![g][k] = "finished"]
          /\ active' = active - 1 /\ slots' = slots
      BY <2>5 DEF RunnerFinished
    <3>2. Runners' = Runners \ {<<g, k>>} /\ Holding' = Holding \ {<<g, k>>}
      BY <1>0, <3>1, RunnerMove DEF RunnerPC
    <3>3. <<g, k>> \in Runners /\ <<g, k>> \notin Holding
      BY <3>1 DEF Runners, Holding, Jobs
    <3>4. Cardinality(Runners') = Cardinality(Runners) - 1 /\ IsFiniteSet(Runners') /\ Holding' = Holding
      BY <1>1, <3>2, <3>3, CountsMove
    <3>5. active' = Cardinality(Schedulers') + Cardinality(Runners')
      BY <1>1, <1>2, <2>2, <3>1, <3>4
    <3> QED BY <1>1, <2>2, <3>1, <3>4, <3>5 DEF Counted
  <2> QED BY <1>7, <2>3, <2>4, <2>5 DEF RunnerStep
<1>8. CASE UNCHANGED vars
  BY <1>3, <1>8 DEF vars, schedVars, runVars
<1> QED BY <1>5, <1>6, <1>7, <1>8 DEF Next

\* What waiters are told rests on in every reachable state.
LEMMA ToldInvariance == Spec => []ToldInv
<1>1. ToldInv /\ IInv' /\ [Next]_vars => ToldInv'
  <2> SUFFICES ASSUME ToldInv, IInv', [Next]_vars PROVE ToldInv'
    OBVIOUS
  <2>1. TypeOK'
    BY DEF IInv
  <2>2. IInv /\ PlanIsLocal /\ TerminalAgrees /\ ContextsBegin /\ EndsAreSettled /\ PendingHasNoRunner /\ Counted
    BY DEF ToldInv
  <2> QED BY <2>1, <2>2, PlanStep, TerminalStep, ContextStep, EndsStep, CountedStep DEF ToldInv
<1> QED BY <1>1, InitTold, Inductive, PTL DEF Spec

\* Load.Done closes on a settled generation, and when Loader.Wait returns there
\* is no native call, no permit and no scheduler left.
THEOREM WaitersHearTheTruth == Spec => []WaitersAreToldTheTruth
<1>1. ToldInv => WaitersAreToldTheTruth
  <2> SUFFICES ASSUME ToldInv PROVE WaitersAreToldTheTruth
    OBVIOUS
  <2>1. generation # 0 /\ done[generation] = "closed" /\ ~parentDone => ~HasUnsettled(status)
    BY DEF ToldInv, EndsAreSettled
  <2>2. ASSUME active = 0
        PROVE  /\ slots = 0
               /\ \A g \in Gens : pc[g] \in {"idle", "exited"}
               /\ \A g \in Gens, k \in Kinds : runner[g][k] \in {"idle", "finished"}
    <3>1. IsFiniteSet(Runners) /\ IsFiniteSet(Schedulers)
      BY CountsAreFinite DEF ToldInv, Counted
    <3>2. Cardinality(Runners) \in Nat /\ Cardinality(Schedulers) \in Nat
      BY <3>1, FS_CardinalityType
    <3>3. Cardinality(Runners) = 0 /\ Cardinality(Schedulers) = 0
      BY <2>2, <3>2 DEF ToldInv, Counted
    <3>4. Runners = {} /\ Schedulers = {}
      BY <3>1, <3>3, FS_EmptySet
    <3>5. Holding = {} /\ Admitting = {}
      BY <3>4 DEF Holding, Runners, Admitting, Schedulers
    <3>6. slots = 0
      BY <3>5, FS_EmptySet DEF ToldInv, Counted
    <3>7. ASSUME NEW g \in Gens, NEW k \in Kinds PROVE runner[g][k] \in {"idle", "finished"}
      <4>1. <<g, k>> \in Jobs /\ <<g, k>>[1] = g /\ <<g, k>>[2] = k
        BY DEF Jobs
      <4> QED BY <3>4, <4>1 DEF Runners
    <3> QED BY <3>4, <3>6, <3>7 DEF Schedulers
  <2> QED BY <2>1, <2>2 DEF WaitersAreToldTheTruth
<1> QED BY <1>1, ToldInvariance, PTL

-----------------------------------------------------------------------------
(* What a detail is of.                                                    *)

\* What a request finds, and whether it is one object.
Found(cat, q) == Matches(Candidates(cat, q), q.object.name)
IsGeneration(cat) == DOMAIN cat = DOMAIN start.objects

LEMMA CandidatesDiffer ==
  ASSUME IsCatalog(start), NEW cat, IsGeneration(cat), NEW q
  PROVE  /\ Candidates(cat, q) \subseteq DOMAIN cat /\ IsFiniteSet(Candidates(cat, q))
         /\ \A o, p \in Candidates(cat, q) : o.name = p.name => o = p
<1>1. \A kind : OfKind(cat, kind) \subseteq DOMAIN cat /\ \A o \in OfKind(cat, kind) : o.kind = kind
  BY DEF OfKind, There
<1>2. IsFiniteSet(DOMAIN cat)
  BY DEF IsCatalog, IsGeneration
<1>3. \A o, p \in DOMAIN cat : SameNames(o, p) => o = p
  BY DEF IsCatalog, IsGeneration
<1>4. \A o \in DOMAIN cat : engine = "interbase" => o.schema = Unqualified
  BY DEF IsCatalog, IsGeneration, engine
<1>5. CASE engine = "interbase"
  <2>1. \/ \E kind : Candidates(cat, q) = OfKind(cat, kind)
        \/ Candidates(cat, q) = OfKind(cat, "table") \cup OfKind(cat, "view")
    BY <1>5 DEF Candidates, InterBaseCandidates
  <2>2. Candidates(cat, q) \subseteq DOMAIN cat
    BY <1>1, <2>1
  <2>3. \A o, p \in Candidates(cat, q) : o.kind = p.kind \/ {o.kind, p.kind} \subseteq {"table", "view", "system"}
    BY <1>1, <2>1
  <2>4. \A o, p \in Candidates(cat, q) : o.name = p.name => o = p
    BY <1>3, <1>4, <1>5, <2>2, <2>3 DEF SameNames
  <2> QED BY <1>2, <2>2, <2>4, FS_Subset
<1>6. CASE engine # "interbase"
  <2>1. \E schema : Candidates(cat, q) = {o \in OfKind(cat, q.object.kind) : o.schema = schema}
    BY <1>6 DEF Candidates, MySQLCandidates, DuckDBCandidates
  <2>2. Candidates(cat, q) \subseteq DOMAIN cat
    BY <1>1, <2>1
  <2>3. \A o, p \in Candidates(cat, q) : o.kind = p.kind /\ o.schema = p.schema
    BY <1>1, <2>1
  <2>4. \A o, p \in Candidates(cat, q) : o.name = p.name => o = p
    BY <1>3, <2>2, <2>3 DEF SameNames
  <2> QED BY <1>2, <2>2, <2>4, FS_Subset
<1> QED BY <1>5, <1>6

\* A set that is neither empty nor larger than one.
LEMMA OneOf ==
  ASSUME NEW S, IsFiniteSet(S), S # {}, ~(Cardinality(S) > 1)
  PROVE  S = {CHOOSE o \in S : TRUE} /\ Cardinality(S) = 1
<1> DEFINE o == CHOOSE x \in S : TRUE
<1>1. o \in S
  OBVIOUS
<1> HIDE DEF o
<1>2. Cardinality(S) \in Nat /\ Cardinality(S) # 0
  BY FS_CardinalityType, FS_EmptySet
<1>3. Cardinality(S) = 1
  BY <1>2
<1>4. \E x : S = {x}
  BY <1>3, FS_Singleton
<1> QED BY <1>1, <1>3, <1>4 DEF o

\* What is found is what the request denotes.
LEMMA FoundIsDenoted ==
  ASSUME IsCatalog(start), NEW cat, IsGeneration(cat), NEW q
  PROVE  /\ Found(cat, q) = {} => Denoted(cat, q) = {}
         /\ Cardinality(Found(cat, q)) > 1 => Denoted(cat, q) = {}
         /\ Found(cat, q) # {} /\ ~(Cardinality(Found(cat, q)) > 1) =>
              LET o == CHOOSE x \in Found(cat, q) : TRUE IN
                /\ Found(cat, q) = {o} /\ Denoted(cat, q) = {o} /\ o \in Candidates(cat, q)
                /\ Folded[o.name] = Folded[q.object.name]
<1> DEFINE all == Candidates(cat, q)
           alike == {o \in all : Folded[o.name] = Folded[q.object.name]}
           exact == {o \in all : o.name = q.object.name}
<1>1. /\ IsFiniteSet(all) /\ \A o, p \in all : o.name = p.name => o = p
  BY CandidatesDiffer
<1>2. exact = {o \in alike : o.name = q.object.name}
  OBVIOUS
<1>3. Found(cat, q) = IF exact # {} THEN exact ELSE alike
  BY DEF Found, Matches
<1>4. Denoted(cat, q) = IF exact # {} THEN exact ELSE {o \in alike : Cardinality(alike) = 1}
  BY <1>2 DEF Denoted
<1>5. IsFiniteSet(alike) /\ IsFiniteSet(exact)
  BY <1>1, FS_Subset
<1>6. exact # {} => \E o : exact = {o}
  BY <1>1
<1>7. exact # {} => Cardinality(exact) = 1
  BY <1>6, FS_Singleton
<1>8. alike \subseteq all /\ exact \subseteq alike /\ \A o \in alike : Folded[o.name] = Folded[q.object.name]
  BY <1>2
<1> HIDE DEF all, alike, exact
<1>9. Found(cat, q) = {} => Denoted(cat, q) = {}
  BY <1>3, <1>4
<1>10. ASSUME Cardinality(Found(cat, q)) > 1 PROVE Denoted(cat, q) = {}
  <2>1. exact = {}
    BY <1>3, <1>7, <1>10
  <2>2. Cardinality(alike) # 1
    BY <1>3, <1>10, <2>1
  <2> QED BY <1>4, <2>1, <2>2
<1>11. ASSUME Found(cat, q) # {}, ~(Cardinality(Found(cat, q)) > 1)
       PROVE  LET o == CHOOSE x \in Found(cat, q) : TRUE IN
                /\ Found(cat, q) = {o} /\ Denoted(cat, q) = {o} /\ o \in Candidates(cat, q)
                /\ Folded[o.name] = Folded[q.object.name]
  <2> DEFINE o == CHOOSE x \in Found(cat, q) : TRUE
  <2>1. IsFiniteSet(Found(cat, q))
    BY <1>3, <1>5
  <2>2. Found(cat, q) = {o} /\ Cardinality(Found(cat, q)) = 1
    BY <1>11, <2>1, OneOf
  <2> HIDE DEF o
  <2>3. Denoted(cat, q) = {o}
    BY <1>3, <1>4, <2>2
  <2>4. o \in alike
    BY <1>3, <1>8, <2>2
  <2>5. o \in Candidates(cat, q) /\ Folded[o.name] = Folded[q.object.name]
    BY <1>8, <2>4 DEF all
  <2> QED BY <2>2, <2>3, <2>5 DEF o
<1> QED BY <1>9, <1>10, <1>11

\* A plan is one plan, and what it is depends on the request only so far.
ServedSystem(q) == q.object.kind = "table" /\ q.system

Facts == Plan("facts", FALSE, FALSE)
LiveText == Plan("live", FALSE, FALSE)
Shared == Plan("exists", FALSE, TRUE)
SharedCanonically == Plan("exists", TRUE, TRUE)
OfSystem == [Plan("live", TRUE, FALSE) EXCEPT !.marker = {"system"}]
OfTable == [Plan("live", TRUE, FALSE) EXCEPT !.marker = {"sourceDialect"}]
OfGenerator == [Plan("live", TRUE, TRUE) EXCEPT !.volatile = TRUE]

LEMMA PlanFields ==
  /\ Facts.load = "facts" /\ ~Facts.canonical /\ ~Facts.render /\ ~Facts.volatile /\ Facts.marker = {}
  /\ LiveText.load = "live" /\ ~LiveText.canonical /\ ~LiveText.render /\ ~LiveText.volatile /\ LiveText.marker = {}
  /\ Shared.load = "exists" /\ ~Shared.canonical /\ Shared.render /\ ~Shared.volatile /\ Shared.marker = {}
  /\ SharedCanonically.load = "exists" /\ SharedCanonically.canonical /\ SharedCanonically.render
  /\ ~SharedCanonically.volatile /\ SharedCanonically.marker = {}
  /\ OfSystem.load = "live" /\ OfSystem.canonical /\ ~OfSystem.render /\ ~OfSystem.volatile /\ OfSystem.marker = {"system"}
  /\ OfTable.load = "live" /\ OfTable.canonical /\ ~OfTable.render /\ ~OfTable.volatile /\ OfTable.marker = {"sourceDialect"}
  /\ OfGenerator.load = "live" /\ OfGenerator.canonical /\ OfGenerator.render /\ OfGenerator.volatile /\ OfGenerator.marker = {}
BY DEF Plan, Facts, LiveText, Shared, SharedCanonically, OfSystem, OfTable, OfGenerator

LEMMA InterBasePlans ==
  ASSUME NEW q, engine = "interbase", DetailPlan(q) # {}
  PROVE  LET p == PlanOf(q) IN
         \/ p = Facts /\ q.facet = "columns" /\ ~ServedSystem(q)
         \/ p = Facts /\ q.facet = "source" /\ q.object.kind \in {"procedure", "view", "trigger"}
         \/ p = OfSystem /\ q.facet = "columns" /\ ServedSystem(q)
         \/ p = Shared /\ q.facet = "description" /\ q.object.kind \in {"table", "view"} /\ ~ServedSystem(q)
         \/ p = Shared /\ q.facet = "ddl" /\ q.object.kind \in {"procedure", "domain", "trigger", "index", "view"}
         \/ p = SharedCanonically /\ q.facet = "ddl" /\ q.object.kind \in {"exception", "function"}
         \/ p = OfGenerator /\ q.facet = "ddl" /\ q.object.kind = "generator"
         \/ p = OfTable /\ q.facet = "ddl" /\ q.object.kind = "table" /\ ~ServedSystem(q)
<1>1. \A x : The({x}) = x
  BY DEF The
<1>2. DetailPlan(q) = InterBasePlan(q)
  BY DEF DetailPlan
<1>3. CASE q.facet = "columns"
  BY <1>1, <1>2, <1>3 DEF PlanOf, InterBasePlan, InterBaseColumns, ServedSystem, Facts, OfSystem
<1>4. CASE q.facet = "description"
  BY <1>1, <1>2, <1>4 DEF PlanOf, InterBasePlan, InterBaseDescription, ServedSystem, Shared
<1>5. CASE q.facet = "source"
  BY <1>1, <1>2, <1>5 DEF PlanOf, InterBasePlan, InterBaseSource, Facts
<1>6. CASE q.facet = "ddl"
  BY <1>1, <1>2, <1>6 DEF PlanOf, InterBasePlan, InterBaseDDL, ServedSystem, Shared, SharedCanonically, OfGenerator, OfTable
<1>7. CASE q.facet \notin {"columns", "description", "source", "ddl"}
  BY <1>2, <1>7 DEF InterBasePlan
<1> QED BY <1>3, <1>4, <1>5, <1>6, <1>7

LEMMA OtherPlans ==
  ASSUME NEW q, engine # "interbase", DetailPlan(q) # {}
  PROVE  \/ engine = "mysql" /\ PlanOf(q) = IF q.facet = "ddl" THEN LiveText ELSE Facts
         \/ engine # "mysql" /\ PlanOf(q) = LiveText
<1>1. \A x : The({x}) = x
  BY DEF The
<1> QED BY <1>1 DEF DetailPlan, PlanOf, MySQLPlan, DuckDBPlan, Facts, LiveText

\* Requests of the same kind, facet and marker have the same plan and look for their
\* object in the same places.
LEMMA SamePlan ==
  ASSUME NEW q1, NEW q2, DetailPlan(q1) # {}, DetailPlan(q2) # {},
         q1.object.kind = q2.object.kind, q1.facet = q2.facet, PlanOf(q1).marker = PlanOf(q2).marker
  PROVE  PlanOf(q1) = PlanOf(q2) /\ (engine = "interbase" => \A cat : Candidates(cat, q1) = Candidates(cat, q2))
<1>1. CASE engine # "interbase"
  <2>1. \A q \in {q1, q2} : \/ engine = "mysql" /\ PlanOf(q) = IF q.facet = "ddl" THEN LiveText ELSE Facts
                            \/ engine # "mysql" /\ PlanOf(q) = LiveText
    BY <1>1, OtherPlans
  <2> QED BY <1>1, <2>1
<1>2. CASE engine = "interbase"
  <2>1. {"system"} # {} /\ {"system"} # {"sourceDialect"} /\ {"sourceDialect"} # {}
    OBVIOUS
  <2>2. PlanOf(q1) = PlanOf(q2)
    <3>1. CASE q1.facet = "columns"
      <4>1. PlanOf(q1) \in {Facts, OfSystem} /\ PlanOf(q2) \in {Facts, OfSystem}
        BY <1>2, <3>1, InterBasePlans
      <4>2. Facts.marker # OfSystem.marker
        BY <2>1, PlanFields
      <4> QED BY <4>1, <4>2
    <3>2. CASE q1.facet = "source"
      BY <1>2, <3>2, InterBasePlans
    <3>3. CASE q1.facet = "description"
      BY <1>2, <3>3, InterBasePlans
    <3>4. CASE q1.facet = "ddl"
      BY <1>2, <3>4, InterBasePlans
    <3> QED BY <1>2, <3>1, <3>2, <3>3, <3>4, InterBasePlans
  <2>3. q1.object.kind = "table" => (ServedSystem(q1) <=> ServedSystem(q2))
    <3>1. Facts # OfSystem
      BY <2>1, PlanFields
    <3> QED BY <1>2, <2>2, <3>1, InterBasePlans
  <2>4. ServedSystem(q1) <=> ServedSystem(q2)
    BY <2>3 DEF ServedSystem
  <2>5. \A cat : Candidates(cat, q1) = Candidates(cat, q2)
    BY <1>2, <2>4 DEF Candidates, InterBaseCandidates, ServedSystem
  <2> QED BY <2>2, <2>5
<1> QED BY <1>1, <1>2

\* What a request means in a generation.
Meaning(cat, q) ==
  [engine |-> engine, denoted |-> Denoted(cat, q), fold |-> Folded[q.object.name], kind |-> q.object.kind,
   facet |-> q.facet, plan |-> PlanOf(q)]

\* A coverage stands for a request that the generation names.
Covers(cat, q, c) ==
  /\ DetailPlan(q) # {}
  /\ CoverageIn(cat, q, PlanOf(q)).out = "detail"
  /\ \E o \in CoverageIn(cat, q, PlanOf(q)).object : c = Coverage(o, q, PlanOf(q))

IsDetail(got) == got = [out |-> got.out, object |-> got.object, text |-> got.text]

LEMMA DetailFields ==
  /\ \A o, t : IsDetail(Detail(o, t)) /\ Detail(o, t).out = "detail" /\ Detail(o, t).object = {o} /\ Detail(o, t).text = t
  /\ \A out : IsDetail(Error(out)) /\ Error(out).out = out /\ Error(out).object = {} /\ Error(out).text = {}
BY DEF Detail, Error, IsDetail

LEMMA CanonicalFields ==
  \A o, q : Canonical(o, q).name = o.name /\ Canonical(o, q).kind = q.object.kind
BY DEF Canonical

\* What CoverageIn answers.
LEMMA CoverageNames ==
  ASSUME IsCatalog(start), NEW cat, IsGeneration(cat), NEW q
  PROVE  LET r == CoverageIn(cat, q, PlanOf(q)) IN
         \/ ~PlanOf(q).canonical /\ r = Detail(q.object, {})
         \/ r = Error("unsupported")
         \/ r = Error("missing") /\ Denoted(cat, q) = {}
         \/ r = Error("ambiguous") /\ Denoted(cat, q) = {}
         \/ /\ PlanOf(q).canonical
            /\ \E o \in Candidates(cat, q) : /\ Denoted(cat, q) = {o} /\ Folded[o.name] = Folded[q.object.name]
                                             /\ r = Detail(Canonical(o, q), {})
<1> DEFINE r == CoverageIn(cat, q, PlanOf(q))
           o == CHOOSE x \in Found(cat, q) : TRUE
<1>1. CASE ~PlanOf(q).canonical
  BY <1>1 DEF CoverageIn
<1>2. CASE PlanOf(q).canonical
  <2>1. r = IF ~SchemaServed(cat, q) THEN Error("unsupported")
            ELSE IF Found(cat, q) = {} THEN Error("missing")
            ELSE IF Cardinality(Found(cat, q)) > 1 THEN Error("ambiguous")
            ELSE Detail(Canonical(o, q), {})
    BY <1>2 DEF CoverageIn, Resolve, Found
  <2> HIDE DEF r
  <2>2. CASE ~SchemaServed(cat, q) \/ Found(cat, q) = {} \/ Cardinality(Found(cat, q)) > 1
    BY <2>1, <2>2, FoundIsDenoted DEF r
  <2>3. CASE ~(~SchemaServed(cat, q) \/ Found(cat, q) = {} \/ Cardinality(Found(cat, q)) > 1)
    <3>1. Denoted(cat, q) = {o} /\ o \in Candidates(cat, q) /\ Folded[o.name] = Folded[q.object.name]
      BY <2>3, FoundIsDenoted
    <3>2. r = Detail(Canonical(o, q), {})
      BY <2>1, <2>3
    <3> HIDE DEF o
    <3> QED BY <1>2, <3>1, <3>2 DEF r
  <2> QED BY <2>2, <2>3
<1> QED BY <1>1, <1>2

\* Two requests under one coverage mean the same.
LEMMA SharedMeaning ==
  ASSUME IsCatalog(start), NEW cat, IsGeneration(cat), NEW q1, NEW q2, NEW c, Covers(cat, q1, c), Covers(cat, q2, c)
  PROVE  Meaning(cat, q1) = Meaning(cat, q2)
<1> DEFINE object(q) == IF PlanOf(q).canonical THEN {Canonical(o, q) : o \in Denoted(cat, q)} ELSE {q.object}
<1>1. \A q : Covers(cat, q, c) =>
         /\ \E x \in object(q) : c = <<x, q.facet, PlanOf(q).marker>>
         /\ PlanOf(q).canonical => \E o \in Candidates(cat, q) : Denoted(cat, q) = {o} /\ Folded[o.name] = Folded[q.object.name]
  <2> SUFFICES ASSUME NEW q, Covers(cat, q, c)
               PROVE  /\ \E x \in object(q) : c = <<x, q.facet, PlanOf(q).marker>>
                      /\ PlanOf(q).canonical => \E o \in Candidates(cat, q) : Denoted(cat, q) = {o} /\ Folded[o.name] = Folded[q.object.name]
    OBVIOUS
  <2> DEFINE r == CoverageIn(cat, q, PlanOf(q))
  <2>1. r.out = "detail" /\ \E o \in r.object : c = <<o, q.facet, PlanOf(q).marker>>
    BY DEF Covers, Coverage
  <2>2. r.out = "detail" =>
          \/ ~PlanOf(q).canonical /\ r = Detail(q.object, {})
          \/ /\ PlanOf(q).canonical
             /\ \E o \in Candidates(cat, q) : /\ Denoted(cat, q) = {o} /\ Folded[o.name] = Folded[q.object.name]
                                              /\ r = Detail(Canonical(o, q), {})
    BY CoverageNames, DetailFields
  <2> HIDE DEF r
  <2> QED BY <2>1, <2>2, DetailFields
<1>2. PICK x \in object(q1) : c = <<x, q1.facet, PlanOf(q1).marker>>
  BY <1>1
<1>3. x \in object(q2) /\ c = <<x, q2.facet, PlanOf(q2).marker>>
  <2>1. PICK y \in object(q2) : c = <<y, q2.facet, PlanOf(q2).marker>>
    BY <1>1
  <2> HIDE DEF object
  <2> QED BY <1>2, <2>1
<1>4. q1.facet = q2.facet /\ PlanOf(q1).marker = PlanOf(q2).marker
  <2> HIDE DEF object
  <2> QED BY <1>2, <1>3
<1>5. \A q : \A y \in object(q) : y.kind = q.object.kind
  BY CanonicalFields
<1>6. q1.object.kind = q2.object.kind
  <2> HIDE DEF object
  <2> QED BY <1>2, <1>3, <1>5
<1>7. PlanOf(q1) = PlanOf(q2) /\ (engine = "interbase" => Candidates(cat, q1) = Candidates(cat, q2))
  <2>1. DetailPlan(q1) # {} /\ DetailPlan(q2) # {}
    BY DEF Covers
  <2> QED BY <1>4, <1>6, <2>1, SamePlan
<1>8. PlanOf(q1).canonical => engine = "interbase"
  <2>1. DetailPlan(q1) # {}
    BY DEF Covers
  <2> QED BY <2>1, OtherPlans, PlanFields
<1>9. Denoted(cat, q1) = Denoted(cat, q2) /\ Folded[q1.object.name] = Folded[q2.object.name]
  <2>1. CASE ~PlanOf(q1).canonical
    <3>1. q1.object = q2.object
      BY <1>2, <1>3, <1>7, <2>1
    <3>2. Candidates(cat, q1) = Candidates(cat, q2)
      <4>1. CASE engine = "interbase"
        BY <1>7, <4>1
      <4>2. CASE engine # "interbase"
        BY <3>1, <4>2 DEF Candidates, MySQLCandidates, DuckDBCandidates
      <4> QED BY <4>1, <4>2
    <3> QED BY <3>1, <3>2 DEF Denoted
  <2>2. CASE PlanOf(q1).canonical
    <3>1. PICK o1 \in Candidates(cat, q1) : Denoted(cat, q1) = {o1} /\ Folded[o1.name] = Folded[q1.object.name]
      BY <1>1, <2>2
    <3>2. PICK o2 \in Candidates(cat, q2) : Denoted(cat, q2) = {o2} /\ Folded[o2.name] = Folded[q2.object.name]
      BY <1>1, <1>7, <2>2
    <3>3. x = Canonical(o1, q1) /\ x = Canonical(o2, q2)
      BY <1>2, <1>3, <1>7, <2>2, <3>1, <3>2
    <3>4. o1.name = o2.name
      BY <3>3, CanonicalFields
    <3>5. o1 = o2
      BY <1>7, <1>8, <2>2, <3>1, <3>2, <3>4, CandidatesDiffer
    <3> QED BY <3>1, <3>2, <3>5
  <2> QED BY <2>1, <2>2
<1> QED BY <1>4, <1>6, <1>7, <1>9 DEF Meaning

\* A line of text, and what it says.
Line(o, facet, dialect, version, val) ==
  [of |-> o, facet |-> facet, dialect |-> dialect, version |-> version, value |-> val]

LEMMA LineFields ==
  \A o, f, d, v, x : /\ Line(o, f, d, v, x).of = o /\ Line(o, f, d, v, x).facet = f /\ Line(o, f, d, v, x).dialect = d
                     /\ Line(o, f, d, v, x).version = v /\ Line(o, f, d, v, x).value = x
BY DEF Line

\* The texts of a generator say its value.
Drew(texts, val) == {[t EXCEPT !.value = val] : t \in texts}

LEMMA Texts ==
  /\ \A o, facet, dialect, cat : Text(o, facet, dialect, cat) = {Line(o, facet, dialect, cat[o].version, 0)}
  /\ \A o, facet, dialect, cat, val :
       Drew(Text(o, facet, dialect, cat), val) = {Line(o, facet, dialect, cat[o].version, val)}
<1>1. \A o, facet, dialect, cat : Text(o, facet, dialect, cat) = {Line(o, facet, dialect, cat[o].version, 0)}
  BY DEF Text, Line
<1>2. \A o, facet, dialect, version, val :
        [Line(o, facet, dialect, version, 0) EXCEPT !.value = val] = Line(o, facet, dialect, version, val)
  BY DEF Line
<1>3. ASSUME NEW o, NEW facet, NEW dialect, NEW cat, NEW val
      PROVE  Drew(Text(o, facet, dialect, cat), val) = {Line(o, facet, dialect, cat[o].version, val)}
  BY <1>1, <1>2 DEF Drew
<1> QED BY <1>1, <1>3

\* What a detail must be, given the meaning m of its request in generation cat, the
\* database dat, and the values a generator had while the detail was being read.
TextRight(cat, dat, since, val, m, dialects, t) ==
  /\ {t.of} = m.denoted /\ t.facet = m.facet /\ t.dialect \in dialects
  /\ IF m.plan.load = "live" /\ ~m.plan.render THEN t.version \in cat[t.of].version..dat[t.of].version
     ELSE t.version = cat[t.of].version
  /\ t.of.kind = "generator" /\ m.engine = "interbase" => t.value \in since..val
ObjectRight(m, o) ==
  /\ Folded[o.name] = m.fold /\ o.kind = m.kind
  /\ m.plan.canonical => \A d \in m.denoted : d.name = o.name
RefusedRight(m, got) ==
  /\ got.out = "missing" /\ m.plan.load # "live" => m.denoted = {}
  /\ got.out = "ambiguous" => m.denoted = {}

\* The dialect of what is not rendered for each request.
Unrendered(m) == IF m.engine = "interbase" /\ m.facet = "ddl" /\ m.kind = "table" THEN {SourceDialect} ELSE {0}

AcquiredRight(cat, dat, since, val, m, got) ==
  /\ IsDetail(got) /\ RefusedRight(m, got)
  /\ got.out = "detail" =>
       /\ \E o : got.object = {o} /\ ObjectRight(m, o)
       /\ IF m.plan.render
          THEN m.kind = "generator" /\ m.engine = "interbase" => \E t : got.text = {t} /\ t.value \in since..val
          ELSE \E t : got.text = {t} /\ TextRight(cat, dat, since, val, m, Unrendered(m), t)
AnsweredRight(cat, dat, since, val, m, dialects, got) ==
  /\ RefusedRight(m, got)
  /\ got.out = "detail" => /\ \E o : got.object = {o} /\ ObjectRight(m, o)
                           /\ \E t : got.text = {t} /\ TextRight(cat, dat, since, val, m, dialects, t)

VersionsGrow(cat, dat) ==
  /\ DOMAIN dat = DOMAIN cat
  /\ \A o \in DOMAIN cat : cat[o].version \in Nat /\ dat[o].version \in Nat /\ cat[o].version <= dat[o].version

LEMMA MeaningFields ==
  \A cat, q : LET m == Meaning(cat, q) IN
    /\ m.engine = engine /\ m.denoted = Denoted(cat, q) /\ m.fold = Folded[q.object.name] /\ m.kind = q.object.kind
    /\ m.facet = q.facet /\ m.plan = PlanOf(q)
BY DEF Meaning

LEMMA CandidateKinds ==
  ASSUME NEW cat, NEW q, NEW o \in Candidates(cat, q)
  PROVE  /\ engine # "interbase" => o.kind = q.object.kind
         /\ engine = "interbase" => \/ ServedSystem(q) /\ o.kind = "system"
                                    \/ ~ServedSystem(q) /\ (q.object.kind = "table" \/ q.facet = "columns") /\ o.kind \in {"table", "view"}
                                    \/ q.object.kind # "table" /\ q.facet # "columns" /\ o.kind = q.object.kind
BY DEF Candidates, InterBaseCandidates, MySQLCandidates, DuckDBCandidates, OfKind, ServedSystem

\* An error is right when nothing is denoted, or the database was read.
LEMMA ErrorRight ==
  ASSUME NEW cat, NEW dat, NEW since, NEW val, NEW m, NEW ds, NEW out, out # "detail",
         out \notin {"missing", "ambiguous"} \/ m.denoted = {} \/ (out = "missing" /\ m.plan.load = "live")
  PROVE  AcquiredRight(cat, dat, since, val, m, Error(out)) /\ AnsweredRight(cat, dat, since, val, m, ds, Error(out))
BY DetailFields DEF AcquiredRight, AnsweredRight, RefusedRight

\* A load returns what the plan says of the object that is denoted.
LEMMA LoadRight ==
  ASSUME IsCatalog(start), NEW cat, IsGeneration(cat), VersionsGrow(cat, db), NEW q, DetailPlan(q) # {},
         NEW since \in Nat, value \in Nat, since <= value
  PROVE  AcquiredRight(cat, db, since, value, Meaning(cat, q), Load(cat, q, PlanOf(q)))
<1> DEFINE m == Meaning(cat, q)
           p == PlanOf(q)
           o == CHOOSE x \in Found(cat, q) : TRUE
           r == CASE p.load = "exists" -> Detail(AnswersTo(o, q, p), {})
                  [] p.load = "facts" -> Detail(AnswersTo(o, q, p), Text(o, q.facet, 0, cat))
                  [] OTHER -> FromDatabase(o, q, p)
<1>1. Load(cat, q, p) = IF ~SchemaServed(cat, q) THEN Error("unsupported")
                        ELSE IF Found(cat, q) = {} THEN Error("missing")
                        ELSE IF Cardinality(Found(cat, q)) > 1 THEN Error("ambiguous")
                        ELSE r
  BY DEF Load, Resolve, Found
<1>2. /\ m.engine = engine /\ m.denoted = Denoted(cat, q) /\ m.fold = Folded[q.object.name] /\ m.kind = q.object.kind
      /\ m.facet = q.facet /\ m.plan = p
  BY MeaningFields
<1> SUFFICES AcquiredRight(cat, db, since, value, m, Load(cat, q, p))
  OBVIOUS
<1> HIDE DEF m, r
<1>3. CASE ~SchemaServed(cat, q) \/ Found(cat, q) = {} \/ Cardinality(Found(cat, q)) > 1
  <2>1. \E out \in {"unsupported", "missing", "ambiguous"} : Load(cat, q, p) = Error(out) /\ (out # "unsupported" => m.denoted = {})
    BY <1>1, <1>2, <1>3, FoundIsDenoted
  <2> QED BY <2>1, ErrorRight
<1>4. CASE ~(~SchemaServed(cat, q) \/ Found(cat, q) = {} \/ Cardinality(Found(cat, q)) > 1)
  <2>1. m.denoted = {o} /\ o \in Candidates(cat, q) /\ Folded[o.name] = Folded[q.object.name]
    BY <1>2, <1>4, FoundIsDenoted
  <2>2. Load(cat, q, p) = r
    BY <1>1, <1>4
  <2> HIDE DEF o
  <2>3. o \in DOMAIN cat /\ cat[o].version \in Nat /\ db[o].version \in Nat /\ cat[o].version <= db[o].version
    BY <2>1, CandidatesDiffer DEF VersionsGrow
  <2>4. ObjectRight(m, AnswersTo(o, q, p))
    <3>1. CASE engine = "interbase"
      <4>1. AnswersTo(o, q, p) = IF p.canonical THEN Canonical(o, q) ELSE q.object
        BY <3>1 DEF AnswersTo
      <4> QED BY <1>2, <2>1, <4>1, CanonicalFields DEF ObjectRight
    <3>2. CASE engine # "interbase"
      <4>1. AnswersTo(o, q, p) = [schema |-> o.schema, kind |-> o.kind, name |-> o.name]
        BY <3>2 DEF AnswersTo
      <4>2. AnswersTo(o, q, p).kind = o.kind /\ AnswersTo(o, q, p).name = o.name
        BY <4>1
      <4>3. o.kind = q.object.kind
        BY <2>1, <3>2, CandidateKinds
      <4>4. ~p.canonical
        BY <3>2, OtherPlans, PlanFields
      <4> QED BY <1>2, <2>1, <4>2, <4>3, <4>4 DEF ObjectRight
    <3> QED BY <3>1, <3>2
  \* A text that is not rendered.
  <2>5. ASSUME NEW version, NEW dialect, ~p.render, {dialect} = Unrendered(m),
               version = cat[o].version \/ (p.load = "live" /\ version = db[o].version)
        PROVE  AcquiredRight(cat, db, since, value, m, Detail(AnswersTo(o, q, p), {Line(o, q.facet, dialect, version, 0)}))
    <3> DEFINE t == Line(o, q.facet, dialect, version, 0)
               d == Detail(AnswersTo(o, q, p), {t})
    <3>1. t.of = o /\ t.facet = q.facet /\ t.dialect = dialect /\ t.version = version
      BY LineFields
    <3>2. IsDetail(d) /\ d.out = "detail" /\ d.object = {AnswersTo(o, q, p)} /\ d.text = {t}
      BY DetailFields
    <3> HIDE DEF t, d
    <3>3. ~(o.kind = "generator" /\ engine = "interbase")
      <4> SUFFICES ASSUME engine = "interbase" PROVE o.kind # "generator"
        OBVIOUS
      <4> QED BY <2>1, <2>5, CandidateKinds, InterBasePlans, PlanFields
    <3>4. t.version \in cat[o].version..db[o].version /\ (p.load # "live" => t.version = cat[o].version)
      BY <2>3, <2>5, <3>1
    <3>5. TextRight(cat, db, since, value, m, Unrendered(m), t)
      BY <1>2, <2>1, <2>5, <3>1, <3>3, <3>4 DEF TextRight
    <3>6. RefusedRight(m, d)
      BY <3>2 DEF RefusedRight
    <3>7. AcquiredRight(cat, db, since, value, m, d)
      BY <1>2, <2>4, <2>5, <3>2, <3>5, <3>6 DEF AcquiredRight
    <3> QED BY <3>7 DEF d, t
  <2>6. CASE p.load = "exists"
    <3> DEFINE d == Detail(AnswersTo(o, q, p), {})
    <3>1. r = d
      BY <2>6 DEF r
    <3>2. IsDetail(d) /\ d.out = "detail" /\ d.object = {AnswersTo(o, q, p)}
      BY DetailFields
    <3> HIDE DEF d
    <3>3. p.render /\ ~(q.object.kind = "generator" /\ engine = "interbase")
      BY <2>6, InterBasePlans, OtherPlans, PlanFields
    <3> QED BY <1>2, <2>2, <2>4, <3>1, <3>2, <3>3 DEF AcquiredRight, RefusedRight
  <2>7. CASE p.load = "facts"
    <3>1. r = Detail(AnswersTo(o, q, p), {Line(o, q.facet, 0, cat[o].version, 0)})
      <4>1. r = Detail(AnswersTo(o, q, p), Text(o, q.facet, 0, cat))
        BY <2>7 DEF r
      <4> QED BY <4>1, Texts
    <3>2. ~p.render /\ ~(engine = "interbase" /\ q.facet = "ddl")
      BY <2>7, InterBasePlans, OtherPlans, PlanFields
    <3>3. Unrendered(m) = {0}
      BY <1>2, <3>2 DEF Unrendered
    <3> QED BY <2>2, <2>5, <3>1, <3>2, <3>3
  <2>8. CASE p.load \notin {"exists", "facts"}
    <3>1. p.load = "live"
      BY <2>8, InterBasePlans, OtherPlans, PlanFields
    <3> DEFINE there == o \in DOMAIN db /\ db[o].there
               draws == q.object.kind = "generator" /\ engine = "interbase"
               drawn == Detail(AnswersTo(o, q, p), Drew(Text(o, q.facet, 0, db), value))
               read == Detail(AnswersTo(o, q, p), Text(o, q.facet, DialectOf(q, p), db))
    <3>2. r = IF ~there THEN Error("missing") ELSE IF draws THEN drawn ELSE IF Refused(o, q) THEN Error("refused") ELSE read
      <4>1. r = FromDatabase(o, q, p)
        BY <2>8 DEF r
      <4> HIDE DEF r
      <4> QED BY <4>1 DEF FromDatabase, Drew
    <3>3. CASE ~(o \in DOMAIN db /\ db[o].there)
      <4>1. r = Error("missing")
        <5>1. ~there
          BY <3>3
        <5> HIDE DEF there, draws, drawn, read
        <5> QED BY <3>2, <5>1
      <4> QED BY <1>2, <2>2, <3>1, <4>1, ErrorRight
    <3>4. CASE (o \in DOMAIN db /\ db[o].there) /\ q.object.kind = "generator" /\ engine = "interbase"
      <4> DEFINE t == Line(o, q.facet, 0, db[o].version, value)
                 d == Detail(AnswersTo(o, q, p), {t})
      <4>1. r = d
        <5>1. r = Detail(AnswersTo(o, q, p), Drew(Text(o, q.facet, 0, db), value))
          <6>1. there /\ draws
            BY <3>4
          <6> HIDE DEF there, draws, drawn, read
          <6>2. r = drawn
            BY <3>2, <6>1
          <6> QED BY <6>2 DEF drawn
        <5>2. Drew(Text(o, q.facet, 0, db), value) = {t}
          BY Texts
        <5> QED BY <5>1, <5>2
      <4>2. IsDetail(d) /\ d.out = "detail" /\ d.object = {AnswersTo(o, q, p)} /\ d.text = {t} /\ t.value = value
        BY DetailFields, LineFields
      <4> HIDE DEF t, d
      <4>3. p.render
        <5>1. q.object.kind = "generator" /\ engine = "interbase"
          BY <3>4
        <5> QED BY <3>1, <5>1, InterBasePlans, PlanFields DEF ServedSystem
      <4>4. t.value \in since..value
        BY <4>2
      <4> QED BY <1>2, <2>2, <2>4, <4>1, <4>2, <4>3, <4>4 DEF AcquiredRight, RefusedRight
    <3>5. CASE (o \in DOMAIN db /\ db[o].there) /\ ~(q.object.kind = "generator" /\ engine = "interbase")
      <4>1. CASE Refused(o, q)
        <5>1. r = Error("refused")
          <6>1. there /\ ~draws
            BY <3>5
          <6> HIDE DEF there, draws, drawn, read
          <6> QED BY <3>2, <4>1, <6>1
        <5> QED BY <2>2, <5>1, ErrorRight
      <4>2. CASE ~Refused(o, q)
        <5>1. r = Detail(AnswersTo(o, q, p), {Line(o, q.facet, DialectOf(q, p), db[o].version, 0)})
          <6>1. there /\ ~draws
            BY <3>5
          <6> HIDE DEF there, draws, drawn, read
          <6>2. r = read
            BY <3>2, <4>2, <6>1
          <6>3. Text(o, q.facet, DialectOf(q, p), db) = {Line(o, q.facet, DialectOf(q, p), db[o].version, 0)}
            BY Texts
          <6> QED BY <6>2, <6>3 DEF read
        <5>2. ~p.render
          BY <3>1, <3>5, InterBasePlans, OtherPlans, PlanFields
        <5>3. {DialectOf(q, p)} = Unrendered(m)
          <6>1. {} # {"sourceDialect"} /\ {"system"} # {"sourceDialect"}
            OBVIOUS
          <6>2. p.marker = {"sourceDialect"} <=> engine = "interbase" /\ q.facet = "ddl" /\ q.object.kind = "table"
            BY <3>1, <5>2, <6>1, InterBasePlans, OtherPlans, PlanFields
          <6> QED BY <1>2, <6>2 DEF DialectOf, Unrendered
        <5> QED BY <2>2, <2>5, <3>1, <5>1, <5>2, <5>3
      <4> QED BY <4>1, <4>2
    <3> QED BY <3>3, <3>4, <3>5
  <2> QED BY <2>6, <2>7, <2>8
<1> QED BY <1>3, <1>4

\* What is rendered for a request is right when what was acquired is.
LEMMA RenderRight ==
  ASSUME IsCatalog(start), NEW cat, IsGeneration(cat), NEW dat, NEW since, NEW val, NEW q, DetailPlan(q) # {},
         PlanOf(q).render, NEW got, got.out = "detail", AcquiredRight(cat, dat, since, val, Meaning(cat, q), got)
  PROVE  AnsweredRight(cat, dat, since, val, Meaning(cat, q), DialectAsked(q, PlanOf(q)), Render(cat, got, q, PlanOf(q)))
<1> DEFINE m == Meaning(cat, q)
           p == PlanOf(q)
           ds == DialectAsked(q, p)
           o == CHOOSE x \in Found(cat, q) : TRUE
           dialect == IF o.kind = "function" THEN 3 ELSE DialectFor(q.dialect)
           rendered == [got EXCEPT !.text = Drew(Text(o, q.facet, dialect, cat), Drawn(got))]
           r == IF Refused(o, q) THEN Error(IF o.kind \in {"function", "exception"} THEN "unsupported" ELSE "refused")
                ELSE rendered
<1>1. Render(cat, got, q, p) = IF ~SchemaServed(cat, q) THEN Error("unsupported")
                               ELSE IF Found(cat, q) = {} THEN Error("missing")
                               ELSE IF Cardinality(Found(cat, q)) > 1 THEN Error("ambiguous")
                               ELSE r
  BY DEF Render, Resolve, Found, Drew
<1>2. /\ m.engine = engine /\ m.denoted = Denoted(cat, q) /\ m.fold = Folded[q.object.name] /\ m.kind = q.object.kind
      /\ m.facet = q.facet /\ m.plan = p
  BY MeaningFields
<1> SUFFICES AnsweredRight(cat, dat, since, val, m, ds, Render(cat, got, q, p))
  OBVIOUS
<1>3. AcquiredRight(cat, dat, since, val, m, got)
  OBVIOUS
<1> HIDE DEF m, r
<1>4. engine = "interbase"
  BY OtherPlans, PlanFields
<1>5. CASE ~SchemaServed(cat, q) \/ Found(cat, q) = {} \/ Cardinality(Found(cat, q)) > 1
  <2>1. \E out \in {"unsupported", "missing", "ambiguous"} : Render(cat, got, q, p) = Error(out) /\ (out # "unsupported" => m.denoted = {})
    BY <1>1, <1>2, <1>5, FoundIsDenoted
  <2> QED BY <2>1, ErrorRight
<1>6. CASE ~(~SchemaServed(cat, q) \/ Found(cat, q) = {} \/ Cardinality(Found(cat, q)) > 1)
  <2>1. m.denoted = {o} /\ o \in Candidates(cat, q) /\ Folded[o.name] = Folded[q.object.name]
    BY <1>2, <1>6, FoundIsDenoted
  <2>2. Render(cat, got, q, p) = r
    BY <1>1, <1>6
  <2> HIDE DEF o
  <2>3. CASE Refused(o, q)
    <3>1. \E out \in {"unsupported", "refused"} : r = Error(out)
      BY <2>3 DEF r
    <3> QED BY <2>2, <3>1, ErrorRight
  <2>4. CASE ~Refused(o, q)
    <3> DEFINE t == Line(o, q.facet, dialect, cat[o].version, Drawn(got))
    <3>1. rendered.out = "detail" /\ rendered.object = got.object /\ rendered.text = {t}
      <4>1. Drew(Text(o, q.facet, dialect, cat), Drawn(got)) = {t}
        BY Texts
      <4> HIDE DEF t
      <4>2. got = [out |-> got.out, object |-> got.object, text |-> got.text]
        BY <1>3 DEF AcquiredRight, IsDetail
      <4> QED BY <4>1, <4>2
    <3>2. r = rendered
      BY <2>4 DEF r
    <3>3. t.of = o /\ t.facet = q.facet /\ t.dialect = dialect /\ t.version = cat[o].version /\ t.value = Drawn(got)
      BY LineFields
    <3> HIDE DEF t, rendered
    <3>4. dialect \in ds
      <4>1. ~(q.facet = "ddl" /\ q.object.kind = "table")
        BY <1>4, InterBasePlans, PlanFields
      <4>2. o.kind = "function" <=> q.object.kind = "function"
        BY <1>4, <2>1, CandidateKinds, InterBasePlans, PlanFields DEF ServedSystem
      <4> QED BY <4>1, <4>2 DEF DialectAsked
    <3>5. o.kind = "generator" => t.value \in since..val
      <4> SUFFICES ASSUME o.kind = "generator" PROVE Drawn(got) \in since..val
        BY <3>3
      <4>1. q.object.kind = "generator"
        BY <1>4, <2>1, CandidateKinds, InterBasePlans, PlanFields DEF ServedSystem
      <4>2. PICK u : got.text = {u} /\ u.value \in since..val
        BY <1>2, <1>3, <1>4, <4>1 DEF AcquiredRight
      <4>3. \A x : The({x}) = x
        BY DEF The
      <4>4. Drawn(got) = u.value
        BY <4>2, <4>3 DEF Drawn
      <4> QED BY <4>2, <4>4
    <3> HIDE DEF dialect, ds
    <3>6. TextRight(cat, dat, since, val, m, ds, t)
      BY <1>2, <2>1, <3>3, <3>4, <3>5 DEF TextRight
    <3>7. \E x : got.object = {x} /\ ObjectRight(m, x)
      BY <1>3 DEF AcquiredRight
    <3> QED BY <2>2, <3>1, <3>2, <3>6, <3>7 DEF AnsweredRight, RefusedRight
  <2> QED BY <2>3, <2>4
<1> QED BY <1>5, <1>6

\* What is not rendered is answered as it was acquired.
LEMMA ReturnRight ==
  ASSUME NEW cat, NEW dat, NEW since, NEW val, NEW q, DetailPlan(q) # {}, NEW got,
         got.out # "detail" \/ ~PlanOf(q).render, AcquiredRight(cat, dat, since, val, Meaning(cat, q), got)
  PROVE  AnsweredRight(cat, dat, since, val, Meaning(cat, q), DialectAsked(q, PlanOf(q)), got)
<1> DEFINE m == Meaning(cat, q)
           ds == DialectAsked(q, PlanOf(q))
<1>1. m.engine = engine /\ m.kind = q.object.kind /\ m.facet = q.facet /\ m.plan = PlanOf(q)
  BY MeaningFields
<1>2. ~PlanOf(q).render => ds = Unrendered(m)
  BY <1>1 DEF DialectAsked, Unrendered
<1> HIDE DEF m, ds
<1>3. AcquiredRight(cat, dat, since, val, m, got)
  BY DEF m
<1>4. AnsweredRight(cat, dat, since, val, m, ds, got)
  BY <1>1, <1>2, <1>3 DEF AcquiredRight, AnsweredRight
<1> QED BY <1>4 DEF m, ds

\* What is kept is as right later: no generator is.
LEMMA KeptRight ==
  ASSUME NEW cat, NEW dat, NEW since, NEW val, NEW later, NEW q, DetailPlan(q) # {}, ~PlanOf(q).volatile, NEW got,
         AcquiredRight(cat, dat, since, val, Meaning(cat, q), got)
  PROVE  AcquiredRight(cat, dat, later, val, Meaning(cat, q), got)
<1> DEFINE m == Meaning(cat, q)
<1>1. m.engine = engine /\ m.kind = q.object.kind /\ m.denoted = Denoted(cat, q) /\ m.plan = PlanOf(q)
  BY MeaningFields
<1>2. Denoted(cat, q) \subseteq Candidates(cat, q)
  BY DEF Denoted
<1>3. engine = "interbase" => ~(PlanOf(q).render /\ q.object.kind = "generator")
  BY InterBasePlans, PlanFields DEF ServedSystem
<1>4. engine = "interbase" => \A o \in Candidates(cat, q) : o.kind # "generator"
  BY InterBasePlans, PlanFields, CandidateKinds DEF ServedSystem
<1> HIDE DEF m
<1>5. AcquiredRight(cat, dat, since, val, m, got)
  BY DEF m
<1>6. \A t, ds : TextRight(cat, dat, since, val, m, ds, t) => TextRight(cat, dat, later, val, m, ds, t)
  BY <1>1, <1>2, <1>4 DEF TextRight
<1>7. AcquiredRight(cat, dat, later, val, m, got)
  BY <1>1, <1>3, <1>5, <1>6 DEF AcquiredRight
<1> QED BY <1>7 DEF m

\* What the database becomes leaves right what was right.
LEMMA DenotedWithin ==
  ASSUME IsCatalog(start), NEW cat, IsGeneration(cat), NEW q
  PROVE  Meaning(cat, q).denoted \subseteq DOMAIN cat
<1>1. Denoted(cat, q) \subseteq Candidates(cat, q)
  BY DEF Denoted
<1> QED BY <1>1, CandidatesDiffer, MeaningFields

LEMMA RightGrows ==
  ASSUME NEW cat, NEW dat, NEW later, NEW since \in Nat, NEW val \in Nat, NEW more \in Nat, val <= more,
         DOMAIN dat = DOMAIN cat,
         \A o \in DOMAIN cat : cat[o].version \in Nat /\ dat[o].version \in Nat /\ later[o].version \in Nat
                               /\ dat[o].version <= later[o].version,
         NEW m, m.denoted \subseteq DOMAIN cat, NEW ds, NEW got
  PROVE  /\ AcquiredRight(cat, dat, since, val, m, got) => AcquiredRight(cat, later, since, more, m, got)
         /\ AnsweredRight(cat, dat, since, val, m, ds, got) => AnsweredRight(cat, later, since, more, m, ds, got)
<1>1. \A n : n \in since..val => n \in since..more
  OBVIOUS
<1>2. ASSUME NEW t, NEW d, TextRight(cat, dat, since, val, m, d, t) PROVE TextRight(cat, later, since, more, m, d, t)
  <2>1. t.of \in DOMAIN cat
    BY <1>2 DEF TextRight
  <2>2. \A n : n \in cat[t.of].version..dat[t.of].version => n \in cat[t.of].version..later[t.of].version
    BY <2>1
  <2> QED BY <1>1, <1>2, <2>2 DEF TextRight
<1>3. AcquiredRight(cat, dat, since, val, m, got) => AcquiredRight(cat, later, since, more, m, got)
  BY <1>1, <1>2 DEF AcquiredRight
<1>4. AnsweredRight(cat, dat, since, val, m, ds, got) => AnsweredRight(cat, later, since, more, m, ds, got)
  BY <1>2 DEF AnsweredRight
<1> QED BY <1>3, <1>4

\* What a state that starts alike says of a request.
LEMMA StartStays ==
  ASSUME start' = start
  PROVE  /\ engine' = engine
         /\ \A q : DetailPlan(q)' = DetailPlan(q) /\ PlanOf(q)' = PlanOf(q)
         /\ \A q, p : DialectAsked(q, p)' = DialectAsked(q, p)
         /\ \A cat : IsGeneration(cat)' = IsGeneration(cat)
         /\ \A cat, q : Meaning(cat, q)' = Meaning(cat, q)
         /\ \A cat, q, c : Covers(cat, q, c)' = Covers(cat, q, c)
<1>1. engine' = engine
  BY DEF engine
<1>2. \A q : DetailPlan(q)' = DetailPlan(q)
  BY <1>1 DEF DetailPlan
<1>3. \A q : PlanOf(q)' = PlanOf(q)
  BY <1>2 DEF PlanOf
<1>4. \A q, p : DialectAsked(q, p)' = DialectAsked(q, p)
  BY <1>1 DEF DialectAsked
<1>5. \A cat, q : Candidates(cat, q)' = Candidates(cat, q)
  BY <1>1 DEF Candidates
<1>6. \A cat, q : SchemaServed(cat, q)' = SchemaServed(cat, q)
  BY <1>1 DEF SchemaServed
<1>7. \A cat, q : Denoted(cat, q)' = Denoted(cat, q)
  BY <1>5 DEF Denoted
<1>8. \A cat, q : Meaning(cat, q)' = Meaning(cat, q)
  BY <1>1, <1>3, <1>7 DEF Meaning
<1>9. \A cat : IsGeneration(cat)' = IsGeneration(cat)
  BY DEF IsGeneration
<1>10. \A cat, q, p : CoverageIn(cat, q, p)' = CoverageIn(cat, q, p)
  <2>1. \A cat, q : Found(cat, q)' = Found(cat, q)
    BY <1>5 DEF Found
  <2> DEFINE named(cat, q, served, found) == IF ~served THEN Error("unsupported")
                                             ELSE IF found = {} THEN Error("missing")
                                             ELSE IF Cardinality(found) > 1 THEN Error("ambiguous")
                                             ELSE Detail(Canonical(CHOOSE o \in found : TRUE, q), {})
  <2>2. \A cat, q, p : CoverageIn(cat, q, p) = IF p.canonical THEN named(cat, q, SchemaServed(cat, q), Found(cat, q))
                                               ELSE Detail(q.object, {})
    BY DEF CoverageIn, Resolve, Found
  <2>3. \A cat, q, p : CoverageIn(cat, q, p)' = IF p.canonical THEN named(cat, q, SchemaServed(cat, q)', Found(cat, q)')
                                                ELSE Detail(q.object, {})
    BY DEF CoverageIn, Resolve, Found
  <2> HIDE DEF named
  <2> QED BY <1>6, <2>1, <2>2, <2>3
<1>11. \A cat, q, c : Covers(cat, q, c)' = Covers(cat, q, c)
  BY <1>2, <1>3, <1>10 DEF Covers
<1> QED BY <1>1, <1>2, <1>3, <1>4, <1>8, <1>9, <1>11

-----------------------------------------------------------------------------
(* The invariant.                                                          *)

Newest(cs) == cs[Cardinality(DOMAIN cs)]

GenerationsRight(cs, dat, val) ==
  /\ \E n \in Nat \ {0} : DOMAIN cs = 1..n
  /\ \A g \in DOMAIN cs : IsGeneration(cs[g]) /\ VersionsGrow(cs[g], dat)
  /\ val \in Nat

\* What is loading or kept in the current generation.
HoldsRight(l, cat, dat, val) ==
  /\ DOMAIN l = {"coverage", "q", "at", "since", "got"}
  /\ l.at \in {"loading", "loaded", "kept"} /\ l.since \in Nat /\ l.since <= val
  /\ Covers(cat, l.q, l.coverage)
  /\ l.at # "loading" => AcquiredRight(cat, dat, l.since, val, Meaning(cat, l.q), l.got)
  /\ l.at = "kept" => ~PlanOf(l.q).volatile

\* A navigation asks for what its name leads to.
GoalRight(goal, q) ==
  \E x, o : /\ goal = {[name |-> x, object |-> o]}
            /\ engine = "interbase" /\ o \in DOMAIN start.objects /\ o.kind \in {"table", "view", "procedure", "trigger"}
            /\ q.object = [schema |-> Unqualified, kind |-> o.kind, name |-> o.name] /\ ~q.system
            /\ q.facet \in {"ddl", "description", "source"}
            /\ Folded[o.name] = Folded[x.name] /\ (x.quoted => o.name = x.name)

AsksRight(rd, q, cat, dat, val) ==
  /\ rd.at \in {"planned", "waiting"} => \E c : rd.coverage = {c} /\ Covers(cat, q, c)
  /\ rd.at = "acquired" => DetailPlan(q) # {} /\ AcquiredRight(cat, dat, rd.since, val, Meaning(cat, q), rd.got)
  /\ rd.at \in {"answered", "shown"} =>
       /\ AnsweredRight(cat, dat, rd.since, val, Meaning(cat, q), DialectAsked(q, PlanOf(q)), rd.got)
       /\ rd.got.out = "detail" => DetailPlan(q) # {}
  /\ rd.goal # {} => GoalRight(rd.goal, q)
  /\ rd.at = "shown" => \A g \in rd.goal, t \in rd.got.text : Navigated(g, t)

IsReader(rd) == DOMAIN rd = {"at", "q", "gen", "coverage", "since", "got", "goal"}

ReaderRight(rd, cs, dat, val) ==
  /\ IsReader(rd)
  /\ rd.since \in Nat
  /\ rd.at \in {"planned", "waiting", "acquired", "answered"} => rd.q # {}
  /\ rd.q # {} =>
       \E q : rd.q = {q} /\ IsRequest(q) /\ rd.gen \in DOMAIN cs /\ AsksRight(rd, q, cs[rd.gen], dat, val)

Waits(rd, n, ls) ==
  rd.at = "waiting" => rd.gen = n /\ \E l \in ls : {l.coverage} = rd.coverage /\ l.since = rd.since /\ l.at # "kept"

DetailInvOf(cs, dat, val, ls, rds) ==
  /\ GenerationsRight(cs, dat, val)
  /\ \A l \in ls : HoldsRight(l, Newest(cs), dat, val)
  /\ \A l1, l2 \in ls : l1.coverage = l2.coverage => l1 = l2
  /\ rds = [r \in Readers |-> rds[r]]
  /\ \A r \in Readers : ReaderRight(rds[r], cs, dat, val) /\ Waits(rds[r], Cardinality(DOMAIN cs), ls)

DetailInv ==
  /\ start \in Catalogs
  /\ \A cs, dat, val, ls, rds :
       cs = caches /\ dat = db /\ val = value /\ ls = loads /\ rds = reader => DetailInvOf(cs, dat, val, ls, rds)

LEMMA InvStays ==
  ASSUME start' = start, NEW cs, NEW dat, NEW val, NEW ls, NEW rds, DetailInvOf(cs, dat, val, ls, rds)
  PROVE  DetailInvOf(cs, dat, val, ls, rds)'
<1>1. GenerationsRight(cs, dat, val)'
  <2>1. GenerationsRight(cs, dat, val)
    BY DEF DetailInvOf
  <2> QED BY <2>1, StartStays DEF GenerationsRight
<1>2. \A l, cat : HoldsRight(l, cat, dat, val) => HoldsRight(l, cat, dat, val)'
  BY StartStays DEF HoldsRight
<1>3. \A goal, q : GoalRight(goal, q) => GoalRight(goal, q)'
  BY StartStays DEF GoalRight
<1>4. \A rd, q, cat : AsksRight(rd, q, cat, dat, val) => AsksRight(rd, q, cat, dat, val)'
  BY <1>3, StartStays DEF AsksRight
<1>5. \A rd : ReaderRight(rd, cs, dat, val) => ReaderRight(rd, cs, dat, val)'
  BY <1>4 DEF ReaderRight
<1> QED BY <1>1, <1>2, <1>5 DEF DetailInvOf

\* The current generation.
LEMMA Current ==
  ASSUME NEW cs, NEW dat, NEW val, GenerationsRight(cs, dat, val)
  PROVE  /\ Cardinality(DOMAIN cs) \in DOMAIN cs /\ Cardinality(DOMAIN cs) \in Nat \ {0}
         /\ DOMAIN cs = 1..Cardinality(DOMAIN cs)
         /\ IsGeneration(Newest(cs)) /\ VersionsGrow(Newest(cs), dat)
<1>1. PICK n \in Nat \ {0} : DOMAIN cs = 1..n
  BY DEF GenerationsRight
<1>2. Cardinality(DOMAIN cs) = n
  BY <1>1, FS_Interval
<1>3. n \in DOMAIN cs
  BY <1>1
<1> QED BY <1>1, <1>2, <1>3 DEF GenerationsRight, Newest

\* One reader moves.
LEMMA OneReader ==
  ASSUME NEW cs, NEW dat, NEW val, NEW ls, NEW rds, DetailInvOf(cs, dat, val, ls, rds), NEW r \in Readers, NEW rd,
         ReaderRight(rd, cs, dat, val), Waits(rd, Cardinality(DOMAIN cs), ls)
  PROVE  DetailInvOf(cs, dat, val, ls, [rds EXCEPT ![r] = rd])
<1>1. /\ GenerationsRight(cs, dat, val) /\ \A l \in ls : HoldsRight(l, Newest(cs), dat, val)
      /\ \A l1, l2 \in ls : l1.coverage = l2.coverage => l1 = l2
  BY DEF DetailInvOf
<1>2. rds = [x \in Readers |-> rds[x]] /\ \A x \in Readers : ReaderRight(rds[x], cs, dat, val) /\ Waits(rds[x], Cardinality(DOMAIN cs), ls)
  BY DEF DetailInvOf
<1> DEFINE new == [rds EXCEPT ![r] = rd]
<1>3. new = [x \in Readers |-> new[x]] /\ \A x \in Readers : new[x] = IF x = r THEN rd ELSE rds[x]
  BY <1>2
<1> HIDE DEF new
<1>4. \A x \in Readers : ReaderRight(new[x], cs, dat, val) /\ Waits(new[x], Cardinality(DOMAIN cs), ls)
  BY <1>2, <1>3
<1>5. DetailInvOf(cs, dat, val, ls, new)
  BY <1>1, <1>3, <1>4 DEF DetailInvOf
<1> QED BY <1>5 DEF new

\* The database moves on.
LEMMA InvGrows ==
  ASSUME IsCatalog(start), NEW cs, NEW dat, NEW val, NEW ls, NEW rds, DetailInvOf(cs, dat, val, ls, rds),
         NEW later, VersionsGrow(dat, later), NEW more \in Nat, val <= more
  PROVE  DetailInvOf(cs, later, more, ls, rds)
<1>1. GenerationsRight(cs, dat, val)
  BY DEF DetailInvOf
<1>2. \A g \in DOMAIN cs : IsGeneration(cs[g]) /\ VersionsGrow(cs[g], dat) /\ VersionsGrow(cs[g], later)
  <2>1. \A g \in DOMAIN cs : IsGeneration(cs[g]) /\ VersionsGrow(cs[g], dat)
    BY <1>1 DEF GenerationsRight
  <2>2. ASSUME NEW cat, VersionsGrow(cat, dat) PROVE VersionsGrow(cat, later)
    <3>1. DOMAIN later = DOMAIN cat
      BY <2>2 DEF VersionsGrow
    <3>2. ASSUME NEW o \in DOMAIN cat PROVE cat[o].version \in Nat /\ later[o].version \in Nat /\ cat[o].version <= later[o].version
      <4>1. cat[o].version \in Nat /\ dat[o].version \in Nat /\ later[o].version \in Nat
            /\ cat[o].version <= dat[o].version /\ dat[o].version <= later[o].version
        BY <2>2 DEF VersionsGrow
      <4> QED BY <4>1
    <3> QED BY <3>1, <3>2 DEF VersionsGrow
  <2> QED BY <2>1, <2>2
<1>3. val \in Nat
  BY <1>1 DEF GenerationsRight
<1>4. GenerationsRight(cs, later, more)
  BY <1>1, <1>2 DEF GenerationsRight
<1>5. ASSUME NEW g \in DOMAIN cs, NEW q, NEW since \in Nat, NEW ds, NEW got
      PROVE  /\ AcquiredRight(cs[g], dat, since, val, Meaning(cs[g], q), got) =>
                  AcquiredRight(cs[g], later, since, more, Meaning(cs[g], q), got)
             /\ AnsweredRight(cs[g], dat, since, val, Meaning(cs[g], q), ds, got) =>
                  AnsweredRight(cs[g], later, since, more, Meaning(cs[g], q), ds, got)
  <2> DEFINE cat == cs[g]
             m == Meaning(cat, q)
  <2>1. m.denoted \subseteq DOMAIN cat
    BY <1>2, DenotedWithin
  <2>2. DOMAIN dat = DOMAIN cat
    BY <1>2 DEF VersionsGrow
  <2>3. \A o \in DOMAIN cat : cat[o].version \in Nat /\ dat[o].version \in Nat /\ later[o].version \in Nat
                              /\ dat[o].version <= later[o].version
    BY <1>2, <2>2 DEF VersionsGrow
  <2> HIDE DEF cat, m
  <2>4. /\ AcquiredRight(cat, dat, since, val, m, got) => AcquiredRight(cat, later, since, more, m, got)
        /\ AnsweredRight(cat, dat, since, val, m, ds, got) => AnsweredRight(cat, later, since, more, m, ds, got)
    BY <1>3, <2>1, <2>2, <2>3, RightGrows
  <2> QED BY <2>4 DEF cat, m
<1>6. ASSUME NEW l \in ls PROVE HoldsRight(l, Newest(cs), later, more)
  <2>1. HoldsRight(l, Newest(cs), dat, val)
    BY DEF DetailInvOf
  <2>2. Cardinality(DOMAIN cs) \in DOMAIN cs
    BY <1>1, Current
  <2>3. l.since \in Nat /\ l.since <= val
    BY <2>1 DEF HoldsRight
  <2>4. l.since <= more
    BY <1>3, <2>3
  <2>5. l.at # "loading" => AcquiredRight(Newest(cs), later, l.since, more, Meaning(Newest(cs), l.q), l.got)
    BY <1>5, <2>1, <2>2, <2>3 DEF HoldsRight, Newest
  <2> QED BY <2>1, <2>4, <2>5 DEF HoldsRight
<1>7. ASSUME NEW r \in Readers PROVE ReaderRight(rds[r], cs, later, more)
  <2> DEFINE rd == rds[r]
  <2>1. ReaderRight(rd, cs, dat, val)
    BY DEF DetailInvOf
  <2> HIDE DEF rd
  <2>2. rd.since \in Nat
    BY <2>1 DEF ReaderRight
  <2>3. ASSUME rd.q # {}
        PROVE  \E q : rd.q = {q} /\ IsRequest(q) /\ rd.gen \in DOMAIN cs /\ AsksRight(rd, q, cs[rd.gen], later, more)
    <3>1. PICK q : rd.q = {q} /\ IsRequest(q) /\ rd.gen \in DOMAIN cs /\ AsksRight(rd, q, cs[rd.gen], dat, val)
      BY <2>1, <2>3 DEF ReaderRight
    <3>2. AsksRight(rd, q, cs[rd.gen], later, more)
      BY <1>5, <2>2, <3>1 DEF AsksRight
    <3> QED BY <3>1, <3>2
  <2>4. ReaderRight(rd, cs, later, more)
    BY <2>1, <2>3 DEF ReaderRight
  <2> QED BY <2>4 DEF rd
<1> QED BY <1>4, <1>6, <1>7 DEF DetailInvOf

LEMMA ReaderFields ==
  /\ IsReader(NoReader) /\ NoReader.at = "idle" /\ NoReader.q = {} /\ NoReader.goal = {} /\ NoReader.since = 0
  /\ \A rd, got : LET new == Answered(rd, got) IN
       IsReader(rd) => IsReader(new) /\ new.at = "answered" /\ new.q = rd.q /\ new.gen = rd.gen /\ new.coverage = rd.coverage
                       /\ new.since = rd.since /\ new.got = got /\ new.goal = rd.goal
<1>1. IsReader(NoReader) /\ NoReader.at = "idle" /\ NoReader.q = {} /\ NoReader.goal = {} /\ NoReader.since = 0
  BY DEF NoReader, IsReader
<1>2. ASSUME NEW rd, NEW got, IsReader(rd)
      PROVE  LET new == Answered(rd, got) IN
             IsReader(new) /\ new.at = "answered" /\ new.q = rd.q /\ new.gen = rd.gen /\ new.coverage = rd.coverage
             /\ new.since = rd.since /\ new.got = got /\ new.goal = rd.goal
  BY <1>2 DEF Answered, IsReader
<1> QED BY <1>1, <1>2

LEMMA PlannedRight ==
  ASSUME IsCatalog(start), GenerationsRight(caches, db, value), NEW q, IsRequest(q),
         NEW goal, goal # {} => GoalRight(goal, q)
  PROVE  ReaderRight(Planned(q, goal), caches, db, value) /\ Planned(q, goal).at \in {"planned", "answered"}
<1> DEFINE state == [NoReader EXCEPT !.q = {q}, !.gen = gen, !.goal = goal]
           p == PlanOf(q)
           named == CoverageIn(caches[gen], q, p)
           answered(got) == Answered(state, got)
           planned == [state EXCEPT !.at = "planned", !.coverage = {Coverage(o, q, p) : o \in named.object}]
<1>1. Planned(q, goal) = IF DetailPlan(q) = {} THEN answered(Error("unsupported"))
                         ELSE IF named.out # "detail" THEN answered(named) ELSE planned
  BY DEF Planned
<1>2. gen \in DOMAIN caches /\ IsGeneration(caches[gen])
  BY Current DEF gen, Newest
<1>3. IsReader(state) /\ state.q = {q} /\ state.gen = gen /\ state.since = 0 /\ state.goal = goal
  BY ReaderFields DEF IsReader
<1> HIDE DEF state
<1>4. ASSUME NEW got, AnsweredRight(caches[gen], db, 0, value, Meaning(caches[gen], q), DialectAsked(q, p), got),
             got.out # "detail"
      PROVE  ReaderRight(answered(got), caches, db, value) /\ answered(got).at = "answered"
  <2> DEFINE rd == answered(got)
  <2>2. IsReader(rd) /\ rd.at = "answered" /\ rd.q = {q} /\ rd.gen = gen /\ rd.since = 0 /\ rd.got = got /\ rd.goal = goal
    BY <1>3, ReaderFields
  <2> HIDE DEF rd
  <2>3. AsksRight(rd, q, caches[gen], db, value)
    BY <1>4, <2>2 DEF AsksRight
  <2>4. ReaderRight(rd, caches, db, value)
    BY <1>2, <2>2, <2>3 DEF ReaderRight
  <2> QED BY <2>2, <2>4 DEF rd
<1>5. ASSUME DetailPlan(q) # {}, named.out = "detail"
      PROVE  ReaderRight(planned, caches, db, value) /\ planned.at = "planned"
  <2>1. PICK o : named.object = {o}
    <3>1. \E o, t : named = Detail(o, t)
      BY <1>2, <1>5, CoverageNames, DetailFields
    <3> QED BY <3>1, DetailFields
  <2>2. {Coverage(x, q, p) : x \in named.object} = {Coverage(o, q, p)}
    BY <2>1
  <2>3. Covers(caches[gen], q, Coverage(o, q, p))
    BY <1>5, <2>1 DEF Covers
  <2> DEFINE rd == planned
  <2>5. /\ IsReader(rd) /\ rd.at = "planned" /\ rd.q = {q} /\ rd.gen = gen /\ rd.since = 0 /\ rd.goal = goal
        /\ rd.coverage = {Coverage(o, q, p)}
    BY <1>3, <2>2 DEF IsReader
  <2> HIDE DEF rd
  <2>6. AsksRight(rd, q, caches[gen], db, value)
    BY <2>3, <2>5 DEF AsksRight
  <2>7. ReaderRight(rd, caches, db, value)
    BY <1>2, <2>5, <2>6 DEF ReaderRight
  <2> QED BY <2>5, <2>7 DEF rd
<1> HIDE DEF answered, planned
<1>6. CASE DetailPlan(q) = {}
  BY <1>1, <1>4, <1>6, ErrorRight, DetailFields
<1>7. CASE DetailPlan(q) # {} /\ named.out # "detail"
  <2>1. \E out : named = Error(out) /\ out # "detail" /\ (out \in {"missing", "ambiguous"} => Denoted(caches[gen], q) = {})
    BY <1>2, <1>7, CoverageNames, DetailFields
  <2>2. AnsweredRight(caches[gen], db, 0, value, Meaning(caches[gen], q), DialectAsked(q, p), named)
    BY <2>1, ErrorRight, MeaningFields
  <2> QED BY <1>1, <1>4, <1>7, <2>2
<1> QED BY <1>1, <1>5, <1>6, <1>7

\* A step in which one reader moves and nothing else changes.
LEMMA Moves ==
  ASSUME DetailInvOf(caches, db, value, loads, reader), NEW r \in Readers, NEW rd,
         ReaderRight(rd, caches, db, value), Waits(rd, gen, loads),
         reader' = [reader EXCEPT ![r] = rd], UNCHANGED <<db, value, caches, loads>>
  PROVE  DetailInvOf(caches', db', value', loads', reader')
<1>1. DetailInvOf(caches, db, value, loads, [reader EXCEPT ![r] = rd])
  BY OneReader DEF gen
<1> QED BY <1>1

LEMMA AskStep ==
  ASSUME IsCatalog(start), DetailInvOf(caches, db, value, loads, reader), NEW r \in Readers, NEW q \in start.asks, Ask(r, q)
  PROVE  DetailInvOf(caches', db', value', loads', reader')
<1>1. GenerationsRight(caches, db, value) /\ IsRequest(q)
  BY DEF DetailInvOf, IsCatalog
<1>2. ReaderRight(Planned(q, {}), caches, db, value) /\ Planned(q, {}).at \in {"planned", "answered"}
  BY <1>1, PlannedRight
<1>3. Waits(Planned(q, {}), gen, loads)
  BY <1>2 DEF Waits
<1>4. reader' = [reader EXCEPT ![r] = Planned(q, {})] /\ UNCHANGED <<db, value, caches, loads>>
  BY DEF Ask, Becomes
<1> QED BY <1>2, <1>3, <1>4, Moves

LEMMA AnswerStep ==
  ASSUME IsCatalog(start), DetailInvOf(caches, db, value, loads, reader), NEW r \in Readers, Answer(r)
  PROVE  DetailInvOf(caches', db', value', loads', reader')
<1> DEFINE rd == reader[r]
<1>1. ReaderRight(rd, caches, db, value) /\ GenerationsRight(caches, db, value)
  BY DEF DetailInvOf
<1>2. rd.at = "acquired" /\ UNCHANGED <<db, value, caches, loads>>
  BY DEF Answer
<1>3. PICK q : rd.q = {q} /\ IsRequest(q) /\ rd.gen \in DOMAIN caches /\ AsksRight(rd, q, caches[rd.gen], db, value)
  BY <1>1, <1>2 DEF ReaderRight
<1> DEFINE cat == caches[rd.gen]
           got == IF rd.got.out # "detail" \/ ~PlanOf(q).render THEN rd.got ELSE Render(cat, rd.got, q, PlanOf(q))
<1>4. The(rd.q) = q
  BY <1>3 DEF The
<1>5. reader' = [reader EXCEPT ![r] = Answered(rd, got)]
  BY <1>4 DEF Answer, Becomes
<1>6. IsGeneration(cat) /\ DetailPlan(q) # {} /\ AcquiredRight(cat, db, rd.since, value, Meaning(cat, q), rd.got)
  BY <1>1, <1>2, <1>3 DEF GenerationsRight, AsksRight
<1>7. AnsweredRight(cat, db, rd.since, value, Meaning(cat, q), DialectAsked(q, PlanOf(q)), got)
  BY <1>6, RenderRight, ReturnRight
<1>8. IsReader(rd) /\ rd.since \in Nat /\ (rd.goal # {} => GoalRight(rd.goal, q))
  BY <1>1, <1>3 DEF ReaderRight, AsksRight
<1> HIDE DEF got, rd
<1> DEFINE new == Answered(rd, got)
<1>9. /\ IsReader(new) /\ new.at = "answered" /\ new.q = rd.q /\ new.gen = rd.gen /\ new.since = rd.since /\ new.got = got
      /\ new.goal = rd.goal
  BY <1>8, ReaderFields
<1> HIDE DEF new
<1>10. AsksRight(new, q, cat, db, value)
  BY <1>6, <1>7, <1>8, <1>9 DEF AsksRight
<1>11. ReaderRight(new, caches, db, value) /\ Waits(new, gen, loads)
  BY <1>3, <1>8, <1>9, <1>10 DEF ReaderRight, Waits
<1>12. reader' = [reader EXCEPT ![r] = new]
  BY <1>5 DEF new
<1> QED BY <1>2, <1>11, <1>12, Moves

\* A detail acquired for one request is as right for another one under its coverage.
LEMMA AcquireStep ==
  ASSUME IsCatalog(start), DetailInvOf(caches, db, value, loads, reader), NEW r \in Readers, Acquire(r)
  PROVE  DetailInvOf(caches', db', value', loads', reader')
<1> DEFINE rd == reader[r]
           own == {l \in loads : {l.coverage} = rd.coverage}
           fenced == Answered(rd, Error("stale"))
           waiting(since) == [rd EXCEPT !.at = "waiting", !.since = since]
           acquired(l) == [rd EXCEPT !.at = "acquired", !.got = l.got, !.since = value]
           fresh == [coverage |-> The(rd.coverage), q |-> The(rd.q), at |-> "loading", since |-> value, got |-> Error("none")]
<1>1. ReaderRight(rd, caches, db, value) /\ GenerationsRight(caches, db, value) /\ value \in Nat
  BY DEF DetailInvOf, GenerationsRight
<1>2. rd.at = "planned" /\ UNCHANGED <<db, value, caches>>
  BY DEF Acquire
<1>3. PICK q : rd.q = {q} /\ IsRequest(q) /\ rd.gen \in DOMAIN caches /\ AsksRight(rd, q, caches[rd.gen], db, value)
  BY <1>1, <1>2 DEF ReaderRight
<1>4. PICK c : rd.coverage = {c} /\ Covers(caches[rd.gen], q, c)
  BY <1>2, <1>3 DEF AsksRight
<1>5. IsReader(rd) /\ rd.since \in Nat /\ (rd.goal # {} => GoalRight(rd.goal, q))
  BY <1>1, <1>3 DEF ReaderRight, AsksRight
<1>6. Newest(caches) = caches[gen] /\ IsGeneration(caches[gen])
  BY <1>1, Current DEF gen, Newest
<1>7. The(rd.q) = q /\ The(rd.coverage) = c
  BY <1>3, <1>4 DEF The
<1>8. \/ rd.gen # gen /\ reader' = [reader EXCEPT ![r] = fenced] /\ UNCHANGED loads
      \/ /\ rd.gen = gen /\ own = {} /\ loads' = loads \cup {fresh}
         /\ reader' = [reader EXCEPT ![r] = waiting(value)]
      \/ /\ rd.gen = gen /\ UNCHANGED loads
         /\ \E l \in own : IF l.at = "kept" THEN reader' = [reader EXCEPT ![r] = acquired(l)]
                           ELSE reader' = [reader EXCEPT ![r] = waiting(l.since)]
  BY DEF Acquire, Becomes
<1> HIDE DEF rd
\* What a waiting reader is.
<1>9. ASSUME NEW since \in Nat, rd.gen = gen
      PROVE  LET new == waiting(since) IN
             ReaderRight(new, caches, db, value) /\ new.at = "waiting" /\ new.gen = gen /\ new.coverage = {c} /\ new.since = since
  <2> DEFINE new == waiting(since)
  <2>1. /\ IsReader(new) /\ new.at = "waiting" /\ new.q = {q} /\ new.gen = gen /\ new.coverage = {c} /\ new.since = since
        /\ new.goal = rd.goal
    BY <1>3, <1>4, <1>5, <1>9 DEF IsReader
  <2> HIDE DEF new
  <2>2. AsksRight(new, q, caches[gen], db, value)
    BY <1>4, <1>5, <1>9, <2>1 DEF AsksRight
  <2>3. ReaderRight(new, caches, db, value)
    BY <1>3, <1>9, <2>1, <2>2 DEF ReaderRight
  <2> QED BY <2>1, <2>3 DEF new
<1>10. CASE rd.gen # gen /\ reader' = [reader EXCEPT ![r] = fenced] /\ UNCHANGED loads
  <2>1. /\ IsReader(fenced) /\ fenced.at = "answered" /\ fenced.q = rd.q /\ fenced.gen = rd.gen /\ fenced.since = rd.since
        /\ fenced.got = Error("stale") /\ fenced.goal = rd.goal
    BY <1>5, ReaderFields
  <2>2. reader' = [reader EXCEPT ![r] = fenced]
    BY <1>10
  <2> HIDE DEF fenced
  <2>3. AnsweredRight(caches[rd.gen], db, rd.since, value, Meaning(caches[rd.gen], q), DialectAsked(q, PlanOf(q)), Error("stale"))
    BY ErrorRight
  <2>4. AsksRight(fenced, q, caches[rd.gen], db, value)
    BY <1>5, <2>1, <2>3, DetailFields DEF AsksRight
  <2>5. ReaderRight(fenced, caches, db, value) /\ Waits(fenced, gen, loads)
    BY <1>3, <1>5, <2>1, <2>4 DEF ReaderRight, Waits
  <2> QED BY <1>2, <1>10, <2>2, <2>5, Moves
<1>11. CASE /\ rd.gen = gen /\ own = {} /\ loads' = loads \cup {fresh}
            /\ reader' = [reader EXCEPT ![r] = waiting(value)]
  <2>1. /\ DOMAIN fresh = {"coverage", "q", "at", "since", "got"} /\ fresh.coverage = c /\ fresh.q = q /\ fresh.at = "loading"
        /\ fresh.since = value
    BY <1>7
  <2> DEFINE wait == waiting(value)
  <2>2. ReaderRight(wait, caches, db, value) /\ wait.at = "waiting" /\ wait.gen = gen /\ wait.coverage = {c} /\ wait.since = value
    BY <1>1, <1>9, <1>11
  <2>3. loads' = loads \cup {fresh} /\ reader' = [reader EXCEPT ![r] = wait] /\ rd.gen = gen
    BY <1>11
  <2>4. \A l \in loads : l.coverage # c
    BY <1>4, <1>11
  <2> HIDE DEF fresh, wait
  <2>5. HoldsRight(fresh, Newest(caches), db, value)
    BY <1>1, <1>4, <1>6, <2>1, <2>3 DEF HoldsRight
  <2>6. DetailInvOf(caches, db, value, loads \cup {fresh}, reader)
    <3>1. \A l \in loads \cup {fresh} : HoldsRight(l, Newest(caches), db, value)
      BY <2>5 DEF DetailInvOf
    <3>2. \A l1, l2 \in loads \cup {fresh} : l1.coverage = l2.coverage => l1 = l2
      BY <2>1, <2>4 DEF DetailInvOf
    <3>3. \A x \in Readers : ReaderRight(reader[x], caches, db, value) /\ Waits(reader[x], Cardinality(DOMAIN caches), loads \cup {fresh})
      BY DEF DetailInvOf, Waits
    <3> QED BY <1>1, <3>1, <3>2, <3>3 DEF DetailInvOf
  <2>7. Waits(wait, Cardinality(DOMAIN caches), loads \cup {fresh})
    BY <2>1, <2>2 DEF Waits, gen
  <2>8. DetailInvOf(caches, db, value, loads \cup {fresh}, [reader EXCEPT ![r] = wait])
    BY <2>2, <2>6, <2>7, OneReader
  <2> QED BY <1>2, <2>3, <2>8
<1>12. CASE /\ rd.gen = gen /\ UNCHANGED loads
            /\ \E l \in own : IF l.at = "kept" THEN reader' = [reader EXCEPT ![r] = acquired(l)]
                              ELSE reader' = [reader EXCEPT ![r] = waiting(l.since)]
  <2>1. PICK l \in own : IF l.at = "kept" THEN reader' = [reader EXCEPT ![r] = acquired(l)]
                         ELSE reader' = [reader EXCEPT ![r] = waiting(l.since)]
    BY <1>12
  <2>2. l \in loads /\ l.coverage = c
    BY <1>4
  <2>3. HoldsRight(l, caches[gen], db, value)
    BY <1>6, <2>2 DEF DetailInvOf
  <2>4. CASE l.at # "kept"
    <3> DEFINE wait == waiting(l.since)
    <3>1. l.since \in Nat
      BY <2>3 DEF HoldsRight
    <3>2. ReaderRight(wait, caches, db, value) /\ wait.at = "waiting" /\ wait.gen = gen /\ wait.coverage = {c} /\ wait.since = l.since
      BY <1>9, <1>12, <3>1
    <3>3. reader' = [reader EXCEPT ![r] = wait]
      BY <2>1, <2>4
    <3> HIDE DEF wait
    <3>4. Waits(wait, gen, loads)
      BY <2>2, <2>4, <3>2 DEF Waits
    <3> QED BY <1>2, <1>12, <3>2, <3>3, <3>4, Moves
  <2>5. CASE l.at = "kept"
    <3> DEFINE new == acquired(l)
    <3>1. /\ IsReader(new) /\ new.at = "acquired" /\ new.q = {q} /\ new.gen = gen /\ new.since = value /\ new.got = l.got
          /\ new.goal = rd.goal
      BY <1>3, <1>5, <1>12 DEF IsReader
    <3>2. reader' = [reader EXCEPT ![r] = new]
      BY <2>1, <2>5
    <3> HIDE DEF new
    <3>3. Covers(caches[gen], q, c) /\ Covers(caches[gen], l.q, c)
      BY <1>4, <1>12, <2>2, <2>3 DEF HoldsRight
    <3>4. Meaning(caches[gen], l.q) = Meaning(caches[gen], q)
      BY <1>6, <3>3, SharedMeaning
    <3>5. DetailPlan(l.q) # {} /\ DetailPlan(q) # {}
      BY <3>3 DEF Covers
    <3>6. AcquiredRight(caches[gen], db, l.since, value, Meaning(caches[gen], l.q), l.got) /\ ~PlanOf(l.q).volatile
      BY <2>3, <2>5 DEF HoldsRight
    <3>7. AcquiredRight(caches[gen], db, value, value, Meaning(caches[gen], l.q), l.got)
      BY <3>5, <3>6, KeptRight
    <3>8. AsksRight(new, q, caches[gen], db, value)
      BY <1>5, <3>1, <3>4, <3>5, <3>7 DEF AsksRight
    <3>9. ReaderRight(new, caches, db, value) /\ Waits(new, gen, loads)
      BY <1>1, <1>3, <1>12, <3>1, <3>8 DEF ReaderRight, Waits
    <3> QED BY <1>2, <1>12, <3>2, <3>9, Moves
  <2> QED BY <2>4, <2>5
<1> QED BY <1>8, <1>10, <1>11, <1>12

\* One load becomes another of the same coverage.
LEMMA OneLoad ==
  ASSUME NEW cs, NEW dat, NEW val, NEW ls, NEW rds, DetailInvOf(cs, dat, val, ls, rds), NEW l \in ls, NEW new,
         HoldsRight(new, Newest(cs), dat, val), new.coverage = l.coverage, new.since = l.since
  PROVE  /\ \A x \in (ls \ {l}) \cup {new} : HoldsRight(x, Newest(cs), dat, val)
         /\ \A x, y \in (ls \ {l}) \cup {new} : x.coverage = y.coverage => x = y
         /\ new.at # "kept" => DetailInvOf(cs, dat, val, (ls \ {l}) \cup {new}, rds)
<1> DEFINE rest == (ls \ {l}) \cup {new}
<1>1. \A x \in ls : HoldsRight(x, Newest(cs), dat, val)
  BY DEF DetailInvOf
<1>2. \A x, y \in ls : x.coverage = y.coverage => x = y
  BY DEF DetailInvOf
<1>3. \A x \in rest : HoldsRight(x, Newest(cs), dat, val)
  BY <1>1
<1>4. \A x, y \in rest : x.coverage = y.coverage => x = y
  BY <1>2
<1>5. new \in rest /\ \A x \in ls : x # l => x \in rest
  OBVIOUS
<1> HIDE DEF rest
<1>6. ASSUME new.at # "kept", NEW rd, Waits(rd, Cardinality(DOMAIN cs), ls)
      PROVE  Waits(rd, Cardinality(DOMAIN cs), rest)
  <2> SUFFICES ASSUME rd.at = "waiting"
               PROVE  /\ rd.gen = Cardinality(DOMAIN cs)
                      /\ \E x \in rest : {x.coverage} = rd.coverage /\ x.since = rd.since /\ x.at # "kept"
    BY DEF Waits
  <2>1. PICK x \in ls : {x.coverage} = rd.coverage /\ x.since = rd.since /\ x.at # "kept"
    BY <1>6 DEF Waits
  <2>2. rd.gen = Cardinality(DOMAIN cs)
    BY <1>6 DEF Waits
  <2>3. CASE x = l
    BY <1>5, <1>6, <2>1, <2>2, <2>3
  <2>4. CASE x # l
    BY <1>5, <2>1, <2>2, <2>4
  <2> QED BY <2>3, <2>4
<1>7. new.at # "kept" => DetailInvOf(cs, dat, val, rest, rds)
  BY <1>3, <1>4, <1>6 DEF DetailInvOf
<1> QED BY <1>3, <1>4, <1>7 DEF rest

LEMMA LoadReturnsStep ==
  ASSUME IsCatalog(start), DetailInvOf(caches, db, value, loads, reader), NEW l \in loads, LoadReturns(l)
  PROVE  DetailInvOf(caches', db', value', loads', reader')
<1> DEFINE new == [l EXCEPT !.at = "loaded", !.got = Load(caches[gen], l.q, PlanOf(l.q))]
<1>1. GenerationsRight(caches, db, value) /\ value \in Nat
  BY DEF DetailInvOf, GenerationsRight
<1>2. Newest(caches) = caches[gen] /\ IsGeneration(caches[gen]) /\ VersionsGrow(caches[gen], db)
  BY <1>1, Current DEF gen, Newest
<1>3. HoldsRight(l, caches[gen], db, value)
  BY <1>2 DEF DetailInvOf
<1>4. DetailPlan(l.q) # {} /\ l.since \in Nat /\ l.since <= value /\ Covers(caches[gen], l.q, l.coverage)
  BY <1>3 DEF HoldsRight, Covers
<1>5. AcquiredRight(caches[gen], db, l.since, value, Meaning(caches[gen], l.q), Load(caches[gen], l.q, PlanOf(l.q)))
  BY <1>1, <1>2, <1>4, LoadRight
<1>6. DOMAIN l = {"coverage", "q", "at", "since", "got"}
  BY <1>3 DEF HoldsRight
<1>7. /\ DOMAIN new = {"coverage", "q", "at", "since", "got"} /\ new.at = "loaded" /\ new.q = l.q /\ new.coverage = l.coverage
      /\ new.since = l.since /\ new.got = Load(caches[gen], l.q, PlanOf(l.q))
  BY <1>6
<1>8. loads' = (loads \ {l}) \cup {new} /\ UNCHANGED <<db, value, caches, reader>>
  BY DEF LoadReturns
<1> HIDE DEF new
<1>9. HoldsRight(new, Newest(caches), db, value)
  BY <1>2, <1>4, <1>5, <1>7 DEF HoldsRight
<1>10. DetailInvOf(caches, db, value, (loads \ {l}) \cup {new}, reader)
  BY <1>7, <1>9, OneLoad
<1> QED BY <1>8, <1>10

\* Everyone who waited for the load has its detail.
LEMMA SettleStep ==
  ASSUME IsCatalog(start), DetailInvOf(caches, db, value, loads, reader), NEW l \in loads, Settle(l)
  PROVE  DetailInvOf(caches', db', value', loads', reader')
<1> DEFINE kept == [l EXCEPT !.at = "kept"]
           over == l.got.out # "detail" \/ PlanOf(l.q).volatile
           told(r) == reader[r].at = "waiting" /\ reader[r].coverage = {l.coverage}
<1>1. GenerationsRight(caches, db, value) /\ reader = [r \in Readers |-> reader[r]]
  BY DEF DetailInvOf
<1>2. Newest(caches) = caches[gen] /\ IsGeneration(caches[gen])
  BY <1>1, Current DEF gen, Newest
<1>3. HoldsRight(l, caches[gen], db, value) /\ HoldsRight(l, Newest(caches), db, value)
  BY <1>2 DEF DetailInvOf
<1>4. /\ l.at = "loaded" /\ UNCHANGED <<db, value, caches>>
      /\ loads' = (loads \ {l}) \cup IF over THEN {} ELSE {kept}
      /\ reader' = [r \in Readers |-> IF told(r) THEN [reader[r] EXCEPT !.at = "acquired", !.got = l.got] ELSE reader[r]]
  BY DEF Settle
<1>5. /\ DOMAIN l = {"coverage", "q", "at", "since", "got"} /\ Covers(caches[gen], l.q, l.coverage)
      /\ AcquiredRight(caches[gen], db, l.since, value, Meaning(caches[gen], l.q), l.got)
  BY <1>3, <1>4 DEF HoldsRight
<1>6. /\ DOMAIN kept = {"coverage", "q", "at", "since", "got"} /\ kept.at = "kept" /\ kept.q = l.q /\ kept.coverage = l.coverage
      /\ kept.since = l.since /\ kept.got = l.got
  BY <1>5
<1> HIDE DEF kept
<1>7. ~over => HoldsRight(kept, Newest(caches), db, value)
  BY <1>2, <1>3, <1>5, <1>6 DEF HoldsRight
<1>8. /\ \A x \in loads' : HoldsRight(x, Newest(caches), db, value)
      /\ \A x, y \in loads' : x.coverage = y.coverage => x = y
  <2>1. CASE over
    BY <1>4, <2>1 DEF DetailInvOf
  <2>2. CASE ~over
    <3>1. loads' = (loads \ {l}) \cup {kept}
      BY <1>4, <2>2
    <3>2. HoldsRight(kept, Newest(caches), db, value)
      BY <1>7, <2>2
    <3> QED BY <1>6, <3>1, <3>2, OneLoad
  <2> QED BY <2>1, <2>2
<1>9. ASSUME NEW r \in Readers
      PROVE  ReaderRight(reader'[r], caches, db, value) /\ Waits(reader'[r], Cardinality(DOMAIN caches), loads')
  <2> DEFINE rd == reader[r]
             new == [rd EXCEPT !.at = "acquired", !.got = l.got]
  <2>1. ReaderRight(rd, caches, db, value) /\ Waits(rd, Cardinality(DOMAIN caches), loads)
    BY DEF DetailInvOf
  <2>2. reader'[r] = IF rd.at = "waiting" /\ rd.coverage = {l.coverage} THEN new ELSE rd
    BY <1>4
  <2> HIDE DEF rd, new
  <2>3. CASE ~(rd.at = "waiting" /\ rd.coverage = {l.coverage})
    <3>1. reader'[r] = rd
      BY <2>2, <2>3
    <3>2. ASSUME rd.at = "waiting"
          PROVE  rd.gen = Cardinality(DOMAIN caches) /\ \E x \in loads' : {x.coverage} = rd.coverage /\ x.since = rd.since /\ x.at # "kept"
      <4>1. PICK x \in loads : {x.coverage} = rd.coverage /\ x.since = rd.since /\ x.at # "kept"
        BY <2>1, <3>2 DEF Waits
      <4>2. x # l
        BY <2>3, <3>2, <4>1
      <4>3. x \in loads'
        BY <1>4, <4>1, <4>2
      <4> QED BY <2>1, <3>2, <4>1, <4>3 DEF Waits
    <3>3. Waits(rd, Cardinality(DOMAIN caches), loads')
      BY <3>2 DEF Waits
    <3> QED BY <2>1, <3>1, <3>3
  <2>4. CASE rd.at = "waiting" /\ rd.coverage = {l.coverage}
    <3>1. PICK x \in loads : {x.coverage} = rd.coverage /\ x.since = rd.since /\ x.at # "kept"
      BY <2>1, <2>4 DEF Waits
    <3>2. x.coverage = l.coverage
      BY <2>4, <3>1
    <3>3. x = l
      BY <3>2 DEF DetailInvOf
    <3>4. rd.since = l.since
      BY <3>1, <3>3
    <3>5. rd.gen = gen
      BY <2>1, <2>4 DEF Waits, gen
    <3>6. rd.q # {}
      BY <2>1, <2>4 DEF ReaderRight
    <3>7. PICK q : rd.q = {q} /\ IsRequest(q) /\ rd.gen \in DOMAIN caches /\ AsksRight(rd, q, caches[rd.gen], db, value)
      BY <2>1, <3>6 DEF ReaderRight
    <3>8. IsReader(rd) /\ rd.since \in Nat /\ (rd.goal # {} => GoalRight(rd.goal, q))
      BY <2>1, <3>7 DEF ReaderRight, AsksRight
    <3>9. /\ IsReader(new) /\ new.at = "acquired" /\ new.q = rd.q /\ new.gen = rd.gen /\ new.since = rd.since /\ new.got = l.got
          /\ new.goal = rd.goal
      BY <3>8 DEF new, IsReader
    <3>10. PICK c : rd.coverage = {c} /\ Covers(caches[rd.gen], q, c)
      BY <2>4, <3>7 DEF AsksRight
    <3>11. Covers(caches[gen], q, l.coverage)
      BY <2>4, <3>5, <3>10
    <3>12. DetailPlan(q) # {}
      BY <3>11 DEF Covers
    <3>13. Meaning(caches[gen], l.q) = Meaning(caches[gen], q)
      BY <1>2, <1>5, <3>11, SharedMeaning
    <3>14. AsksRight(new, q, caches[gen], db, value)
      BY <1>5, <3>4, <3>8, <3>9, <3>12, <3>13 DEF AsksRight
    <3>15. ReaderRight(new, caches, db, value) /\ Waits(new, Cardinality(DOMAIN caches), loads')
      BY <3>5, <3>7, <3>8, <3>9, <3>14 DEF ReaderRight, Waits
    <3> QED BY <2>2, <2>4, <3>15
  <2> QED BY <2>3, <2>4
<1>10. reader' = [r \in Readers |-> reader'[r]]
  BY <1>4
<1>11. caches' = caches /\ db' = db /\ value' = value
  BY <1>4
<1> QED BY <1>1, <1>8, <1>9, <1>10, <1>11 DEF DetailInvOf

\* What is shown is what the name leads to.
LEMMA ShownRight ==
  ASSUME IsCatalog(start), NEW cat, IsGeneration(cat), NEW dat, NEW val, NEW rd, NEW q, rd.q = {q}, rd.at = "answered",
         AsksRight(rd, q, cat, dat, val), IsShown(rd), NEW g \in rd.goal, NEW t \in rd.got.text
  PROVE  Navigated(g, t)
<1> DEFINE m == Meaning(cat, q)
           ds == DialectAsked(q, PlanOf(q))
<1>1. /\ m.denoted = Denoted(cat, q) /\ m.facet = q.facet /\ m.plan = PlanOf(q) /\ m.kind = q.object.kind
  BY MeaningFields
<1>2. AnsweredRight(cat, dat, rd.since, val, m, ds, rd.got) /\ rd.got.out = "detail" /\ DetailPlan(q) # {} /\ GoalRight(rd.goal, q)
  BY DEF AsksRight, IsShown
<1> HIDE DEF m, ds
<1>3. PICK x, o : /\ rd.goal = {[name |-> x, object |-> o]}
                  /\ engine = "interbase" /\ o \in DOMAIN start.objects /\ o.kind \in {"table", "view", "procedure", "trigger"}
                  /\ q.object = [schema |-> Unqualified, kind |-> o.kind, name |-> o.name] /\ ~q.system
                  /\ q.facet \in {"ddl", "description", "source"}
                  /\ Folded[o.name] = Folded[x.name] /\ (x.quoted => o.name = x.name)
  BY <1>2 DEF GoalRight
<1>4. g = [name |-> x, object |-> o] /\ The(rd.goal) = g /\ g.name = x /\ g.object = o
  BY <1>3 DEF The
<1>5. PICK u : rd.got.text = {u} /\ TextRight(cat, dat, rd.since, val, m, ds, u)
  BY <1>2 DEF AnsweredRight
<1>6. PICK ob : rd.got.object = {ob} /\ ObjectRight(m, ob)
  BY <1>2 DEF AnsweredRight
<1>7. t = u /\ The(rd.got.text) = t /\ The(rd.q) = q
  BY <1>5 DEF The
<1>8. ob = q.object /\ (t.of.name = o.name \/ t.facet = "source" \/ (t.facet = "ddl" /\ x.by = "hover"))
  BY <1>4, <1>6, <1>7 DEF IsShown, Declares
<1>9. Denoted(cat, q) = {t.of} /\ t.facet = q.facet
  BY <1>1, <1>5, <1>7 DEF TextRight
<1>10. t.of \in Candidates(cat, q) /\ (t.of.name = q.object.name \/ Folded[t.of.name] = Folded[q.object.name])
  <2>1. t.of \in Denoted(cat, q)
    BY <1>9
  <2> QED BY <2>1 DEF Denoted
<1>11. q.object.name = o.name /\ q.object.kind = o.kind
  BY <1>3
<1>12. Folded[t.of.name] = Folded[x.name]
  BY <1>3, <1>10, <1>11
<1>13. t.of.kind = o.kind
  <2>1. CASE o.kind # "table"
    BY <1>3, <1>10, <1>11, <2>1, CandidateKinds DEF ServedSystem
  <2>2. CASE o.kind = "table"
    <3>1. q.facet # "columns" /\ ~ServedSystem(q)
      BY <1>3 DEF ServedSystem
    <3>2. t.of.kind \in {"table", "view"}
      BY <1>3, <1>10, <1>11, <2>2, <3>1, CandidateKinds
    <3>3. t.of.name = o.name
      <4>1. \/ q.facet = "description"
            \/ q.facet = "ddl" /\ PlanOf(q) = OfTable
        BY <1>2, <1>3, <1>11, <2>2, <3>1, InterBasePlans
      <4>2. CASE q.facet = "description"
        BY <1>8, <1>9, <4>2
      <4>3. CASE q.facet = "ddl" /\ PlanOf(q) = OfTable
        <5>1. \A d \in m.denoted : d.name = ob.name
          BY <1>1, <1>6, <4>3, PlanFields DEF ObjectRight
        <5> QED BY <1>1, <1>8, <1>9, <1>11, <5>1
      <4> QED BY <4>1, <4>2, <4>3
    <3>4. t.of \in DOMAIN start.objects
      BY <1>10, CandidatesDiffer DEF IsGeneration
    <3>5. t.of.schema = Unqualified /\ o.schema = Unqualified
      BY <1>3, <3>4 DEF IsCatalog, engine
    <3>6. {t.of.kind, o.kind} \subseteq {"table", "view", "system"}
      BY <2>2, <3>2
    <3>7. SameNames(t.of, o)
      BY <3>3, <3>5, <3>6 DEF SameNames
    <3> QED BY <1>3, <3>4, <3>7 DEF IsCatalog
  <2> QED BY <2>1, <2>2
<1> QED BY <1>3, <1>4, <1>8, <1>12, <1>13 DEF Navigated

LEMMA ShowStep ==
  ASSUME IsCatalog(start), DetailInvOf(caches, db, value, loads, reader), NEW r \in Readers, Show(r) \/ Leave(r)
  PROVE  DetailInvOf(caches', db', value', loads', reader')
<1> DEFINE rd == reader[r]
           shown == [rd EXCEPT !.at = "shown", !.got = IF IsShown(rd) THEN rd.got ELSE Error("nothing")]
<1>1. ReaderRight(rd, caches, db, value) /\ GenerationsRight(caches, db, value)
  BY DEF DetailInvOf
<1>2. UNCHANGED <<db, value, caches, loads>>
  BY DEF Show, Leave
<1>3. ReaderRight(NoReader, caches, db, value) /\ Waits(NoReader, gen, loads)
  BY ReaderFields DEF ReaderRight, Waits
<1>4. \/ reader' = [reader EXCEPT ![r] = NoReader]
      \/ rd.at = "answered" /\ reader' = [reader EXCEPT ![r] = shown]
  BY DEF Show, Leave, Becomes
<1>5. ASSUME rd.at = "answered" PROVE ReaderRight(shown, caches, db, value) /\ Waits(shown, gen, loads)
  <2>1. PICK q : rd.q = {q} /\ IsRequest(q) /\ rd.gen \in DOMAIN caches /\ AsksRight(rd, q, caches[rd.gen], db, value)
    BY <1>1, <1>5 DEF ReaderRight
  <2> DEFINE cat == caches[rd.gen]
  <2>2. IsGeneration(cat)
    BY <1>1, <2>1 DEF GenerationsRight
  <2>3. /\ IsReader(rd) /\ rd.since \in Nat /\ (rd.goal # {} => GoalRight(rd.goal, q))
        /\ AnsweredRight(cat, db, rd.since, value, Meaning(cat, q), DialectAsked(q, PlanOf(q)), rd.got)
        /\ rd.got.out = "detail" => DetailPlan(q) # {}
    BY <1>1, <1>5, <2>1 DEF ReaderRight, AsksRight
  <2>4. IsShown(rd) => \A g \in rd.goal, t \in rd.got.text : Navigated(g, t)
    BY <1>5, <2>1, <2>2, ShownRight
  <2> DEFINE got == IF IsShown(rd) THEN rd.got ELSE Error("nothing")
  <2>5. /\ AnsweredRight(cat, db, rd.since, value, Meaning(cat, q), DialectAsked(q, PlanOf(q)), got)
        /\ got.out = "detail" => DetailPlan(q) # {}
        /\ \A g \in rd.goal, t \in got.text : Navigated(g, t)
    BY <2>3, <2>4, ErrorRight, DetailFields
  <2> HIDE DEF rd, got
  <2>6. /\ IsReader(shown) /\ shown.at = "shown" /\ shown.q = rd.q /\ shown.gen = rd.gen /\ shown.since = rd.since
        /\ shown.got = got /\ shown.goal = rd.goal
    BY <2>3 DEF IsReader, got
  <2> HIDE DEF shown
  <2>7. AsksRight(shown, q, cat, db, value)
    BY <2>3, <2>5, <2>6 DEF AsksRight
  <2> QED BY <2>1, <2>3, <2>6, <2>7 DEF ReaderRight, Waits
<1> HIDE DEF rd, shown
<1> QED BY <1>2, <1>3, <1>4, <1>5, Moves

LEMMA NavigateStep ==
  ASSUME CatalogsAreWritten, IsCatalog(start), DetailInvOf(caches, db, value, loads, reader), NEW r \in Readers,
         NEW x \in start.names, NEW g \in DOMAIN caches, Navigate(r, x, g)
  PROVE  DetailInvOf(caches', db', value', loads', reader')
<1> DEFINE target == NavigationTarget(caches[g], x)
           o == The(target)
           q == DetailOf(o, "ddl", 3)
           goal == {[name |-> x, object |-> o]}
           shown == [NoReader EXCEPT !.at = "shown"]
<1>1. GenerationsRight(caches, db, value)
  BY DEF DetailInvOf
<1>2. engine = "interbase" /\ UNCHANGED <<db, value, caches, loads>>
  BY DEF Navigate
<1>3. reader' = [reader EXCEPT ![r] = IF target = {} THEN shown ELSE Planned(q, goal)]
  BY DEF Navigate, Becomes
<1>4. ReaderRight(shown, caches, db, value) /\ Waits(shown, gen, loads)
  <2>1. IsReader(shown) /\ shown.at = "shown" /\ shown.since = 0 /\ shown.q = {}
    BY ReaderFields DEF IsReader
  <2> HIDE DEF shown
  <2> QED BY <2>1 DEF ReaderRight, Waits
<1>5. ASSUME target # {} PROVE ReaderRight(Planned(q, goal), caches, db, value) /\ Waits(Planned(q, goal), gen, loads)
  <2>1. o \in NavigationTarget(caches[g], x)
    BY <1>5 DEF The
  <2> HIDE DEF o
  <2>2. o \in RelationByName(caches[g], x) \/ o \in ObjectByName(caches[g], x)
    BY <2>1 DEF NavigationTarget
  <2>3. \/ \E kind \in {"view", "procedure", "trigger"} : o \in CatalogNames(caches[g], kind, x)
        \/ o \in OfKind(caches[g], "table") /\ o.name = Spelled(x)
    BY <2>2 DEF RelationByName, ObjectByName
  <2>4. x.name \in DOMAIN Folded /\ Folded[Folded[x.name]] = Folded[x.name]
    BY DEF IsCatalog, CatalogsAreWritten
  <2>5. Folded[o.name] = Folded[x.name] /\ (x.quoted => o.name = x.name)
    BY <2>3, <2>4 DEF CatalogNames, Spelled
  <2>6. o \in DOMAIN caches[g] /\ o.kind \in {"table", "view", "procedure", "trigger"}
    BY <2>3 DEF CatalogNames, OfKind, There
  <2>7. o \in DOMAIN start.objects
    BY <1>1, <2>6 DEF GenerationsRight, IsGeneration
  <2>8. /\ q.object = [schema |-> Unqualified, kind |-> o.kind, name |-> o.name] /\ ~q.system /\ q.facet = "ddl" /\ IsRequest(q)
    BY DEF DetailOf, IsRequest
  <2> HIDE DEF q
  <2>9. GoalRight(goal, q)
    BY <1>2, <2>5, <2>6, <2>7, <2>8 DEF GoalRight
  <2>10. ReaderRight(Planned(q, goal), caches, db, value) /\ Planned(q, goal).at \in {"planned", "answered"}
    BY <1>1, <2>8, <2>9, PlannedRight
  <2> QED BY <2>10 DEF Waits
<1> HIDE DEF target, q, goal, shown
<1> QED BY <1>2, <1>3, <1>4, <1>5, Moves

LEMMA FallbackStep ==
  ASSUME IsCatalog(start), DetailInvOf(caches, db, value, loads, reader), NEW r \in Readers, Fallback(r)
  PROVE  DetailInvOf(caches', db', value', loads', reader')
<1> DEFINE rd == reader[r]
<1>1. ReaderRight(rd, caches, db, value) /\ GenerationsRight(caches, db, value)
  BY DEF DetailInvOf
<1>2. rd.at = "answered" /\ rd.goal # {} /\ UNCHANGED <<db, value, caches, loads>>
  BY DEF Fallback
<1>3. PICK q : rd.q = {q} /\ IsRequest(q) /\ rd.gen \in DOMAIN caches /\ AsksRight(rd, q, caches[rd.gen], db, value)
  BY <1>1, <1>2 DEF ReaderRight
<1>4. The(rd.q) = q
  BY <1>3 DEF The
<1> DEFINE other == [q EXCEPT !.facet = The(Substitute(q))]
<1>5. Substitute(q) # {} /\ reader' = [reader EXCEPT ![r] = Planned(other, rd.goal)]
  BY <1>4 DEF Fallback, Becomes
<1>6. The(Substitute(q)) \in {"description", "source"}
  <2>1. \A e : The({e}) = e
    BY DEF The
  <2> QED BY <1>5, <2>1 DEF Substitute
<1>7. GoalRight(rd.goal, q)
  BY <1>2, <1>3 DEF AsksRight
<1> HIDE DEF rd
<1>8. /\ IsRequest(other) /\ other.object = q.object /\ other.system = q.system /\ other.facet = The(Substitute(q))
  BY <1>3 DEF IsRequest
<1> HIDE DEF other
<1>9. GoalRight(rd.goal, other)
  BY <1>6, <1>7, <1>8 DEF GoalRight
<1>10. ReaderRight(Planned(other, rd.goal), caches, db, value) /\ Planned(other, rd.goal).at \in {"planned", "answered"}
  BY <1>1, <1>8, <1>9, PlannedRight
<1>11. Waits(Planned(other, rd.goal), gen, loads)
  BY <1>10 DEF Waits
<1> QED BY <1>2, <1>5, <1>10, <1>11, Moves

\* The database changes, or a generator is drawn from.
LEMMA ChangeStep ==
  ASSUME IsCatalog(start), DetailInvOf(caches, db, value, loads, reader), Draw \/ \E o \in DOMAIN db : Change(o)
  PROVE  DetailInvOf(caches', db', value', loads', reader')
<1>1. GenerationsRight(caches, db, value) /\ value \in Nat
  BY DEF DetailInvOf, GenerationsRight
<1>2. \A o \in DOMAIN db : db[o].version \in Nat
  BY <1>1, Current DEF VersionsGrow
<1>3. VersionsGrow(db, db')
  <2>1. CASE Draw
    BY <1>2, <2>1 DEF Draw, VersionsGrow
  <2>2. ASSUME NEW o \in DOMAIN db, Change(o) PROVE VersionsGrow(db, db')
    <3>1. PICK there : db' = [db EXCEPT ![o] = [there |-> there, version |-> @.version + 1]]
      BY <2>2 DEF Change
    <3>2. DOMAIN db' = DOMAIN db /\ \A p \in DOMAIN db : db'[p].version = IF p = o THEN db[o].version + 1 ELSE db[p].version
      BY <3>1
    <3> QED BY <1>2, <3>2 DEF VersionsGrow
  <2> QED BY <2>1, <2>2
<1>4. value' \in Nat /\ value <= value' /\ UNCHANGED <<caches, loads, reader>>
  BY <1>1 DEF Draw, Change
<1>5. DetailInvOf(caches, db', value', loads, reader)
  BY <1>3, <1>4, InvGrows
<1> QED BY <1>4, <1>5

\* A new generation: who waited is told, and the older ones are as they were.
LEMMA RefreshStep ==
  ASSUME IsCatalog(start), DetailInvOf(caches, db, value, loads, reader), Refresh
  PROVE  DetailInvOf(caches', db', value', loads', reader')
<1>1. GenerationsRight(caches, db, value) /\ value \in Nat /\ reader = [r \in Readers |-> reader[r]]
  BY DEF DetailInvOf, GenerationsRight
<1>2. gen \in Nat \ {0} /\ DOMAIN caches = 1..gen /\ IsGeneration(caches[gen]) /\ VersionsGrow(caches[gen], db)
  BY <1>1, Current DEF gen, Newest
<1> DEFINE fenced(rd) == Answered(rd, Error("stale"))
<1>3. /\ caches' = [g \in 1..(gen + 1) |-> IF g <= gen THEN caches[g] ELSE db] /\ loads' = {} /\ db' = db /\ value' = value
      /\ reader' = [r \in Readers |-> IF reader[r].at = "waiting" THEN fenced(reader[r]) ELSE reader[r]]
  BY DEF Refresh
<1>4. \A g \in DOMAIN caches : g \in DOMAIN caches' /\ caches'[g] = caches[g]
  BY <1>2, <1>3
<1>5. IsGeneration(db) /\ VersionsGrow(db, db)
  BY <1>2 DEF IsGeneration, VersionsGrow
<1>6. GenerationsRight(caches', db, value)
  <2>1. gen + 1 \in Nat \ {0} /\ DOMAIN caches' = 1..(gen + 1)
    BY <1>2, <1>3
  <2>2. ASSUME NEW g \in DOMAIN caches' PROVE IsGeneration(caches'[g]) /\ VersionsGrow(caches'[g], db)
    <3>1. CASE g <= gen
      <4>1. g \in DOMAIN caches
        BY <1>2, <2>1, <3>1
      <4> QED BY <1>1, <1>4, <4>1 DEF GenerationsRight
    <3>2. CASE ~(g <= gen)
      <4>1. caches'[g] = db
        BY <1>3, <2>1, <3>2
      <4> QED BY <1>5, <4>1
    <3> QED BY <3>1, <3>2
  <2> QED BY <1>1, <2>1, <2>2 DEF GenerationsRight
<1>7. ASSUME NEW r \in Readers PROVE ReaderRight(reader'[r], caches', db, value) /\ reader'[r].at # "waiting"
  <2> DEFINE rd == reader[r]
             new == fenced(rd)
  <2>1. ReaderRight(rd, caches, db, value)
    BY DEF DetailInvOf
  <2>2. reader'[r] = IF rd.at = "waiting" THEN new ELSE rd
    BY <1>3
  <2>3. IsReader(rd) /\ rd.since \in Nat
    BY <2>1 DEF ReaderRight
  <2>4. /\ IsReader(new) /\ new.at = "answered" /\ new.q = rd.q /\ new.gen = rd.gen /\ new.since = rd.since
        /\ new.got = Error("stale") /\ new.goal = rd.goal
    BY <2>3, ReaderFields
  <2> HIDE DEF rd, new
  <2>5. CASE rd.at # "waiting"
    <3>1. ReaderRight(rd, caches', db, value)
      BY <1>4, <2>1 DEF ReaderRight
    <3> QED BY <2>2, <2>5, <3>1
  <2>6. CASE rd.at = "waiting"
    <3>1. rd.q # {}
      BY <2>1, <2>6 DEF ReaderRight
    <3>2. PICK q : rd.q = {q} /\ IsRequest(q) /\ rd.gen \in DOMAIN caches /\ AsksRight(rd, q, caches[rd.gen], db, value)
      BY <2>1, <3>1 DEF ReaderRight
    <3>3. rd.goal # {} => GoalRight(rd.goal, q)
      BY <3>2 DEF AsksRight
    <3> DEFINE cat == caches'[rd.gen]
    <3>4. AnsweredRight(cat, db, rd.since, value, Meaning(cat, q), DialectAsked(q, PlanOf(q)), Error("stale"))
      BY ErrorRight
    <3>5. AsksRight(new, q, cat, db, value)
      BY <2>4, <3>3, <3>4, DetailFields DEF AsksRight
    <3>6. ReaderRight(new, caches', db, value)
      BY <1>4, <2>3, <2>4, <3>2, <3>5 DEF ReaderRight
    <3> QED BY <2>2, <2>4, <2>6, <3>6
  <2> QED BY <2>5, <2>6
<1>8. reader' = [r \in Readers |-> reader'[r]]
  BY <1>3
<1>9. DetailInvOf(caches', db, value, {}, reader')
  BY <1>6, <1>7, <1>8 DEF DetailInvOf, Waits
<1> QED BY <1>3, <1>9

LEMMA DetailStarts ==
  ASSUME CatalogsAreWritten, DetailInit
  PROVE  DetailInv
<1>1. IsCatalog(start) /\ start \in Catalogs
  BY DEF CatalogsAreWritten, DetailInit
<1>2. db = start.objects /\ value = 1 /\ caches = [g \in {1} |-> db] /\ loads = {} /\ reader = [r \in Readers |-> NoReader]
  BY DEF DetailInit
<1>3. IsGeneration(db) /\ VersionsGrow(db, db)
  BY <1>1, <1>2 DEF IsGeneration, VersionsGrow, IsCatalog
<1>4. GenerationsRight(caches, db, value)
  <2>1. DOMAIN caches = 1..1 /\ \A g \in DOMAIN caches : caches[g] = db
    BY <1>2
  <2> QED BY <1>2, <1>3, <2>1 DEF GenerationsRight
<1>5. ReaderRight(NoReader, caches, db, value) /\ NoReader.at # "waiting"
  BY ReaderFields DEF ReaderRight
<1>6. DetailInvOf(caches, db, value, loads, reader)
  BY <1>2, <1>4, <1>5 DEF DetailInvOf, Waits
<1> QED BY <1>1, <1>6 DEF DetailInv

LEMMA DetailStep ==
  ASSUME CatalogsAreWritten, DetailInv, [DetailNext]_detailVars
  PROVE  DetailInv'
<1>1. IsCatalog(start) /\ start \in Catalogs /\ DetailInvOf(caches, db, value, loads, reader)
  BY DEF DetailInv, CatalogsAreWritten
<1>2. start' = start
  BY DEF DetailNext, detailVars, Ask, Navigate, Acquire, Answer, Fallback, Show, Leave, LoadReturns, Settle, Change, Draw, Refresh
<1>3. DetailInvOf(caches', db', value', loads', reader')
  <2>1. CASE UNCHANGED detailVars
    BY <1>1, <2>1 DEF detailVars
  <2>2. ASSUME NEW r \in Readers, NEW q \in start.asks, Ask(r, q) PROVE DetailInvOf(caches', db', value', loads', reader')
    BY <1>1, <2>2, AskStep
  <2>3. ASSUME NEW r \in Readers, NEW x \in start.names, NEW g \in DOMAIN caches, Navigate(r, x, g)
        PROVE  DetailInvOf(caches', db', value', loads', reader')
    BY <1>1, <2>3, NavigateStep
  <2>4. ASSUME NEW r \in Readers, Acquire(r) PROVE DetailInvOf(caches', db', value', loads', reader')
    BY <1>1, <2>4, AcquireStep
  <2>5. ASSUME NEW r \in Readers, Answer(r) PROVE DetailInvOf(caches', db', value', loads', reader')
    BY <1>1, <2>5, AnswerStep
  <2>6. ASSUME NEW r \in Readers, Fallback(r) PROVE DetailInvOf(caches', db', value', loads', reader')
    BY <1>1, <2>6, FallbackStep
  <2>7. ASSUME NEW r \in Readers, Show(r) \/ Leave(r) PROVE DetailInvOf(caches', db', value', loads', reader')
    BY <1>1, <2>7, ShowStep
  <2>8. ASSUME NEW l \in loads, LoadReturns(l) PROVE DetailInvOf(caches', db', value', loads', reader')
    BY <1>1, <2>8, LoadReturnsStep
  <2>9. ASSUME NEW l \in loads, Settle(l) PROVE DetailInvOf(caches', db', value', loads', reader')
    BY <1>1, <2>9, SettleStep
  <2>10. ASSUME Draw \/ \E o \in DOMAIN db : Change(o) PROVE DetailInvOf(caches', db', value', loads', reader')
    BY <1>1, <2>10, ChangeStep
  <2>11. CASE Refresh
    BY <1>1, <2>11, RefreshStep
  <2> QED BY <2>1, <2>2, <2>3, <2>4, <2>5, <2>6, <2>7, <2>8, <2>9, <2>10, <2>11 DEF DetailNext
<1>4. ASSUME NEW cs, NEW dat, NEW val, NEW ls, NEW rds,
             cs = caches' /\ dat = db' /\ val = value' /\ ls = loads' /\ rds = reader'
      PROVE  DetailInvOf(cs, dat, val, ls, rds)'
  <2>1. DetailInvOf(cs, dat, val, ls, rds)
    BY <1>3, <1>4
  <2> QED BY <1>2, <2>1, InvStays
<1> QED BY <1>1, <1>2, <1>4 DEF DetailInv

LEMMA DetailInvImplies ==
  ASSUME CatalogsAreWritten, DetailInv
  PROVE  DetailsAreOfTheObject
<1>1. IsCatalog(start) /\ DetailInvOf(caches, db, value, loads, reader)
  BY DEF DetailInv, CatalogsAreWritten
<1> SUFFICES ASSUME NEW r \in Readers, reader[r].at \in {"answered", "shown"}, reader[r].q # {}
             PROVE  LET q == The(reader[r].q) IN
                    /\ reader[r].got.out = "detail" =>
                         /\ \A t \in reader[r].got.text : TextOf(reader[r], q, t)
                         /\ \A o \in reader[r].got.object : Folded[o.name] = Folded[q.object.name] /\ o.kind = q.object.kind
                         /\ reader[r].at = "shown" => \A g \in reader[r].goal, t \in reader[r].got.text : Navigated(g, t)
                    /\ reader[r].got.out = "missing" /\ PlanOf(q).load # "live" => Denoted(caches[reader[r].gen], q) = {}
                    /\ reader[r].got.out = "ambiguous" => Denoted(caches[reader[r].gen], q) = {}
  BY DEF DetailsAreOfTheObject
<1> DEFINE rd == reader[r]
<1>2. ReaderRight(rd, caches, db, value)
  BY <1>1 DEF DetailInvOf
<1>3. PICK q : rd.q = {q} /\ IsRequest(q) /\ rd.gen \in DOMAIN caches /\ AsksRight(rd, q, caches[rd.gen], db, value)
  BY <1>2 DEF ReaderRight
<1>4. The(rd.q) = q
  BY <1>3 DEF The
<1> DEFINE cat == caches[rd.gen]
           m == Meaning(cat, q)
           ds == DialectAsked(q, PlanOf(q))
<1>5. /\ m.engine = engine /\ m.denoted = Denoted(cat, q) /\ m.fold = Folded[q.object.name] /\ m.kind = q.object.kind
      /\ m.facet = q.facet /\ m.plan = PlanOf(q)
  BY MeaningFields
<1>6. AnsweredRight(cat, db, rd.since, value, m, ds, rd.got) /\ (rd.at = "shown" => \A g \in rd.goal, t \in rd.got.text : Navigated(g, t))
  BY <1>3 DEF AsksRight
<1> HIDE DEF m
<1>7. rd.got.out = "detail" => \A t \in rd.got.text : TextOf(rd, q, t)
  <2>1. ASSUME NEW t, TextRight(cat, db, rd.since, value, m, ds, t) PROVE TextOf(rd, q, t)
    BY <1>5, <2>1 DEF TextRight, TextOf
  <2> QED BY <1>6, <2>1 DEF AnsweredRight
<1>8. rd.got.out = "detail" => \A o \in rd.got.object : Folded[o.name] = Folded[q.object.name] /\ o.kind = q.object.kind
  BY <1>5, <1>6 DEF AnsweredRight, ObjectRight
<1>9. /\ rd.got.out = "missing" /\ PlanOf(q).load # "live" => Denoted(cat, q) = {}
      /\ rd.got.out = "ambiguous" => Denoted(cat, q) = {}
  BY <1>5, <1>6 DEF AnsweredRight, RefusedRight
<1> QED BY <1>4, <1>6, <1>7, <1>8, <1>9

\* For whatever a store starts on, whoever asks, and however many generations: a
\* detail is of the object its request denotes, in the facet and the dialect asked for
\* and as its generation has it, nothing but what means the same is shared, and what
\* Definition goes to is what the name leads to.
THEOREM DetailsAreOfWhatIsAsked == DetailSpec => []DetailsAreOfTheObject
<1>1. DetailInit => DetailInv
  BY DetailStarts, DetailAssumption
<1>2. DetailInv /\ [DetailNext]_detailVars => DetailInv'
  BY DetailStep, DetailAssumption
<1>3. DetailInv => DetailsAreOfTheObject
  BY DetailInvImplies, DetailAssumption
<1> QED BY <1>1, <1>2, <1>3, PTL DEF DetailSpec


-----------------------------------------------------------------------------
(* The descriptors.  Nullable values first.                                *)

LEMMA ValueOfOne == \A v, none : Value({v}, none) = v
  BY DEF Value
LEMMA ValueOfNone == \A none : Value({}, none) = none
  BY DEF Value
LEMMA SignOfOne == \A n \in Int : (Positive({n}) <=> n > 0) /\ (Negative({n}) <=> n < 0)
  BY DEF Positive, Negative
LEMMA SignOfNone == ~Positive({}) /\ ~Negative({})
  BY DEF Positive, Negative

LEMMA NumberOf ==
  ASSUME NEW x, NEW n \in Int, x = {n}
  PROVE  Value(x, 0) = n /\ (Positive(x) <=> n > 0) /\ (Negative(x) <=> n < 0)
BY ValueOfOne, SignOfOne
LEMMA SubtypeOf ==
  ASSUME NEW x, x = {1} \/ x = {2}
  PROVE  Value(x, 0) # 0 /\ Positive(x)
BY NumberOf

-----------------------------------------------------------------------------
(* How a declared type is shown.                                           *)

\* The codes the type switch tells apart.
LEMMA OtherCodes == /\ 27 # 7 /\ 27 # 8 /\ 27 # 16 /\ 27 # 35
                    /\ \A x \in Range(CharacterCode) : x # 7 /\ x # 8 /\ x # 16 /\ x # 27
  BY DEF Range, CharacterCode

IsClear(x) == x = {} \/ x = {0}
IsLabel(t) == t = [base |-> t.base, args |-> t.args, charset |-> t.charset, collation |-> t.collation]

LEMMA FixedTypes ==
  ASSUME NEW t, NEW dialect, t.base \in Fixed, IsType(t, dialect)
  PROVE  /\ t.args[1] \in 1..18 /\ (dialect = 1 => t.args[1] <= 15) /\ t.args[2] \in 0..t.args[1]
         /\ t.args = <<t.args[1], t.args[2]>>
<1>1. t.base \notin Characters
  BY DEF Fixed, Characters
<1>2. t.base \notin PlainBases(dialect)
  BY DEF Fixed, PlainCode, PlainBases
<1>3. t.args \in Seq(Nat) /\ Len(t.args) = 2 /\ t.args[1] \in Digits(dialect) /\ t.args[2] \in 0..t.args[1]
  BY <1>1, <1>2, Zenon DEF IsType
<1>4. t.args[1] \in 1..18 /\ (dialect = 1 => t.args[1] <= 15)
  <2>1. CASE dialect = 1
    <3>1. Digits(dialect) = 1..15 BY <2>1 DEF Digits
    <3>2. t.args[1] \in 1..15 BY <3>1, <1>3
    <3> QED BY <3>2
  <2>2. CASE dialect # 1
    <3>1. Digits(dialect) = 1..18 BY <2>2 DEF Digits
    <3> QED BY <3>1, <2>2, <1>3
  <2> QED BY <2>1, <2>2
<1> QED BY <1>3, <1>4

\* The row of a number of base, with precision p and scale s, and how it is shown.
IsNumber(f, base, code, p, s, known) ==
  /\ base \in Fixed /\ code \in {7, 8, 16, 27} /\ p \in Nat /\ s \in Nat /\ p > 0
  /\ (code = 7 => p <= 4) /\ (code = 8 => p <= 9) /\ (code = 16 => p <= 18) /\ (code = 27 => p <= 15)
  /\ f.type = {code} /\ f.scale = {-s} /\ f.subtype = {IF base = "NUMERIC" THEN 1 ELSE 2}
  /\ (known => f.precision = {p}) /\ (~known => IsClear(f.precision))
ShowsNumber(t, base, code, p, s, known) ==
  \/ t = Label(base, <<p, s>>)
  \/ ~known /\ \E natural \in Nat : natural >= p /\ t = Label(base, <<natural, s>>)
  \/ ~known /\ code = 27 /\ s = 0 /\ t = Label("DOUBLE PRECISION", <<>>)

LEMMA NumberShown ==
  ASSUME NEW f, NEW dialect, NEW base, NEW code, NEW p, NEW s, NEW known \in BOOLEAN,
         IsNumber(f, base, code, p, s, known), NEW t \in TypeName({f}, dialect)
  PROVE  ShowsNumber(t, base, code, p, s, known)
<1> base \in Fixed /\ code \in {7, 8, 16, 27} /\ p \in Nat /\ s \in Nat /\ p > 0
  BY DEF IsNumber
<1> (code = 7 => p <= 4) /\ (code = 8 => p <= 9) /\ (code = 16 => p <= 18) /\ (code = 27 => p <= 15)
  BY DEF IsNumber
<1> f.type = {code} /\ f.scale = {-s} /\ f.subtype = {IF base = "NUMERIC" THEN 1 ELSE 2}
  BY DEF IsNumber
<1> (known => f.precision = {p}) /\ (~known => IsClear(f.precision))
  BY DEF IsNumber
<1> SUFFICES \/ t = Label(base, <<p, s>>)
             \/ ~known /\ \E natural \in Nat : natural >= p /\ t = Label(base, <<natural, s>>)
             \/ ~known /\ code = 27 /\ s = 0 /\ t = Label("DOUBLE PRECISION", <<>>)
  BY DEF ShowsNumber
<1>1. Value(f.type, 0) = code
  BY ValueOfOne
<1>2. code # 35
  OBVIOUS
<1>3. f.type # {35}
  <2>1. code \in f.type
    OBVIOUS
  <2> QED BY <2>1, <1>2
<1>4. code \notin Range(CharacterCode) /\ code \in DOMAIN BaseNames
  BY DEF Range, CharacterCode, BaseNames
<1>5. Value(f.subtype, 0) # 0 /\ Positive(f.subtype)
  <2>1. f.subtype = {1} \/ f.subtype = {2}
    OBVIOUS
  <2> QED BY <2>1, SubtypeOf
<1>6. IsFixed(f)
  BY <1>5 DEF IsFixed
<1>7. FixedName(f) = base
  BY DEF FixedName, Fixed
<1>8. Value(f.scale, 0) = -s /\ (Negative(f.scale) <=> s > 0)
  <2>1. -s \in Int /\ (-s < 0 <=> s > 0)
    OBVIOUS
  <2> QED BY <2>1, NumberOf
<1>9. Scale(f) = s
  BY <1>8 DEF Scale
<1>10. t = IF SQLType(f) # RefusedType THEN SQLType(f) ELSE ColumnType(f)
  BY <1>3, ValueOfOne DEF TypeName
<1>11. CASE known
  <2>1. Positive(f.precision) /\ Value(f.precision, 0) = p
    BY <1>11, NumberOf
  <2>2. SQLType(f) = Label(base, <<p, s>>)
    BY <2>1, <1>1, <1>4, <1>6, <1>7, <1>9 DEF SQLType
  <2>3. Label(base, <<p, s>>) # RefusedType
    BY DEF RefusedType, Label, Fixed
  <2> QED BY <2>2, <2>3, <1>10
<1>12. CASE ~known
  <2>1. ~Positive(f.precision)
    BY <1>12, SignOfOne, SignOfNone DEF IsClear
  <2>2. SQLType(f) = RefusedType
    BY <2>1, <1>1, <1>4, <1>6 DEF SQLType
  <2>3. t = ColumnType(f)
    BY <2>2, <1>10
  <2>4. \A b, natural : NumericType(b, natural, f) = Label(base, <<natural, s>>)
    BY <2>1, <1>5, <1>7, <1>9 DEF NumericType
  <2>5. CASE code = 7
    <3>1. t = Label(base, <<4, s>>) BY <2>5, <2>3, <2>4, <1>1 DEF ColumnType
    <3> QED BY <3>1, <2>5, <1>12
  <2>6. CASE code = 8
    <3>1. t = Label(base, <<9, s>>) BY <2>6, <2>3, <2>4, <1>1 DEF ColumnType
    <3> QED BY <3>1, <2>6, <1>12
  <2>7. CASE code = 16
    <3>1. t = Label(base, <<18, s>>) BY <2>7, <2>3, <2>4, <1>1 DEF ColumnType
    <3> QED BY <3>1, <2>7, <1>12
  <2>8. CASE code = 27 /\ s > 0
    <3>1. Negative(f.scale) BY <2>8, <1>8
    <3>2. Value(f.type, 0) = 27 BY <2>8, <1>1
    <3>3. ColumnType(f) = NumericType("DOUBLE PRECISION", 15, f) BY <3>1, <3>2, OtherCodes, Zenon DEF ColumnType
    <3>4. t = Label(base, <<15, s>>) BY <3>3, <2>3, <2>4, Zenon
    <3> QED BY <3>4, <2>8, <1>12
  <2>9. CASE code = 27 /\ s = 0
    <3>1. ~Negative(f.scale) BY <2>9, <1>8
    <3>2. Value(f.type, 0) = 27 BY <2>9, <1>1
    <3>3. BaseNames[27] = "DOUBLE PRECISION" BY DEF BaseNames
    <3>4. ColumnType(f) = Label(BaseNames[27], <<>>) BY <3>1, <3>2, <1>4, <2>9, OtherCodes DEF ColumnType
    <3>5. t = Label("DOUBLE PRECISION", <<>>) BY <3>3, <3>4, <2>3, Zenon
    <3> QED BY <3>5, <2>9, <1>12
  <2>10. code = 7 \/ code = 8 \/ code = 16 \/ (code = 27 /\ s > 0) \/ (code = 27 /\ s = 0)
    OBVIOUS
  <2> QED BY <2>5, <2>6, <2>7, <2>8, <2>9, <2>10, Zenon
<1> QED BY <1>11, <1>12

LEMMA PairRenders ==
  ASSUME NEW label, NEW d, NEW dialect, NEW p \in Nat, NEW q \in Nat, NEW s \in Nat, label.base = d.type.base,
         d.type.args = <<p, s>>, label.args = <<q, s>>, q >= p, d.recorded => q = p
  PROVE  Renders(label, d, dialect)
<1>1. Len(label.args) = 2 /\ Len(d.type.args) = 2 /\ DOMAIN label.args = 1..2
  OBVIOUS
<1>2. /\ label.args[1] = q /\ d.type.args[1] = p
      /\ label.args[2] = s /\ d.type.args[2] = s
  OBVIOUS
<1>3. \A i \in DOMAIN label.args : IF i = 1 THEN label.args[i] >= d.type.args[i] ELSE label.args[i] = d.type.args[i]
  BY <1>1, <1>2
<1> QED BY <1>1, <1>3 DEF Renders
LEMMA OneRenders ==
  ASSUME NEW label, NEW d, NEW dialect, NEW p \in Nat, NEW q \in Nat, label.base = d.type.base,
         d.type.args = <<p>>, label.args = <<q>>, q >= p, d.recorded => q = p
  PROVE  Renders(label, d, dialect)
<1>1. Len(label.args) = 1 /\ Len(d.type.args) = 1 /\ DOMAIN label.args = 1..1
  OBVIOUS
<1>2. label.args[1] = q /\ d.type.args[1] = p
  OBVIOUS
<1>3. \A i \in DOMAIN label.args : IF i = 1 THEN label.args[i] >= d.type.args[i] ELSE label.args[i] = d.type.args[i]
  BY <1>1, <1>2
<1> QED BY <1>1, <1>3 DEF Renders
LEMMA BareRenders ==
  ASSUME NEW label, NEW d, NEW dialect, label.base = d.type.base, label.args = <<>>, d.type.args = <<>>
  PROVE  Renders(label, d, dialect)
<1>1. Len(label.args) = 0 /\ Len(d.type.args) = 0 /\ DOMAIN label.args = {}
  OBVIOUS
<1> QED BY <1>1 DEF Renders
LEMMA LabelSays ==
  \A b, a : IsLabel(Label(b, a)) /\ Label(b, a).base = b /\ Label(b, a).args = a
BY DEF Label, IsLabel

LEMMA FixedRenders ==
  ASSUME NEW d, NEW name, NEW dialect, d.type.base \in Fixed,
         IsType(d.type, dialect), IsClear(d.clear), d.recorded \in BOOLEAN,
         NEW t \in TypeName({Field(name, d, dialect)}, dialect)
  PROVE  IsLabel(t) /\ Renders(t, d, dialect)
<1> DEFINE f == Field(name, d, dialect)
           p == d.type.args[1]
           s == d.type.args[2]
           code == TypeCode(d.type, dialect)
<1>1. /\ p \in 1..18 /\ (dialect = 1 => p <= 15) /\ s \in 0..p
      /\ d.type.args = <<p, s>>
  BY FixedTypes
<1>2. p \in Nat /\ p > 0 /\ s \in Nat
  BY <1>1
<1>3. code \in {7, 8, 16, 27}
  BY DEF TypeCode
<1>4. (code = 7 => p <= 4) /\ (code = 8 => p <= 9) /\ (code = 16 => p <= 18) /\ (code = 27 => p <= 15)
  BY <1>1, <1>2 DEF TypeCode
<1>5. f.type = {code} /\ f.scale = {-s} /\ f.subtype = {IF d.type.base = "NUMERIC" THEN 1 ELSE 2}
  BY DEF Field
<1>6. (d.recorded => f.precision = {p}) /\ (~d.recorded => IsClear(f.precision))
  BY DEF Field, IsClear
<1>7. IsNumber(f, d.type.base, code, p, s, d.recorded)
  <2> HIDE DEF f, p, s, code
  <2> QED BY <1>2, <1>3, <1>4, <1>5, <1>6 DEF IsNumber
<1>8. ShowsNumber(t, d.type.base, code, p, s, d.recorded)
  BY <1>7, NumberShown
<1>9. CASE t = Label(d.type.base, <<p, s>>)
  BY <1>1, <1>2, <1>9, LabelSays, PairRenders
<1>10. CASE ~d.recorded /\ \E natural \in Nat : natural >= p /\ t = Label(d.type.base, <<natural, s>>)
  <2>1. PICK natural \in Nat : natural >= p /\ t = Label(d.type.base, <<natural, s>>)
    BY <1>10
  <2> QED BY <1>1, <1>2, <1>10, <2>1, LabelSays, PairRenders
<1>11. CASE ~d.recorded /\ code = 27 /\ s = 0 /\ t = Label("DOUBLE PRECISION", <<>>)
  BY <1>11 DEF Renders, IsLabel, Label
<1> QED BY <1>8, <1>9, <1>10, <1>11 DEF ShowsNumber

\* The row of a text of base, with length n, and how it is shown.
IsCharacters(f, base, n, known) ==
  /\ base \in Characters /\ n \in Nat /\ f.type = {CharacterCode[base]} /\ f.length = {3 * n}
  /\ (known => f.characters = {n}) /\ (~known => f.characters = {})
ShowsCharacters(t, f, base, n, known) ==
  \/ t = [base |-> base, args |-> <<n>>, charset |-> f.charset, collation |-> f.collation]
  \/ ~known /\ t = Label(base, <<3 * n>>)

LEMMA TextShown ==
  ASSUME NEW f, NEW dialect, NEW base, NEW n, NEW known \in BOOLEAN,
         IsCharacters(f, base, n, known), NEW t \in TypeName({f}, dialect)
  PROVE  ShowsCharacters(t, f, base, n, known)
<1> base \in Characters /\ n \in Nat /\ f.type = {CharacterCode[base]} /\ f.length = {3 * n}
  BY DEF IsCharacters
<1> (known => f.characters = {n}) /\ (~known => f.characters = {})
  BY DEF IsCharacters
<1> SUFFICES \/ t = [base |-> base, args |-> <<n>>, charset |-> f.charset, collation |-> f.collation]
             \/ ~known /\ t = Label(base, <<3 * n>>)
  BY DEF ShowsCharacters
<1>1. CharacterCode[base] \in Range(CharacterCode) /\ CharacterCode[base] # 35
  BY DEF Range, CharacterCode, Characters
<1>2. Value(f.type, 0) = CharacterCode[base]
  BY ValueOfOne
<1>3. f.type # {35}
  <2>1. CharacterCode[base] \in f.type
    OBVIOUS
  <2> QED BY <2>1, <1>1
<1>4. CharacterName(CharacterCode[base]) = base
  BY DEF CharacterName, CharacterCode, Characters
<1>5. t = IF SQLType(f) # RefusedType THEN SQLType(f) ELSE ColumnType(f)
  BY <1>3, ValueOfOne DEF TypeName
<1>6. CASE known
  <2>1. f.characters # {} /\ Value(f.characters, 0) = n
    BY <1>6, ValueOfOne
  <2>2. SQLType(f) = [base |-> base, args |-> <<n>>, charset |-> f.charset, collation |-> f.collation]
    BY <2>1, <1>1, <1>2, <1>4, Zenon DEF SQLType
  <2>3. base # "refused"
    BY DEF Characters
  <2>4. SQLType(f) # RefusedType
    BY <2>2, <2>3 DEF RefusedType
  <2> QED BY <2>2, <2>4, <1>5
<1>7. CASE ~known
  <2>1. SQLType(f) = RefusedType
    BY <1>1, <1>2, <1>7, Zenon DEF SQLType
  <2>2. CharacterLength(f) = 3 * n
    BY <1>7, ValueOfOne, ValueOfNone DEF CharacterLength
  <2>3. ColumnType(f) = Label(base, <<3 * n>>)
    BY <2>2, <1>1, <1>2, <1>4, OtherCodes, Zenon DEF ColumnType
  <2> QED BY <2>1, <2>3, <1>5, <1>7
<1> QED BY <1>6, <1>7

LEMMA CharacterTypes ==
  ASSUME NEW t, NEW dialect, t.base \in Characters, IsType(t, dialect)
  PROVE  t.base \notin Fixed /\ t.args[1] \in Nat /\ t.args = <<t.args[1]>>
<1>1. t.base \notin Fixed
  BY DEF Fixed, Characters
<1>2. t.base \notin PlainBases(dialect)
  BY DEF Characters, PlainCode, PlainBases
<1>3. t.args \in Seq(Nat) /\ Len(t.args) = 1
  BY <1>1, <1>2, Zenon DEF IsType
<1> QED BY <1>1, <1>3

LEMMA CharactersRender ==
  ASSUME NEW d, NEW name, NEW dialect, d.type.base \in Characters,
         IsType(d.type, dialect), d.recorded \in BOOLEAN,
         NEW t \in TypeName({Field(name, d, dialect)}, dialect)
  PROVE  IsLabel(t) /\ Renders(t, d, dialect)
<1> DEFINE f == Field(name, d, dialect)
           n == d.type.args[1]
<1>1. d.type.base \notin Fixed /\ n \in Nat /\ d.type.args = <<n>>
  BY CharacterTypes
<1>2. f.type = {CharacterCode[d.type.base]}
  BY <1>1, Zenon DEF Field, TypeCode
<1>3. f.length = {3 * n}
  BY DEF Field
<1>4. (d.recorded => f.characters = {n}) /\ (~d.recorded => f.characters = {})
  BY DEF Field
<1>5. IsCharacters(f, d.type.base, n, d.recorded)
  <2> HIDE DEF f, n
  <2> QED BY <1>1, <1>2, <1>3, <1>4 DEF IsCharacters
<1>6. ShowsCharacters(t, f, d.type.base, n, d.recorded)
  BY <1>5, TextShown
<1>7. CASE t = [base |-> d.type.base, args |-> <<n>>, charset |-> f.charset, collation |-> f.collation]
  <2> HIDE DEF f, n
  <2>1. IsLabel(t) /\ t.base = d.type.base /\ t.args = <<n>>
    BY <1>7 DEF IsLabel
  <2> QED BY <2>1, <1>1, OneRenders
<1>8. CASE ~d.recorded /\ t = Label(d.type.base, <<3 * n>>)
  <2> HIDE DEF n
  <2>1. 3 * n \in Nat /\ 3 * n >= n
    BY <1>1
  <2> QED BY <2>1, <1>1, <1>8, LabelSays, OneRenders
<1> QED BY <1>6, <1>7, <1>8 DEF ShowsCharacters

LEMMA PlainTypes ==
  ASSUME NEW t, NEW dialect, t.base \notin Characters, t.base \notin Fixed, IsType(t, dialect)
  PROVE  t.base \in PlainBases(dialect) /\ t.args = <<>>
BY Zenon DEF IsType

LEMMA NameOf7 == 7 \in DOMAIN BaseNames /\ BaseNames[7] = "SMALLINT"
  BY DEF BaseNames
LEMMA NameOf8 == 8 \in DOMAIN BaseNames /\ BaseNames[8] = "INTEGER"
  BY DEF BaseNames
LEMMA NameOf10 == 10 \in DOMAIN BaseNames /\ BaseNames[10] = "FLOAT"
  BY DEF BaseNames
LEMMA NameOf12 == 12 \in DOMAIN BaseNames /\ BaseNames[12] = "DATE"
  BY DEF BaseNames
LEMMA NameOf16 == 16 \in DOMAIN BaseNames /\ BaseNames[16] = "BIGINT"
  BY DEF BaseNames
LEMMA NameOf17 == 17 \in DOMAIN BaseNames /\ BaseNames[17] = "BOOLEAN"
  BY DEF BaseNames
LEMMA NameOf27 == 27 \in DOMAIN BaseNames /\ BaseNames[27] = "DOUBLE PRECISION"
  BY DEF BaseNames
LEMMA NameOf35 == 35 \in DOMAIN BaseNames /\ BaseNames[35] = "TIMESTAMP"
  BY DEF BaseNames
LEMMA NameOf261 == 261 \in DOMAIN BaseNames /\ BaseNames[261] = "BLOB"
  BY DEF BaseNames
LEMMA NamesSay == \A x \in DOMAIN BaseNames : x \notin Range(CharacterCode) /\ BaseNames[x] # "refused"
<1>1. \A x \in DOMAIN BaseNames : x \notin Range(CharacterCode)
  BY DEF BaseNames, CharacterCode, Range
<1>2. \A x \in DOMAIN BaseNames : BaseNames[x] # "refused"
  BY DEF BaseNames
<1> QED BY <1>1, <1>2

\* How the engine and the driver agree on the other types.
Agree(code, base, dialect) ==
  /\ code \in DOMAIN BaseNames
  /\ (dialect = 1 /\ code = 35 => base = "DATE")
  /\ (~(dialect = 1 /\ code = 35) => BaseNames[code] = base)

LEMMA PlainCodes ==
  ASSUME NEW t, NEW dialect, t.base \in PlainBases(dialect)
  PROVE  Agree(TypeCode(t, dialect), t.base, dialect)
<1> DEFINE code == TypeCode(t, dialect)
<1>1. t.base \in {"SMALLINT", "INTEGER", "FLOAT", "BIGINT", "BOOLEAN", "BLOB", "DOUBLE PRECISION", "DATE"}
         \/ (dialect # 1 /\ t.base = "TIMESTAMP")
  BY DEF PlainBases, PlainCode
<1> SUFFICES Agree(code, t.base, dialect)
  OBVIOUS
<1>2. CASE t.base = "SMALLINT"
  <2>1. code = 7
    BY <1>2 DEF TypeCode, Fixed, Characters, PlainCode
  <2> HIDE DEF code
  <2>2. code # 35
    BY <2>1
  <2> QED BY <2>1, <2>2, <1>2, NameOf7, Zenon DEF Agree
<1>3. CASE t.base = "INTEGER"
  <2>1. code = 8
    BY <1>3 DEF TypeCode, Fixed, Characters, PlainCode
  <2> HIDE DEF code
  <2>2. code # 35
    BY <2>1
  <2> QED BY <2>1, <2>2, <1>3, NameOf8, Zenon DEF Agree
<1>4. CASE t.base = "FLOAT"
  <2>1. code = 10
    BY <1>4 DEF TypeCode, Fixed, Characters, PlainCode
  <2> HIDE DEF code
  <2>2. code # 35
    BY <2>1
  <2> QED BY <2>1, <2>2, <1>4, NameOf10, Zenon DEF Agree
<1>5. CASE t.base = "BIGINT"
  <2>1. code = 16
    BY <1>5 DEF TypeCode, Fixed, Characters, PlainCode
  <2> HIDE DEF code
  <2>2. code # 35
    BY <2>1
  <2> QED BY <2>1, <2>2, <1>5, NameOf16, Zenon DEF Agree
<1>6. CASE t.base = "BOOLEAN"
  <2>1. code = 17
    BY <1>6 DEF TypeCode, Fixed, Characters, PlainCode
  <2> HIDE DEF code
  <2>2. code # 35
    BY <2>1
  <2> QED BY <2>1, <2>2, <1>6, NameOf17, Zenon DEF Agree
<1>7. CASE t.base = "BLOB"
  <2>1. code = 261
    BY <1>7 DEF TypeCode, Fixed, Characters, PlainCode
  <2> HIDE DEF code
  <2>2. code # 35
    BY <2>1
  <2> QED BY <2>1, <2>2, <1>7, NameOf261, Zenon DEF Agree
<1>8. CASE t.base = "DOUBLE PRECISION"
  <2>1. t.base \notin Fixed /\ t.base \notin Characters
    BY <1>8 DEF Fixed, Characters
  <2>2. code = 27
    BY <1>8, <2>1, Zenon DEF TypeCode
  <2> HIDE DEF code
  <2>3. code # 35
    BY <2>2
  <2> QED BY <2>2, <2>3, <1>8, NameOf27, Zenon DEF Agree
<1>9. CASE t.base = "DATE" /\ dialect = 1
  <2>1. code = 35
    BY <1>9 DEF TypeCode, Fixed, Characters
  <2> HIDE DEF code
  <2> QED BY <2>1, <1>9, NameOf35, Zenon DEF Agree
<1>10. CASE t.base = "DATE" /\ dialect # 1
  <2>1. code = 12
    BY <1>10 DEF TypeCode, Fixed, Characters
  <2> HIDE DEF code
  <2> QED BY <2>1, <1>10, NameOf12, Zenon DEF Agree
<1>11. CASE dialect # 1 /\ t.base = "TIMESTAMP"
  <2>1. code = 35
    BY <1>11 DEF TypeCode, Fixed, Characters
  <2> HIDE DEF code
  <2> QED BY <2>1, <1>11, NameOf35, Zenon DEF Agree
<1> QED BY <1>1, <1>2, <1>3, <1>4, <1>5, <1>6, <1>7, <1>8, <1>9, <1>10, <1>11, Zenon

LEMMA PlainRenders ==
  ASSUME NEW d, NEW name, NEW dialect, d.type.base \notin Characters, d.type.base \notin Fixed,
         IsType(d.type, dialect),
         NEW t \in TypeName({Field(name, d, dialect)}, dialect)
  PROVE  IsLabel(t) /\ Renders(t, d, dialect)
<1> DEFINE f == Field(name, d, dialect)
           code == TypeCode(d.type, dialect)
<1>1. d.type.base \in PlainBases(dialect) /\ d.type.args = <<>>
  BY PlainTypes
<1>2. /\ code \in DOMAIN BaseNames /\ code \notin Range(CharacterCode) /\ BaseNames[code] # "refused"
      /\ (dialect = 1 /\ code = 35 => d.type.base = "DATE")
      /\ (~(dialect = 1 /\ code = 35) => BaseNames[code] = d.type.base)
  BY <1>1, PlainCodes, NamesSay DEF Agree
<1>3. f.type = {code}
  BY DEF Field
<1>4. f.subtype = {} /\ f.scale = {}
  BY DEF Field
<1>5. t \in TypeName({f}, dialect)
  OBVIOUS
<1>6. t = Label(d.type.base, <<>>)
  <2> HIDE DEF f, code
  <2>1. Value(f.type, 0) = code /\ (f.type = {35} <=> code = 35)
    BY <1>3, ValueOfOne
  <2>2. ~IsFixed(f)
    BY <1>4, SignOfNone DEF IsFixed
  <2>3. SQLType(f) = Label(BaseNames[code], <<>>)
    BY <2>1, <2>2, <1>2, Zenon DEF SQLType
  <2>4. SQLType(f) # RefusedType
    BY <2>3, <1>2 DEF Label, RefusedType
  <2>5. t = IF dialect = 1 /\ code = 35 THEN Label("DATE", <<>>) ELSE Label(BaseNames[code], <<>>)
    BY <2>1, <2>3, <2>4, <1>5, ValueOfOne DEF TypeName
  <2> DEFINE shown == Label(BaseNames[code], <<>>)
             date == Label("DATE", <<>>)
             old == dialect = 1 /\ code = 35
  <2>6. (old => d.type.base = "DATE") /\ (~old => BaseNames[code] = d.type.base)
    BY <1>2
  <2>7. old => date = Label(d.type.base, <<>>)
    BY <2>6, Zenon
  <2>8. ~old => shown = Label(d.type.base, <<>>)
    BY <2>6, Zenon
  <2>9. t = IF old THEN date ELSE shown
    BY <2>5
  <2> HIDE DEF shown, date, old
  <2> QED BY <2>7, <2>8, <2>9
<1> HIDE DEF f, code
<1>7. IsLabel(t) /\ t.base = d.type.base /\ t.args = <<>>
  BY <1>6, LabelSays, Zenon
<1> QED BY <1>1, <1>7, BareRenders

\* What a row is shown as, with character set and collation or without.
LEMMA TypesRender ==
  ASSUME NEW d, NEW name, NEW dialect, IsType(d.type, dialect), IsClear(d.clear), d.recorded \in BOOLEAN,
         NEW t \in TypeName({Field(name, d, dialect)}, dialect)
  PROVE  Renders(t, d, dialect) /\ Renders([t EXCEPT !.charset = {}, !.collation = {}], d, dialect)
<1>1. IsLabel(t) /\ Renders(t, d, dialect)
  BY FixedRenders, CharactersRender, PlainRenders
<1> DEFINE u == [t EXCEPT !.charset = {}, !.collation = {}]
<1>2. u.base = t.base /\ u.args = t.args /\ u = Label(t.base, t.args)
  <2>1. DOMAIN t = {"base", "args", "charset", "collation"}
    BY <1>1 DEF IsLabel
  <2>2. u = [x \in {"base", "args", "charset", "collation"} |-> IF x \in {"charset", "collation"} THEN {} ELSE t[x]]
    BY <2>1
  <2>3. Label(t.base, t.args) = [x \in {"base", "args", "charset", "collation"} |-> IF x \in {"charset", "collation"} THEN {} ELSE t[x]]
    BY DEF Label
  <2> QED BY <2>2, <2>3, LabelSays
<1> HIDE DEF u
<1>3. ASSUME t = Label("DOUBLE PRECISION", <<>>) PROVE u = t
  BY <1>2, <1>3, LabelSays
<1> QED BY <1>1, <1>2, <1>3, Zenon DEF Renders, u

\* A field says of a declaration what a subject's source says.
LEMMA SaidOfAlike ==
  ASSUME NEW label, NEW d, NEW e, NEW dialect, d.type = e.type, d.recorded = e.recorded, Renders(label, d, dialect)
  PROVE  Renders(label, e, dialect)
BY DEF Renders

IsFieldOf(c, dialect, name, d) ==
  /\ FieldOf(c, dialect) = Field(name, d, dialect) /\ name = IF c.domain = {} THEN "RDB$1" ELSE "D"
  /\ d.type = Source(c).type /\ d.recorded = Source(c).recorded /\ d.computed = Source(c).computed
  /\ d.default = IF c.domain = {} THEN {} ELSE Source(c).default
  /\ IsType(d.type, dialect) /\ IsClear(d.clear) /\ d.recorded \in BOOLEAN /\ d.notNull \in BOOLEAN
  /\ (d.notNull <=> \E x \in c.domain : x.notNull)
LEMMA ColumnField ==
  ASSUME NEW c, NEW dialect, IsColumn(c, dialect)
  PROVE  \E name, d : IsFieldOf(c, dialect, name, d)
<1>1. CASE c.domain = {}
  <2> DEFINE d == [c.own EXCEPT !.notNull = FALSE, !.default = {}, !.check = {}]
  <2>1. /\ DOMAIN c.own = {"type", "notNull", "default", "check", "computed", "recorded", "clear"}
        /\ IsType(c.own.type, dialect) /\ c.own.clear \in {{}, {0}} /\ c.own.recorded \in BOOLEAN
    BY DEF IsColumn, IsDeclared
  <2>2. /\ d.type = c.own.type /\ d.recorded = c.own.recorded /\ d.clear = c.own.clear
        /\ d.computed = c.own.computed /\ d.notNull = FALSE /\ d.default = {}
    BY <2>1
  <2>3. FieldOf(c, dialect) = Field("RDB$1", d, dialect) /\ Source(c) = c.own
    BY <1>1 DEF FieldOf, InlineField, Source
  <2>4. ~\E x \in c.domain : x.notNull
    BY <1>1
  <2> HIDE DEF d
  <2>5. IsFieldOf(c, dialect, "RDB$1", d)
    BY <1>1, <2>1, <2>2, <2>3, <2>4 DEF IsFieldOf, IsClear
  <2> QED BY <2>5
<1>2. CASE c.domain # {}
  <2>1. PICK d : d \in c.domain
    BY <1>2
  <2>2. c.domain = {d} /\ IsDeclared(d, dialect)
    BY <2>1 DEF IsColumn
  <2>3. FieldOf(c, dialect) = Field("D", d, dialect) /\ Source(c) = d
    BY <1>2, <2>2, ValueOfOne DEF FieldOf, Source
  <2>4. IsType(d.type, dialect) /\ IsClear(d.clear) /\ d.recorded \in BOOLEAN /\ d.notNull \in BOOLEAN
    BY <2>2 DEF IsDeclared, IsClear
  <2>5. d.notNull <=> \E x \in c.domain : x.notNull
    BY <2>2
  <2>6. IsFieldOf(c, dialect, "D", d)
    BY <1>2, <2>3, <2>4, <2>5 DEF IsFieldOf
  <2> QED BY <2>6
<1> QED BY <1>1, <1>2

LEMMA FlagSays ==
  ASSUME NEW on \in BOOLEAN, NEW clear, IsClear(clear)
  PROVE  (\E v \in Flag(on, clear) : v # 0) <=> on
BY DEF Flag, IsClear

\* Only these facts of a row count for how its type is shown.
SameType(f, g) ==
  /\ f.type = g.type /\ f.subtype = g.subtype /\ f.scale = g.scale /\ f.precision = g.precision
  /\ f.length = g.length /\ f.characters = g.characters /\ f.charset = g.charset /\ f.collation = g.collation
LEMMA SameTypesShow ==
  ASSUME NEW f, NEW g, SameType(f, g)
  PROVE  /\ SQLType(f) = SQLType(g) /\ \A dialect : TypeIn(f, dialect) = TypeIn(g, dialect)
         /\ \A dialect : TypeName({f}, dialect) = TypeName({g}, dialect)
<1> f.type = g.type /\ f.subtype = g.subtype /\ f.scale = g.scale /\ f.precision = g.precision
  BY DEF SameType
<1> f.length = g.length /\ f.characters = g.characters /\ f.charset = g.charset /\ f.collation = g.collation
  BY DEF SameType
<1>1. (IsFixed(f) <=> IsFixed(g)) /\ FixedName(f) = FixedName(g) /\ Scale(f) = Scale(g)
  BY DEF IsFixed, FixedName, Scale
<1>2. SQLType(f) = SQLType(g)
  BY <1>1, Zenon DEF SQLType
<1>3. \A base, natural : NumericType(base, natural, f) = NumericType(base, natural, g)
  BY <1>1, Zenon DEF NumericType
<1>4. CharacterLength(f) = CharacterLength(g)
  BY DEF CharacterLength
<1>5. ColumnType(f) = ColumnType(g)
  BY <1>3, <1>4, Zenon DEF ColumnType
<1>6. \A dialect : TypeIn(f, dialect) = TypeIn(g, dialect)
  BY <1>2, Zenon DEF TypeIn
<1>7. \A dialect : TypeName({f}, dialect) = TypeName({g}, dialect)
  BY <1>2, <1>5, ValueOfOne, Zenon DEF TypeName
<1> QED BY <1>2, <1>6, <1>7

\* Taking the keyword off a default.
LEMMA DefaultSays ==
  ASSUME NEW default, IsText(default)
  PROVE  DefaultOf(default) = Words(default)
<1>1. CASE default = {}
  BY <1>1, ValueOfNone DEF DefaultOf, Words
<1>2. CASE default # {}
  <2>1. PICK w : w \in default
    BY <1>2
  <2>2. default = {w} /\ w \in Seq(STRING) /\ w # <<>> /\ w # <<"DEFAULT">>
    BY <2>1 DEF IsText
  <2> DEFINE bare == IF Head(w) = "DEFAULT" THEN Tail(w) ELSE w
  <2>3. bare # <<>>
    <3>1. CASE Head(w) = "DEFAULT"
      <4>1. Len(w) # 1
        BY <2>2, <3>1
      <4>2. Len(Tail(w)) = Len(w) - 1 /\ Len(w) > 0
        BY <2>2
      <4>3. Len(Tail(w)) # 0
        BY <4>1, <4>2, <2>2
      <4>4. Tail(w) # <<>>
        BY <4>3
      <4> QED BY <4>4, <3>1
    <3>2. CASE Head(w) # "DEFAULT"
      BY <2>2, <3>2
    <3> QED BY <3>1, <3>2
  <2>4. Value(default, <<>>) = w
    BY <2>2, ValueOfOne
  <2>5. DefaultOf(default) = {bare}
    BY <2>2, <2>3, <2>4 DEF DefaultOf
  <2>6. Words(default) = {bare}
    BY <2>2 DEF Words
  <2> QED BY <2>5, <2>6
<1> QED BY <1>1, <1>2

-----------------------------------------------------------------------------
(* Columns.                                                                *)

IsFieldRow(f) ==
  f = [name |-> f.name, system |-> f.system, type |-> f.type, subtype |-> f.subtype, scale |-> f.scale,
       precision |-> f.precision, length |-> f.length, characters |-> f.characters, charset |-> f.charset,
       collation |-> f.collation, null |-> f.null, default |-> f.default, check |-> f.check, computed |-> f.computed]
LEMMA FieldIsRow == \A name, d, dialect : IsFieldRow(Field(name, d, dialect))
  BY DEF Field, IsFieldRow

\* The bulk reader's row of a column.
LEMMA BulkRow ==
  ASSUME NEW r, IsFieldRow(r.field), r = [source |-> r.source, null |-> r.null, default |-> r.default,
                                          collation |-> r.collation, field |-> r.field]
  PROVE  LET b == BulkColumn(r) IN
           /\ b.source = r.source /\ b.null = r.null /\ b.default = r.default /\ b.collation = {}
           /\ SameType(b.field, r.field) /\ b.field.name = r.field.name /\ b.field.null = r.field.null
           /\ b.field.default = r.field.default /\ b.field.computed = r.field.computed
           /\ b.field.system = {} /\ b.field.check = {}
<1> DEFINE g == [r.field EXCEPT !.check = {}, !.system = {}]
           b == [r EXCEPT !.collation = {}, !.field = [@ EXCEPT !.check = {}, !.system = {}]]
<1>1. DOMAIN r = {"source", "null", "default", "collation", "field"}
  OBVIOUS
<1>2. /\ b.source = r.source /\ b.null = r.null /\ b.default = r.default /\ b.collation = {}
      /\ b.field = g
  <2> HIDE DEF IsFieldRow
  <2> QED BY <1>1
<1>3. DOMAIN r.field = {"name", "system", "type", "subtype", "scale", "precision", "length", "characters", "charset",
                        "collation", "null", "default", "check", "computed"}
  BY DEF IsFieldRow
<1>4. /\ SameType(g, r.field) /\ g.name = r.field.name /\ g.null = r.field.null
      /\ g.default = r.field.default /\ g.computed = r.field.computed /\ g.system = {} /\ g.check = {}
  BY <1>3 DEF SameType
<1> HIDE DEF g, b
<1>5. BulkColumn(r) = b
  BY DEF BulkColumn, b
<1> QED BY <1>2, <1>4, <1>5

\* The driver's value of the facts a descriptor keeps is shown as the row was.
KeepsFacts(p, f, user) ==
  /\ p.name = f.name /\ p.userDomain = user /\ SameType(SchemaDomainFromFacts(p), f)
  /\ SchemaDomainFromFacts(p).name = f.name /\ SchemaDomainFromFacts(p).check = f.check
  /\ SchemaDomainFromFacts(p).default = f.default
  /\ (\E v \in SchemaDomainFromFacts(p).system : v # 0) = (\E v \in f.system : v # 0)
LEMMA DomainFactsKept ==
  ASSUME NEW f
  PROVE  KeepsFacts(DomainFacts(f), f, FALSE)
<1> DEFINE p == DomainFacts(f)
           back == SchemaDomainFromFacts(p)
<1>1. /\ p.name = f.name /\ p.userDomain = FALSE /\ p.default = f.default /\ p.check = f.check
      /\ p.systemDomain = (\E v \in f.system : v # 0)
  BY DEF DomainFacts
<1>2. SameType(p, f)
  BY DEF DomainFacts, SameType
<1> HIDE DEF p
<1>3. back.name = p.name /\ back.default = p.default /\ back.check = p.check
  BY DEF SchemaDomainFromFacts
<1>4. back.system = {IF p.systemDomain THEN 1 ELSE 0}
  BY DEF SchemaDomainFromFacts
<1>5. SameType(back, p)
  BY DEF SchemaDomainFromFacts, SameType
<1> HIDE DEF back
<1>6. SameType(back, f)
  BY <1>2, <1>5 DEF SameType
<1>7. (\E v \in back.system : v # 0) = (\E v \in f.system : v # 0)
  BY <1>1, <1>4
<1> QED BY <1>1, <1>3, <1>6, <1>7, Zenon DEF KeepsFacts, p, back
FactNames == {"type", "subtype", "scale", "precision", "length", "characters", "charset", "collation", "name",
              "systemDomain", "computed", "check", "default", "userDomain", "ownCollation"}
LEMMA FactsChanged ==
  ASSUME NEW p, NEW f, NEW user, KeepsFacts(p, f, user), DOMAIN p = FactNames, NEW other, NEW own
  PROVE  /\ KeepsFacts([p EXCEPT !.userDomain = other], f, other)
         /\ KeepsFacts([p EXCEPT !.ownCollation = own], f, user)
<1>1. /\ \A x \in FactNames \ {"userDomain"} : [p EXCEPT !.userDomain = other][x] = p[x]
      /\ [p EXCEPT !.userDomain = other].userDomain = other
  BY DEF FactNames
<1>2. \A x \in FactNames \ {"ownCollation"} : [p EXCEPT !.ownCollation = own][x] = p[x]
  BY DEF FactNames
<1>3. ASSUME NEW q, \A x \in FactNames \ {"userDomain", "ownCollation"} : q[x] = p[x]
      PROVE  SchemaDomainFromFacts(q) = SchemaDomainFromFacts(p) /\ q.name = p.name
  BY <1>3 DEF SchemaDomainFromFacts, FactNames
<1>4. /\ SchemaDomainFromFacts([p EXCEPT !.userDomain = other]) = SchemaDomainFromFacts(p)
      /\ [p EXCEPT !.userDomain = other].name = p.name
  BY <1>1, <1>3
<1>5. /\ SchemaDomainFromFacts([p EXCEPT !.ownCollation = own]) = SchemaDomainFromFacts(p)
      /\ [p EXCEPT !.ownCollation = own].name = p.name /\ [p EXCEPT !.ownCollation = own].userDomain = p.userDomain
  BY <1>2, <1>3 DEF FactNames
<1>6. KeepsFacts([p EXCEPT !.userDomain = other], f, other)
  BY <1>1, <1>4 DEF KeepsFacts
<1>7. KeepsFacts([p EXCEPT !.ownCollation = own], f, user)
  BY <1>5 DEF KeepsFacts
<1> QED BY <1>6, <1>7
LEMMA ParameterFactsKept ==
  ASSUME NEW source, NEW f
  PROVE  /\ KeepsFacts(ParameterFacts(source, f), f, UserDomainName(source, f) # {})
         /\ DOMAIN ParameterFacts(source, f) = FactNames
<1>1. DOMAIN DomainFacts(f) = FactNames
  BY DEF DomainFacts, FactNames
<1>2. KeepsFacts(ParameterFacts(source, f), f, UserDomainName(source, f) # {})
  BY <1>1, DomainFactsKept, FactsChanged DEF ParameterFacts
<1>3. DOMAIN ParameterFacts(source, f) = FactNames
  BY <1>1 DEF ParameterFacts
<1> QED BY <1>2, <1>3
LEMMA ColumnFactsKept ==
  ASSUME NEW r
  PROVE  KeepsFacts(ColumnFacts(r), r.field, UserDomainName(r.source, r.field) # {})
BY ParameterFactsKept, FactsChanged DEF ColumnFacts

\* What a column's description is put together from.
IsColumnDescription(desc, type, null, key, default, extra, facts) ==
  desc = [type |-> type, null |-> null, key |-> key, default |-> default, extra |-> extra, facts |-> facts]
LEMMA OtherFacts ==
  ASSUME NEW x, NEW y, NEW type, NEW null, NEW k, NEW key, NEW default, NEW extra, NEW f, NEW facts,
         IsColumnDescription(x, type, null, k, default, extra, f),
         IsColumnDescription(y, type, null, key, default, extra, facts)
  PROVE  [x EXCEPT !.key = y.key, !.facts = y.facts] = y /\ (k = key => [x EXCEPT !.facts = y.facts] = y)
<1> DEFINE N == {"type", "null", "key", "default", "extra", "facts"}
<1>1. /\ x = [n \in N |-> x[n]] /\ x.type = type /\ x.null = null /\ x.key = k
      /\ x.default = default /\ x.extra = extra
  BY DEF IsColumnDescription
<1>2. /\ y = [n \in N |-> y[n]] /\ y.type = type /\ y.null = null /\ y.key = key
      /\ y.default = default /\ y.extra = extra
  BY DEF IsColumnDescription
<1>3. [x EXCEPT !.key = y.key, !.facts = y.facts] = [n \in N |-> y[n]]
  BY <1>1, <1>2
<1>4. k = key => [x EXCEPT !.facts = y.facts] = [n \in N |-> y[n]]
  BY <1>1, <1>2
<1> QED BY <1>2, <1>3, <1>4

LEMMA NullabilitySays ==
  ASSUME NEW c, NEW dialect, NEW name, NEW d, IsColumn(c, dialect), IsFieldOf(c, dialect, name, d)
  PROVE  Nullability(Flag(c.own.notNull, c.own.clear), Flag(d.notNull, d.clear)) = IF NotNull(c) THEN "NO" ELSE "YES"
<1> DEFINE own == Flag(c.own.notNull, c.own.clear)
           domain == Flag(d.notNull, d.clear)
<1>1. c.own.notNull \in BOOLEAN /\ IsClear(c.own.clear)
  BY DEF IsColumn, IsDeclared, IsClear
<1>2. d.notNull \in BOOLEAN /\ IsClear(d.clear) /\ (d.notNull <=> \E x \in c.domain : x.notNull)
  BY DEF IsFieldOf
<1>3. (\E v \in own : v # 0) <=> c.own.notNull
  BY <1>1, FlagSays
<1>4. (\E v \in domain : v # 0) <=> \E x \in c.domain : x.notNull
  BY <1>2, FlagSays
<1> HIDE DEF own, domain
<1>5. (\E v \in own \cup domain : v # 0) <=> NotNull(c)
  BY <1>3, <1>4, Zenon DEF NotNull
<1>6. Nullability(own, domain) = IF NotNull(c) THEN "NO" ELSE "YES"
  BY <1>5 DEF Nullability
<1> QED BY <1>6 DEF own, domain

LEMMA EffectiveDefaultSays ==
  ASSUME NEW c, NEW dialect, NEW name, NEW d, IsColumn(c, dialect), IsFieldOf(c, dialect, name, d)
  PROVE  EffectiveDefault(c.own.default, d.default) = Words(DefaultIn(c))
<1>1. IsText(c.own.default)
  BY DEF IsColumn, IsDeclared
<1>2. CASE c.own.default # {}
  <2>1. DefaultIn(c) = c.own.default
    BY <1>2 DEF DefaultIn
  <2>2. EffectiveDefault(c.own.default, d.default) = DefaultOf(c.own.default)
    BY <1>2 DEF EffectiveDefault
  <2> QED BY <1>1, <2>1, <2>2, DefaultSays
<1>3. CASE c.own.default = {}
  <2>1. DefaultIn(c) = Source(c).default
    BY <1>3 DEF DefaultIn
  <2>2. EffectiveDefault(c.own.default, d.default) = DefaultOf(d.default)
    BY <1>3 DEF EffectiveDefault
  <2>3. d.default = Source(c).default
    BY <1>3 DEF IsFieldOf, Source
  <2>4. IsText(d.default)
    <3>1. CASE c.domain = {}
      BY <3>1, <1>1, <1>3, <2>3 DEF Source
    <3>2. CASE c.domain # {}
      <4>1. PICK e : e \in c.domain
        BY <3>2
      <4>2. c.domain = {e} /\ IsText(e.default)
        BY <4>1 DEF IsColumn, IsDeclared
      <4>3. Source(c) = e
        BY <4>2, <3>2, ValueOfOne DEF Source
      <4> QED BY <4>2, <4>3, <2>3
    <3> QED BY <3>1, <3>2
  <2> QED BY <2>1, <2>2, <2>3, <2>4, DefaultSays
<1> QED BY <1>2, <1>3

\* What a column's row says, through the driver and through the bulk reader.
IsColumnRow(r, c, name, d, dialect) ==
  /\ r.source = name /\ r.null = Flag(c.own.notNull, c.own.clear) /\ r.default = c.own.default
  /\ SameType(r.field, Field(name, d, dialect)) /\ r.field.name = name
  /\ r.field.null = Flag(d.notNull, d.clear) /\ r.field.default = d.default /\ r.field.computed = d.computed
  /\ r.field.system = {}
LEMMA ColumnRows ==
  ASSUME NEW c, NEW dialect, NEW name, NEW d, IsFieldOf(c, dialect, name, d)
  PROVE  /\ IsColumnRow(ColumnRow(c, dialect), c, name, d, dialect)
         /\ IsColumnRow(BulkColumn(ColumnRow(c, dialect)), c, name, d, dialect)
<1> DEFINE r == ColumnRow(c, dialect)
           f == Field(name, d, dialect)
<1>1. /\ f.name = name /\ f.null = Flag(d.notNull, d.clear) /\ f.default = d.default /\ f.computed = d.computed
      /\ f.system = {}
  BY DEF Field
<1>2. FieldOf(c, dialect) = f
  BY DEF IsFieldOf
<1>3. IsFieldRow(f)
  BY FieldIsRow
<1> HIDE DEF f
<1>4. r = [source |-> name, null |-> Flag(c.own.notNull, c.own.clear), default |-> c.own.default,
           collation |-> c.collation, field |-> f]
  BY <1>1, <1>2 DEF ColumnRow
<1> HIDE DEF r
<1>5. /\ r.source = name /\ r.null = Flag(c.own.notNull, c.own.clear) /\ r.default = c.own.default
      /\ r.field = f
      /\ r = [source |-> r.source, null |-> r.null, default |-> r.default, collation |-> r.collation, field |-> r.field]
  BY <1>4
<1>6. SameType(f, f)
  BY DEF SameType
<1>7. IsColumnRow(r, c, name, d, dialect)
  BY <1>1, <1>5, <1>6 DEF IsColumnRow, f
<1> DEFINE b == BulkColumn(r)
<1>8. /\ b.source = r.source /\ b.null = r.null /\ b.default = r.default
      /\ SameType(b.field, r.field) /\ b.field.name = r.field.name /\ b.field.null = r.field.null
      /\ b.field.default = r.field.default /\ b.field.computed = r.field.computed
      /\ b.field.system = {}
  BY <1>3, <1>5, BulkRow
<1> HIDE DEF b
<1>9. IsColumnRow(b, c, name, d, dialect)
  BY <1>1, <1>5, <1>8 DEF IsColumnRow, f
<1> QED BY <1>7, <1>9 DEF r, b

\* A row's description is what was declared; its facts apart, it is the same for every reader.
LEMMA RowDescribed ==
  ASSUME NEW c, NEW dialect, NEW name, NEW d, NEW key, NEW r,
         IsColumn(c, dialect), IsFieldOf(c, dialect, name, d), IsColumnRow(r, c, name, d, dialect)
  PROVE  IsColumnDescription(ColumnDescription(r, key, dialect), ColumnTypeName({Field(name, d, dialect)}, dialect),
           IF NotNull(c) THEN "NO" ELSE "YES", IF key THEN "YES" ELSE "NO", Words(DefaultIn(c)),
           IF Source(c).computed # {} THEN "COMPUTED" ELSE "", ColumnFacts(r))
<1>1. ColumnTypeName({r.field}, dialect) = ColumnTypeName({Field(name, d, dialect)}, dialect)
  <2>1. TypeName({r.field}, dialect) = TypeName({Field(name, d, dialect)}, dialect)
    BY SameTypesShow DEF IsColumnRow
  <2> QED BY <2>1 DEF ColumnTypeName
<1>2. Nullability(r.null, r.field.null) = IF NotNull(c) THEN "NO" ELSE "YES"
  BY NullabilitySays DEF IsColumnRow
<1>3. EffectiveDefault(r.default, r.field.default) = Words(DefaultIn(c))
  BY EffectiveDefaultSays DEF IsColumnRow
<1>4. r.field.computed = Source(c).computed
  BY DEF IsColumnRow, IsFieldOf
<1> QED BY <1>1, <1>2, <1>3, <1>4 DEF ColumnDescription, IsColumnDescription

LEMMA ColumnsAreSaid ==
  ASSUME NEW c, NEW key \in BOOLEAN, NEW dialect, IsColumn(c, dialect), "RDB$1" \in Generated, "D" \notin Generated
  PROVE  ColumnsSay(c, key, ColumnRow(c, dialect), dialect)
<1>1. PICK name, d : IsFieldOf(c, dialect, name, d)
  BY ColumnField
<1> DEFINE row == ColumnRow(c, dialect)
           b == BulkColumn(row)
           f == Field(name, d, dialect)
           null == IF NotNull(c) THEN "NO" ELSE "YES"
           yes == IF key THEN "YES" ELSE "NO"
           extra == IF Source(c).computed # {} THEN "COMPUTED" ELSE ""
           default == Words(DefaultIn(c))
           types == ColumnTypeName({f}, dialect)
           desc == ColumnDescription(b, key, dialect)
           direct == ColumnDescription(DriverColumn(row), key, dialect)
           view == ViewColumnDescription(row, dialect)
           back == SchemaColumn(desc)
<1>2. IsColumnRow(row, c, name, d, dialect) /\ IsColumnRow(b, c, name, d, dialect)
  BY <1>1, ColumnRows
<1>3. /\ IsColumnDescription(desc, types, null, yes, default, extra, ColumnFacts(b))
      /\ IsColumnDescription(direct, types, null, yes, default, extra, ColumnFacts(row))
  BY <1>1, <1>2, RowDescribed DEF DriverColumn
<1>4. IsColumnDescription(view, types, null, "NO", default, extra, ColumnFacts(row))
  BY <1>1, <1>2, RowDescribed DEF ViewColumnDescription
<1>5. ASSUME NEW t \in types PROVE Renders(t, Source(c), dialect)
  <2>1. PICK u \in TypeName({f}, dialect) : t = [u EXCEPT !.charset = {}, !.collation = {}]
    BY DEF ColumnTypeName
  <2>2. IsType(d.type, dialect) /\ IsClear(d.clear) /\ d.recorded \in BOOLEAN
    BY <1>1 DEF IsFieldOf
  <2>3. Renders(t, d, dialect)
    BY <2>1, <2>2, TypesRender
  <2>4. d.type = Source(c).type /\ d.recorded = Source(c).recorded
    BY <1>1 DEF IsFieldOf
  <2> QED BY <2>3, <2>4, SaidOfAlike
<1>6. KeepsFacts(ColumnFacts(b), b.field, UserDomainName(b.source, b.field) # {})
  BY ColumnFactsKept
<1>7. (UserDomainName(b.source, b.field) # {}) = (c.domain # {})
  <2>1. b.source = name /\ b.field.system = {}
    BY <1>2 DEF IsColumnRow
  <2>2. name = IF c.domain = {} THEN "RDB$1" ELSE "D"
    BY <1>1 DEF IsFieldOf
  <2> QED BY <2>1, <2>2 DEF UserDomainName
<1> HIDE DEF row, b, f, null, yes, extra, default, types, direct, view
<1>8. /\ desc.type = types /\ desc.null = null /\ desc.key = yes /\ desc.default = default /\ desc.extra = extra
      /\ desc.facts = ColumnFacts(b)
  <2> HIDE DEF desc
  <2> QED BY <1>3 DEF IsColumnDescription
<1> HIDE DEF desc
<1>9. desc.facts.userDomain = (c.domain # {})
  BY <1>6, <1>7, <1>8 DEF KeepsFacts
<1>10. [direct EXCEPT !.facts = desc.facts] = desc /\ [view EXCEPT !.key = desc.key, !.facts = desc.facts] = desc
  BY <1>3, <1>4, OtherFacts
<1>11. /\ back.null = {IF desc.null = "NO" THEN 1 ELSE 0} /\ back.default = desc.default
       /\ back.source = desc.facts.name /\ back.field = SchemaDomainFromFacts(desc.facts)
  BY DEF SchemaColumn
<1> HIDE DEF back
<1>12. NotNull(c) \in BOOLEAN
  <2>1. c.own.notNull \in BOOLEAN
    BY DEF IsColumn, IsDeclared
  <2> QED BY <2>1 DEF NotNull
<1>13. (desc.null = "NO") = NotNull(c) /\ (back.null = {1}) = NotNull(c)
  BY <1>8, <1>11, <1>12 DEF null
<1>14. (desc.key = "YES") = key
  BY <1>8 DEF yes
<1>15. (desc.extra = "COMPUTED") = (Source(c).computed # {})
  BY <1>8 DEF extra
<1>16. back.source = row.source /\ SQLType(back.field) = SQLType(row.field)
  <2>1. back.source = b.field.name /\ SameType(back.field, b.field)
    BY <1>6, <1>8, <1>11 DEF KeepsFacts
  <2>2. b.field.name = name /\ row.source = name /\ SameType(b.field, f) /\ SameType(row.field, f)
    BY <1>2 DEF IsColumnRow, f
  <2>3. SQLType(back.field) = SQLType(b.field) /\ SQLType(b.field) = SQLType(f) /\ SQLType(row.field) = SQLType(f)
    BY <2>1, <2>2, SameTypesShow
  <2> QED BY <2>1, <2>2, <2>3
<1>17. \A t \in desc.type : Renders(t, Source(c), dialect)
  BY <1>5, <1>8
<1>18. back.default = desc.default /\ desc.default = Words(DefaultIn(c))
  BY <1>8, <1>11 DEF default
<1> QED BY <1>9, <1>10, <1>13, <1>14, <1>15, <1>16, <1>17, <1>18, Zenon
        DEF ColumnsSay, row, b, desc, direct, view, back

-----------------------------------------------------------------------------
(* Indexes, triggers, domains, procedures and functions.                   *)

LEMMA FlagsKept ==
  ASSUME NEW flag
  PROVE  /\ (\E v \in InactiveFlag(FlagIsClear(flag)) : v # 0) = (\E v \in flag : v # 0)
         /\ (\E v \in UniqueFlag(FlagIsSet(flag)) : v # 0) = (\E v \in flag : v # 0)
<1>1. 0 # 1
  OBVIOUS
<1>2. \A b : b \in FlagIsClear(flag) <=> \E v \in flag : b = (v = 0)
  BY Zenon DEF FlagIsClear
<1>3. \A b : b \in FlagIsSet(flag) <=> \E v \in flag : b = (v # 0)
  BY Zenon DEF FlagIsSet
<1>4. (\E v \in InactiveFlag(FlagIsClear(flag)) : v # 0) <=> \E b \in FlagIsClear(flag) : ~b
  <2>1. ASSUME NEW v \in InactiveFlag(FlagIsClear(flag)), v # 0 PROVE \E b \in FlagIsClear(flag) : ~b
    <3>1. PICK b \in FlagIsClear(flag) : v = IF b THEN 0 ELSE 1
      BY Zenon DEF InactiveFlag
    <3>2. ~b
      BY <2>1, <3>1
    <3> QED BY <3>2
  <2>2. ASSUME NEW b \in FlagIsClear(flag), ~b PROVE \E v \in InactiveFlag(FlagIsClear(flag)) : v # 0
    <3>1. \E x \in FlagIsClear(flag) : 1 = IF x THEN 0 ELSE 1
      BY <2>2
    <3>2. 1 \in InactiveFlag(FlagIsClear(flag))
      BY <3>1 DEF InactiveFlag
    <3> QED BY <3>2, <1>1
  <2> QED BY <2>1, <2>2
<1>5. (\E v \in UniqueFlag(FlagIsSet(flag)) : v # 0) <=> \E b \in FlagIsSet(flag) : b
  BY <1>1, Zenon DEF UniqueFlag
<1>6. (\E b \in FlagIsClear(flag) : ~b) <=> \E v \in flag : v # 0
  <2>1. ASSUME NEW b \in FlagIsClear(flag), ~b PROVE \E v \in flag : v # 0
    <3>1. PICK v \in flag : b = (v = 0)
      BY <1>2, Zenon
    <3>2. v # 0
      BY <2>1, <3>1, Zenon
    <3> QED BY <3>2
  <2>2. ASSUME NEW v \in flag, v # 0 PROVE \E b \in FlagIsClear(flag) : ~b
    <3>1. (v = 0) \in FlagIsClear(flag)
      BY <1>2, Zenon
    <3> QED BY <2>2, <3>1, Zenon
  <2> QED BY <2>1, <2>2
<1>7. (\E b \in FlagIsSet(flag) : b) <=> \E v \in flag : v # 0
  BY <1>3, Zenon
<1> QED BY <1>4, <1>5, <1>6, <1>7

LEMMA IndexesAreSaid ==
  ASSUME NEW i
  PROVE  IndexStatement(SchemaIndex(IndexDescription(i))) = IndexStatement(i)
<1> DEFINE x == SchemaIndex(IndexDescription(i))
<1>1. /\ x.name = i.name /\ x.relation = i.relation /\ x.segments = i.segments /\ x.expression = i.expression
      /\ x.uniqueFlag = UniqueFlag(FlagIsSet(i.uniqueFlag)) /\ x.inactive = InactiveFlag(FlagIsClear(i.inactive))
      /\ x.type = i.type
  BY DEF SchemaIndex, IndexDescription
<1> HIDE DEF x
<1>2. /\ (\E v \in x.uniqueFlag : v # 0) = (\E v \in i.uniqueFlag : v # 0)
      /\ (\E v \in x.inactive : v # 0) = (\E v \in i.inactive : v # 0)
  BY <1>1, FlagsKept
<1>3. IndexStatement(x) = IndexStatement(i)
  BY <1>1, <1>2 DEF IndexStatement
<1> QED BY <1>3 DEF x

TriggerNames == {"name", "relation", "type", "sequence", "inactive", "source"}
LEMMA TriggersAreSaid ==
  ASSUME NEW t, t = [x \in TriggerNames |-> t[x]]
  PROVE  TriggerStatement(SchemaTrigger(TriggerDescription(t))) = TriggerStatement(t)
<1> DEFINE u == SchemaTrigger(TriggerDescription(t))
<1>1. /\ u.name = t.name /\ u.relation = t.relation /\ u.type = t.type /\ u.sequence = t.sequence
      /\ u.source = t.source /\ u.inactive = InactiveFlag(FlagIsClear(t.inactive))
      /\ u = [x \in TriggerNames |-> u[x]]
  BY DEF SchemaTrigger, TriggerDescription, TriggerNames
<1> HIDE DEF u
<1>2. (\E v \in u.inactive : v # 0) = (\E v \in t.inactive : v # 0)
  BY <1>1, FlagsKept
<1>3. ASSUME NEW v PROVE [u EXCEPT !.inactive = v] = [t EXCEPT !.inactive = v]
  BY <1>1 DEF TriggerNames
<1>4. TriggerStatement(u) = TriggerStatement(t)
  BY <1>2, <1>3 DEF TriggerStatement
<1> QED BY <1>4 DEF u

LEMMA DomainsAreSaid ==
  ASSUME NEW d, NEW dialect, IsDeclared(d, dialect)
  PROVE  LET row == Field("D", d, dialect)
             desc == DomainDescription(row, dialect)
         IN /\ \A t \in desc.type : Renders(t, d, dialect)
            /\ DomainStatement(SchemaDomain(desc), dialect) = DomainStatement(row, dialect)
<1> DEFINE row == Field("D", d, dialect)
           desc == DomainDescription(row, dialect)
           back == SchemaDomain(desc)
<1>1. IsType(d.type, dialect) /\ IsClear(d.clear) /\ d.recorded \in BOOLEAN
  BY DEF IsDeclared, IsClear
<1>2. \A t \in TypeName({row}, dialect) : Renders(t, d, dialect)
  BY <1>1, TypesRender
<1> HIDE DEF row
<1>3. desc.type = TypeName({row}, dialect) /\ desc.facts = DomainFacts(row) /\ desc.nullable = FlagIsClear(row.null)
  BY DEF DomainDescription
<1> HIDE DEF desc
<1> DEFINE g == SchemaDomainFromFacts(desc.facts)
<1>4. KeepsFacts(desc.facts, row, FALSE)
  BY <1>3, DomainFactsKept
<1>5. /\ back.name = g.name /\ back.default = g.default /\ back.check = g.check /\ SameType(back, g)
      /\ back.null = InactiveFlag(desc.nullable)
  BY DEF SchemaDomain, SchemaDomainFromFacts, SameType
<1> HIDE DEF back, g
<1>6. /\ g.name = row.name /\ g.default = row.default /\ g.check = row.check /\ SameType(g, row)
  BY <1>4 DEF KeepsFacts, g
<1>7. TypeIn(back, dialect) = TypeIn(row, dialect)
  <2>1. TypeIn(back, dialect) = TypeIn(g, dialect)
    BY <1>5, SameTypesShow
  <2>2. TypeIn(g, dialect) = TypeIn(row, dialect)
    BY <1>6, SameTypesShow
  <2> QED BY <2>1, <2>2
<1>8. (\E v \in back.null : v # 0) = (\E v \in row.null : v # 0)
  BY <1>3, <1>5, FlagsKept
<1>9. DomainStatement(back, dialect) = DomainStatement(row, dialect)
  <2>1. back.name = row.name /\ back.default = row.default /\ back.check = row.check
    BY <1>5, <1>6
  <2> QED BY <2>1, <1>7, <1>8, Zenon DEF DomainStatement
<1>10. \A t \in desc.type : Renders(t, d, dialect)
  BY <1>2, <1>3
<1> QED BY <1>9, <1>10 DEF row, desc, back

LEMMA ParameterSaid ==
  ASSUME NEW c, NEW dialect, NEW i, IsColumn(c, dialect), ~c.own.notNull
  PROVE  LET r == ParameterRow(c, dialect)
             desc == ParameterDescription(r, i, dialect)
         IN /\ \A t \in desc.type : Renders(t, Source(c), dialect)
            /\ ParameterSays(SchemaParameter(desc), dialect) = ParameterSays(r, dialect)
<1>1. PICK name, d : IsFieldOf(c, dialect, name, d)
  BY ColumnField
<1> DEFINE f == Field(name, d, dialect)
           r == ParameterRow(c, dialect)
           desc == ParameterDescription(r, i, dialect)
           back == SchemaParameter(desc)
<1>2. r.source = f.name /\ r.field = f /\ r.nullable = {~NotNull(c)}
  BY <1>1 DEF ParameterRow, IsFieldOf
<1>3. f.null = Flag(d.notNull, d.clear)
  BY DEF Field
<1>4. IsType(d.type, dialect) /\ IsClear(d.clear) /\ d.recorded \in BOOLEAN /\ d.notNull \in BOOLEAN
  BY <1>1 DEF IsFieldOf
<1>5. \A t \in TypeName({f}, dialect) : Renders(t, Source(c), dialect)
  <2>1. d.type = Source(c).type /\ d.recorded = Source(c).recorded
    BY <1>1 DEF IsFieldOf
  <2> QED BY <1>4, <2>1, TypesRender, SaidOfAlike
<1> HIDE DEF f, r
<1>6. /\ desc.type = TypeName({f}, dialect) /\ desc.facts = ParameterFacts(f.name, f)
      /\ desc.nullable = {\A v \in f.null : v = 0}
  BY <1>2 DEF ParameterDescription
<1> HIDE DEF desc
<1>7. desc.nullable # {}
  BY <1>6
<1>8. /\ back.source = desc.facts.name /\ back.field = SchemaDomainFromFacts(desc.facts)
      /\ back.nullable = desc.nullable
  BY <1>7 DEF SchemaParameter
<1> HIDE DEF back
<1>9. KeepsFacts(desc.facts, f, UserDomainName(f.name, f) # {})
  BY <1>6, ParameterFactsKept
<1>10. /\ back.source = f.name /\ SameType(back.field, f)
       /\ (\E v \in back.field.system : v # 0) = (\E v \in f.system : v # 0)
  BY <1>8, <1>9 DEF KeepsFacts
<1>11. UserDomainName(back.source, back.field) = UserDomainName(r.source, r.field)
  BY <1>2, <1>10, Zenon DEF UserDomainName
<1>12. TypeIn(back.field, dialect) = TypeIn(r.field, dialect)
  BY <1>2, <1>10, SameTypesShow
<1>13. (back.nullable = {FALSE}) = (r.nullable = {FALSE})
  <2>1. NotNull(c) <=> d.notNull
    BY <1>1 DEF NotNull, IsFieldOf
  <2>2. (\A v \in f.null : v = 0) <=> ~d.notNull
    BY <1>3, <1>4, FlagSays
  <2>3. back.nullable = {\A v \in f.null : v = 0}
    BY <1>6, <1>8
  <2>4. (back.nullable = {FALSE}) <=> d.notNull
    BY <2>2, <2>3
  <2>5. (r.nullable = {FALSE}) <=> d.notNull
    BY <1>2, <2>1
  <2> QED BY <2>4, <2>5
<1>14. ParameterSays(back, dialect) = ParameterSays(r, dialect)
  BY <1>11, <1>12, <1>13, Zenon DEF ParameterSays
<1> QED BY <1>5, <1>6, <1>14 DEF r, desc, back

\* A statement is as its parts are.
LEMMA PartsSaid ==
  ASSUME NEW q, NEW r, NEW dialect, DOMAIN q = DOMAIN r,
         \A i \in DOMAIN q : ParameterSays(q[i], dialect) = ParameterSays(r[i], dialect)
  PROVE  [i \in DOMAIN q |-> ParameterSays(q[i], dialect)] = [i \in DOMAIN r |-> ParameterSays(r[i], dialect)]
OBVIOUS

LEMMA ProceduresAreSaid ==
  ASSUME NEW s, AreParameters(s.input, s.dialect), AreParameters(s.output, s.dialect)
  PROVE  ProceduresSay(s, [name |-> "P", source |-> "body",
                           input |-> [i \in DOMAIN s.input |-> ParameterRow(s.input[i], s.dialect)],
                           output |-> [i \in DOMAIN s.output |-> ParameterRow(s.output[i], s.dialect)]])
<1> DEFINE dialect == s.dialect
           rowsIn == [i \in DOMAIN s.input |-> ParameterRow(s.input[i], dialect)]
           rowsOut == [i \in DOMAIN s.output |-> ParameterRow(s.output[i], dialect)]
           p == [name |-> "P", source |-> "body", input |-> rowsIn, output |-> rowsOut]
           desc == ProcedureDescription(p, dialect)
           back == SchemaProcedure(desc)
           Described(i, r) == ParameterDescription(r, i - 1, dialect)
<1>1. /\ \A i \in DOMAIN s.input : IsColumn(s.input[i], dialect) /\ ~s.input[i].own.notNull
      /\ \A i \in DOMAIN s.output : IsColumn(s.output[i], dialect) /\ ~s.output[i].own.notNull
  BY DEF AreParameters
<1> HIDE DEF dialect
<1>2. \A i \in DOMAIN s.input :
        /\ \A t \in Described(i, rowsIn[i]).type : Renders(t, Source(s.input[i]), dialect)
        /\ ParameterSays(SchemaParameter(Described(i, rowsIn[i])), dialect) = ParameterSays(rowsIn[i], dialect)
  BY <1>1, ParameterSaid
<1>3. \A i \in DOMAIN s.output :
        ParameterSays(SchemaParameter(Described(i, rowsOut[i])), dialect) = ParameterSays(rowsOut[i], dialect)
  BY <1>1, ParameterSaid
<1>4. DOMAIN rowsIn = DOMAIN s.input /\ DOMAIN rowsOut = DOMAIN s.output
  OBVIOUS
<1> HIDE DEF rowsIn, rowsOut
<1>5. p.input = rowsIn /\ p.output = rowsOut /\ p.source = "body"
  OBVIOUS
<1> HIDE DEF p
<1>6. /\ desc.input = [i \in DOMAIN rowsIn |-> Described(i, rowsIn[i])]
      /\ desc.output = [i \in DOMAIN rowsOut |-> Described(i, rowsOut[i])] /\ desc.source = p.source
  BY <1>5 DEF ProcedureDescription
<1> HIDE DEF desc, Described
<1>7. /\ back.input = [i \in DOMAIN rowsIn |-> SchemaParameter(Described(i, rowsIn[i]))]
      /\ back.output = [i \in DOMAIN rowsOut |-> SchemaParameter(Described(i, rowsOut[i]))]
      /\ back.source = p.source
  BY <1>6 DEF SchemaProcedure
<1> HIDE DEF back
<1>8. [i \in DOMAIN back.input |-> ParameterSays(back.input[i], dialect)]
        = [i \in DOMAIN p.input |-> ParameterSays(p.input[i], dialect)]
  <2>1. DOMAIN back.input = DOMAIN p.input
    BY <1>5, <1>7
  <2>2. \A i \in DOMAIN back.input : ParameterSays(back.input[i], dialect) = ParameterSays(p.input[i], dialect)
    BY <1>2, <1>4, <1>5, <1>7
  <2> QED BY <2>1, <2>2, PartsSaid
<1>9. [i \in DOMAIN back.output |-> ParameterSays(back.output[i], dialect)]
        = [i \in DOMAIN p.output |-> ParameterSays(p.output[i], dialect)]
  <2>1. DOMAIN back.output = DOMAIN p.output
    BY <1>5, <1>7
  <2>2. \A i \in DOMAIN back.output : ParameterSays(back.output[i], dialect) = ParameterSays(p.output[i], dialect)
    BY <1>3, <1>4, <1>5, <1>7
  <2> QED BY <2>1, <2>2, PartsSaid
<1>10. ProcedureStatement(back, dialect) = ProcedureStatement(p, dialect)
  BY <1>7, <1>8, <1>9, Zenon DEF ProcedureStatement
<1>11. \A i \in DOMAIN s.input : \A t \in desc.input[i].type : Renders(t, Source(s.input[i]), dialect)
  BY <1>2, <1>4, <1>6
<1>12. ProceduresSay(s, p)
  BY <1>10, <1>11, Zenon DEF ProceduresSay, desc, back, dialect
<1> QED BY <1>12 DEF p, rowsIn, rowsOut, dialect

LEMMA FunctionsAreSaid ==
  ASSUME NEW f, NEW S, f.arguments \in Seq(S)
  PROVE  FunctionsSay(f)
<1> DEFINE desc == FunctionDescription(f)
           back == SchemaFunction(desc)
<1>1. /\ desc.name = f.name /\ desc.module = f.module /\ desc.return = f.return
      /\ desc.arguments = [i \in DOMAIN f.arguments |-> [facts |-> DomainFacts(f.arguments[i]),
                                                         type |-> OptionalRendering(SQLType(f.arguments[i]))]]
  BY DEF FunctionDescription
<1> HIDE DEF desc
<1>2. Len(desc.arguments) = Len(f.arguments)
  BY <1>1
<1>3. /\ back.name = f.name /\ back.module = f.module /\ back.return = f.return
      /\ back.arguments = [i \in DOMAIN f.arguments |-> SchemaDomainFromFacts(DomainFacts(f.arguments[i]))]
  BY <1>1 DEF SchemaFunction
<1> HIDE DEF back
<1>4. ASSUME NEW i \in DOMAIN f.arguments PROVE SQLType(back.arguments[i]) = SQLType(f.arguments[i])
  <2>1. SameType(SchemaDomainFromFacts(DomainFacts(f.arguments[i])), f.arguments[i])
    BY DomainFactsKept DEF KeepsFacts
  <2> QED BY <1>3, <2>1, SameTypesShow
<1>5. DOMAIN back.arguments = DOMAIN f.arguments
  BY <1>3
<1>6. (\E d \in Range(back.arguments) : SQLType(d) = RefusedType) <=> (\E d \in Range(f.arguments) : SQLType(d) = RefusedType)
  BY <1>4, <1>5, Zenon DEF Range
<1>7. [i \in DOMAIN back.arguments |-> SQLType(back.arguments[i])] = [i \in DOMAIN f.arguments |-> SQLType(f.arguments[i])]
  BY <1>4, <1>5
<1>8. FunctionStatement(back) = FunctionStatement(f)
  BY <1>3, <1>6, <1>7, Zenon DEF FunctionStatement
<1> QED BY <1>2, <1>8 DEF FunctionsSay, desc, back

-----------------------------------------------------------------------------
(* Foreign keys.                                                           *)

\* A strictly increasing map of the first m numbers into the first n keeps a place
\* for each: where m = n it changes nothing.
Increases(at, m, n) ==
  m \in Nat /\ n \in Nat /\ at \in [1..m -> 1..n] /\ \A i, j \in 1..m : i < j => at[i] < at[j]
LEMMA NoNarrower ==
  ASSUME NEW a \in Nat, NEW b \in Nat, NEW c \in Nat, NEW d \in Nat, a <= b + 1, c <= d + 1,
         NEW f \in [a..b -> c..d], \A x, y \in a..b : x < y => f[x] < f[y]
  PROVE  b - a <= d - c
<1>1. IsFiniteSet(a..b) /\ IsFiniteSet(c..d) /\ Cardinality(a..b) = b - a + 1 /\ Cardinality(c..d) = d - c + 1
  BY FS_Interval
<1>2. CASE Cardinality(c..d) < Cardinality(a..b)
  <2>1. PICK x, y \in a..b : x # y /\ f[x] = f[y]
    BY <1>1, <1>2, FS_PigeonHole
  <2>2. x < y \/ y < x
    BY <2>1
  <2>3. f[x] \in c..d /\ f[y] \in c..d
    OBVIOUS
  <2> QED BY <2>1, <2>2, <2>3
<1>3. CASE ~(Cardinality(c..d) < Cardinality(a..b))
  BY <1>1, <1>3
<1> QED BY <1>2, <1>3
LEMMA Within == \A n \in Nat : \A a, b \in 1..n : a <= b => a \in 1..b /\ b \in a..n
  OBVIOUS
LEMMA SameWidthIsIdentity ==
  ASSUME NEW at, NEW n, Increases(at, n, n), NEW i \in 1..n
  PROVE  at[i] = i
<1>1. n \in Nat /\ at \in [1..n -> 1..n] /\ \A x, y \in 1..n : x < y => at[x] < at[y]
  BY DEF Increases
<1>2. at[i] \in 1..n
  BY <1>1
<1>3. i <= at[i]
  <2> DEFINE f == [x \in 1..i |-> at[x]]
  <2>1. f \in [1..i -> 1..at[i]]
    <3>1. ASSUME NEW x \in 1..i PROVE at[x] \in 1..at[i]
      <4>1. x \in 1..n /\ (x = i \/ x < i)
        BY <1>1
      <4>2. at[x] \in 1..n
        BY <1>1, <4>1
      <4>3. n \in Nat /\ i \in 1..n /\ (x < i => at[x] < at[i])
        BY <1>1, <4>1
      <4>4. at[x] <= at[i]
        BY ONLY <1>2, <4>1, <4>2, <4>3
      <4> QED BY ONLY <1>2, <4>2, <4>3, <4>4, Within
    <3> QED BY <3>1
  <2>2. \A x, y \in 1..i : x < y => f[x] < f[y]
    <3>1. \A x \in 1..i : x \in 1..n /\ f[x] = at[x]
      BY <1>1
    <3> QED BY <1>1, <3>1
  <2> HIDE DEF f
  <2>3. 1 \in Nat /\ i \in Nat /\ at[i] \in Nat /\ 1 <= i + 1 /\ 1 <= at[i] + 1
    BY <1>1, <1>2
  <2>4. i - 1 <= at[i] - 1
    BY ONLY <2>1, <2>2, <2>3, NoNarrower
  <2> QED BY <2>3, <2>4
<1>4. at[i] <= i
  <2> DEFINE f == [x \in i..n |-> at[x]]
  <2>1. f \in [i..n -> at[i]..n]
    <3>1. ASSUME NEW x \in i..n PROVE at[x] \in at[i]..n
      <4>1. x \in 1..n /\ (x = i \/ i < x)
        BY <1>1
      <4>2. at[x] \in 1..n
        BY <1>1, <4>1
      <4>3. n \in Nat /\ i \in 1..n /\ (i < x => at[i] < at[x])
        BY <1>1, <4>1
      <4>4. at[i] <= at[x]
        BY ONLY <1>2, <4>1, <4>2, <4>3
      <4> QED BY ONLY <1>2, <4>2, <4>3, <4>4, Within
    <3> QED BY <3>1
  <2>2. \A x, y \in i..n : x < y => f[x] < f[y]
    <3>1. \A x \in i..n : x \in 1..n /\ f[x] = at[x]
      BY <1>1
    <3> QED BY <1>1, <3>1
  <2> HIDE DEF f
  <2>3. i \in Nat /\ n \in Nat /\ at[i] \in Nat /\ i <= n + 1 /\ at[i] <= n + 1
    BY <1>1, <1>2
  <2>4. n - i <= n - at[i]
    BY ONLY <2>1, <2>2, <2>3, NoNarrower
  <2> QED BY <2>3, <2>4
<1> QED BY <1>1, <1>2, <1>3, <1>4
LEMMA WholeMeansSameWidth ==
  ASSUME NEW at, NEW m, NEW n, Increases(at, m, n)
  PROVE  1..n = Range(at) <=> m = n
<1>1. m \in Nat /\ n \in Nat /\ at \in [1..m -> 1..n] /\ \A x, y \in 1..m : x < y => at[x] < at[y]
  BY DEF Increases
<1>2. ASSUME 1..n = Range(at) PROVE m = n
  <2>1. m <= n
    <3>1. 1 <= m + 1 /\ 1 <= n + 1
      BY <1>1
    <3>2. m - 1 <= n - 1
      BY <1>1, <3>1, NoNarrower
    <3> QED BY <1>1, <3>2
  <2>2. at \in Surjection(1..m, 1..n)
    BY <1>1, <1>2, Zenon DEF Surjection, Range
  <2>3. Cardinality(1..n) <= Cardinality(1..m)
    BY <1>1, <2>2, FS_Interval, FS_Surjection
  <2>4. Cardinality(1..n) = n /\ Cardinality(1..m) = m
    BY <1>1, FS_Interval
  <2>5. n <= m
    BY <2>3, <2>4
  <2> QED BY <1>1, <2>1, <2>5
<1>3. ASSUME m = n PROVE 1..n = Range(at)
  <2>1. Increases(at, n, n)
    BY <1>3
  <2>2. \A i \in 1..n : at[i] = i
    BY <2>1, SameWidthIsIdentity
  <2> QED BY <1>1, <1>3, <2>2 DEF Range
<1> QED BY <1>2, <1>3

LEMMA ForeignKeysAreSaid ==
  ASSUME NEW s, IsForeignKey(s)
  PROVE  LET pairs == IF DOMAIN s.columns = Range(s.at)
                      THEN {[i \in DOMAIN s.columns |-> <<s.columns[i], s.referenced[i]>>]} ELSE {}
         IN BulkForeignKey(SegmentRows(s)) = pairs /\ ForeignKey(s) = pairs
<1> DEFINE n == Len(s.columns)
           m == Len(s.referenced)
           rows == SegmentRows(s)
           pairs == [i \in DOMAIN s.columns |-> <<s.columns[i], s.referenced[i]>>]
           said == IF DOMAIN s.columns = Range(s.at) THEN {pairs} ELSE {}
<1>1. s.columns \in Seq(STRING) /\ s.referenced \in Seq(STRING) /\ s.columns # <<>>
  BY DEF IsForeignKey
<1>2. n \in Nat /\ m \in Nat /\ DOMAIN s.columns = 1..n /\ DOMAIN s.referenced = 1..m
  BY <1>1
<1>3. Increases(s.at, m, n)
  BY <1>2 DEF IsForeignKey, Increases
<1>4. s.at \in [1..m -> 1..n]
  BY <1>3 DEF Increases
<1>5. DOMAIN s.columns = Range(s.at) <=> m = n
  BY <1>2, <1>3, WholeMeansSameWidth
<1>6. ForeignKey(s) = said
  BY <1>1, <1>5 DEF ForeignKey
<1>7. /\ DOMAIN rows = 1..n
      /\ \A i \in 1..n : /\ rows[i][1] = s.columns[i]
                         /\ rows[i][2] = {s.referenced[j] : j \in {x \in DOMAIN s.at : s.at[x] = i}}
  BY <1>2 DEF SegmentRows
<1> HIDE DEF rows
<1>8. CASE m = n
  <2>1. \A i \in 1..n : s.at[i] = i
    BY <1>3, <1>8, SameWidthIsIdentity
  <2>2. \A i \in 1..n : rows[i][2] = {s.referenced[i]}
    <3>1. ASSUME NEW i \in 1..n PROVE {x \in DOMAIN s.at : s.at[x] = i} = {i}
      BY <1>4, <1>8, <2>1
    <3> QED BY <1>7, <3>1
  <2>3. ~\E i \in DOMAIN rows : rows[i][2] = {}
    BY <1>7, <2>2
  <2> HIDE DEF n, m, pairs, said
  <2>4. [i \in DOMAIN rows |-> rows[i][1]] = s.columns
    <3>1. [i \in DOMAIN rows |-> rows[i][1]] = [i \in 1..n |-> s.columns[i]]
      BY <1>7
    <3>2. s.columns = [i \in 1..n |-> s.columns[i]]
      BY <1>1, <1>2
    <3> QED BY <3>1, <3>2
  <2>5. [i \in DOMAIN rows |-> Value(rows[i][2], 0)] = s.referenced
    <3>1. \A i \in 1..n : Value(rows[i][2], 0) = s.referenced[i]
      BY <2>2, ValueOfOne
    <3>2. [i \in DOMAIN rows |-> Value(rows[i][2], 0)] = [i \in 1..n |-> s.referenced[i]]
      BY <1>7, <3>1
    <3>3. s.referenced = [i \in 1..n |-> s.referenced[i]]
      BY <1>1, <1>2, <1>8
    <3> QED BY <3>2, <3>3
  <2>6. BulkForeignKey(rows) = ForeignKey([columns |-> s.columns, referenced |-> s.referenced])
    BY <2>3, <2>4, <2>5, Zenon DEF BulkForeignKey
  <2>7. ForeignKey([columns |-> s.columns, referenced |-> s.referenced]) = ForeignKey(s)
    BY DEF ForeignKey
  <2> QED BY <1>6, <2>6, <2>7 DEF rows, said, pairs
<1>9. CASE m # n
  <2>1. Range(s.at) \subseteq 1..n
    BY <1>4 DEF Range
  <2>2. PICK i \in 1..n : i \notin Range(s.at)
    BY <1>2, <1>5, <1>9, <2>1
  <2>3. rows[i][2] = {}
    BY <1>4, <1>7, <2>2 DEF Range
  <2>4. BulkForeignKey(rows) = {}
    BY <1>7, <2>3 DEF BulkForeignKey
  <2> QED BY <1>5, <1>6, <1>9, <2>4 DEF rows
<1> QED BY <1>8, <1>9

LEMMA SubjectsAreSaid ==
  ASSUME IsSubject(subject), "RDB$1" \in Generated, "D" \notin Generated
  PROVE  DescriptorsSayWhatIsDeclared
<1> DEFINE s == subject
<1>1. CASE s.kind = "column"
  <2>1. IsColumn(s.column, s.dialect) /\ s.key \in BOOLEAN
    BY <1>1, Zenon DEF IsSubject
  <2>2. ColumnsSay(s.column, s.key, ColumnRow(s.column, s.dialect), s.dialect)
    BY <2>1, ColumnsAreSaid
  <2> QED BY <1>1, <2>2, Zenon DEF DescriptorsSayWhatIsDeclared
<1>2. CASE s.kind = "domain"
  <2>1. IsDeclared(s.domain, s.dialect)
    BY <1>2 DEF IsSubject
  <2> QED BY <1>2, <2>1, DomainsAreSaid DEF DescriptorsSayWhatIsDeclared
<1>3. CASE s.kind = "procedure"
  <2>1. AreParameters(s.input, s.dialect) /\ AreParameters(s.output, s.dialect)
    BY <1>3 DEF IsSubject
  <2> QED BY <1>3, <2>1, ProceduresAreSaid DEF DescriptorsSayWhatIsDeclared
<1>4. CASE s.kind = "function"
  <2>1. s.arguments \in Seq(Range(s.arguments))
    BY <1>4, Zenon DEF IsSubject
  <2> DEFINE rows == [i \in DOMAIN s.arguments |-> Field("F", s.arguments[i], 3)]
             f == [name |-> "F", module |-> "M", return |-> 0, arguments |-> rows]
  <2>2. rows \in Seq(Range(rows))
    <3>1. DOMAIN s.arguments = 1..Len(s.arguments) /\ Len(s.arguments) \in Nat
      BY <2>1
    <3>2. rows \in [1..Len(s.arguments) -> Range(rows)]
      BY <3>1 DEF Range
    <3> QED BY <3>1, <3>2
  <2>3. f.arguments = rows
    OBVIOUS
  <2>4. FunctionsSay(f)
    BY <2>2, <2>3, FunctionsAreSaid
  <2> QED BY <1>4, <2>4 DEF DescriptorsSayWhatIsDeclared
<1>5. CASE s.kind = "index"
  BY <1>5, IndexesAreSaid DEF DescriptorsSayWhatIsDeclared
<1>6. CASE s.kind = "trigger"
  <2>1. s.trigger = [x \in TriggerNames |-> s.trigger[x]]
    BY <1>6, Zenon DEF IsSubject, TriggerNames
  <2>2. TriggerStatement(SchemaTrigger(TriggerDescription(s.trigger))) = TriggerStatement(s.trigger)
    BY <2>1, TriggersAreSaid
  <2> QED BY <1>6, <2>2 DEF DescriptorsSayWhatIsDeclared
<1>7. CASE s.kind = "foreign key"
  BY <1>7, ForeignKeysAreSaid DEF DescriptorsSayWhatIsDeclared, IsSubject
<1> QED BY <1>1, <1>2, <1>3, <1>4, <1>5, <1>6, <1>7 DEF IsSubject

\* DescriptorsSayWhatIsDeclared: whatever the engine takes as a declaration, of any
\* width, in either dialect and whether or not the catalog records precision and
\* length, columnDescription, DescribeDomains and the detail renderers say what was
\* declared, and say the same as the catalog's own rows.
THEOREM DeclarationsAreSaid == DescriptorInit => DescriptorsSayWhatIsDeclared
BY SubjectsAreSaid, DescriptorAssumption DEF DescriptorAssumption, DeclarationsAreWritten, DescriptorInit
================================================================================
