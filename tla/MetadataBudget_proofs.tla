------------------------ MODULE MetadataBudget_proofs ------------------------
(***************************************************************************)
(* Proof that permits match their holders, for any number of loops, jobs,  *)
(* loads, stores and permits.                                              *)
(***************************************************************************)
EXTENDS MetadataBudget, FiniteSetTheorems, TLAPS

-----------------------------------------------------------------------------
(* The inductive invariant.                                                *)

\* What TypeOK says pointwise, as functions.
Shapes ==
  /\ next \in [Schedulers -> Nat]
  /\ received \in [Schedulers -> SUBSET Nat]
  /\ job = [l \in Schedulers |-> job[l]]

\* The job that a loop takes permits for is still to be run: nobody but the loop
\* starts it.
TriesWhatIsPending ==
  \A l \in Schedulers : pc[l] \in {"host", "undo", "rewake", "admit"} => next[l] \in Pending(l)

IInv == PermitsMatchHolders /\ Shapes /\ TriesWhatIsPending

-----------------------------------------------------------------------------
(* Holders as the actors at a stage.                                       *)

\* A loop or a load is actor 0 of its name, a job's runner is the actor of its job.
JobActors(l) == {<<l, j>> : j \in Jobs(l)}
Actors == {<<x, 0>> : x \in Schedulers \union Loads} \union UNION {JobActors(l) : l \in Schedulers}

Stage(h) ==
  IF h[1] \in Loads THEN load[h[1]] ELSE IF h[2] = 0 THEN pc[h[1]] ELSE job[h[1]][h[2]]

Holders(stages, stores) == {h \in Actors : Stage(h) \in stages /\ StoreOf[h[1]] \in stores}

\* Those who can hold a permit are finitely many, so that they can be counted.
LEMMA ActorsAreFinite == IsFiniteSet(Actors)
<1>1. IsFiniteSet({<<x, 0>> : x \in Schedulers \union Loads})
  <2> DEFINE S == Schedulers \union Loads
             T == {<<x, 0>> : x \in S}
             f == [x \in S |-> <<x, 0>>]
  <2>1. IsFiniteSet(S)
    BY FS_Union, BudgetAssumption DEF BudgetAssumption
  <2>2. f \in Surjection(S, T)
    BY DEF Surjection
  <2> QED BY <2>1, <2>2, FS_Surjection
<1>2. ASSUME NEW l \in Schedulers
      PROVE  IsFiniteSet(JobActors(l))
  <2> DEFINE f == [j \in Jobs(l) |-> <<l, j>>]
  <2>1. IsFiniteSet(Jobs(l))
    BY FS_Interval, BudgetAssumption DEF BudgetAssumption, Jobs
  <2>2. f \in Surjection(Jobs(l), JobActors(l))
    BY DEF Surjection, JobActors
  <2> QED BY <2>1, <2>2, FS_Surjection
<1>3. IsFiniteSet({JobActors(l) : l \in Schedulers})
  <2> DEFINE T == {JobActors(l) : l \in Schedulers}
             f == [l \in Schedulers |-> JobActors(l)]
  <2>1. f \in Surjection(Schedulers, T)
    BY DEF Surjection
  <2> QED BY <2>1, FS_Surjection, BudgetAssumption DEF BudgetAssumption
<1>4. IsFiniteSet(UNION {JobActors(l) : l \in Schedulers})
  BY <1>2, <1>3, FS_UNION
<1> QED BY <1>1, <1>4, FS_Union DEF Actors

\* The sets the invariant counts are the actors at a stage.
LEMMA HoldersAreAt ==
  ASSUME NEW stages, NEW stores
  PROVE  /\ At(stages, stores) = Holders(stages, stores)
         /\ At(stages, stores)' = Holders(stages, stores)'
<1> USE BudgetAssumption DEF BudgetAssumption, At, Holders, Stage, Actors, JobActors, Jobs
<1>1. At(stages, stores) = Holders(stages, stores)
  OBVIOUS
<1>2. At(stages, stores)' = Holders(stages, stores)'
  OBVIOUS
<1> QED BY <1>1, <1>2

\* Holders are finitely many, now and after a step.
LEMMA HoldersAreFinite ==
  ASSUME NEW stages, NEW stores
  PROVE  /\ IsFiniteSet(Holders(stages, stores)) /\ Cardinality(Holders(stages, stores)) \in Nat
         /\ IsFiniteSet(Holders(stages, stores)') /\ Cardinality(Holders(stages, stores)') \in Nat
<1>1. Holders(stages, stores) \subseteq Actors /\ Holders(stages, stores)' \subseteq Actors
  BY DEF Holders, Actors, JobActors, Jobs
<1> QED BY <1>1, ActorsAreFinite, FS_Subset, FS_CardinalityType

\* All actors but h stay where they are.
OthersStay(h) == \A g \in Actors \ {h} : Stage(g)' = Stage(g)

\* When one actor moves, the holders change by that actor at most.
LEMMA OneMoves ==
  ASSUME NEW h \in Actors, OthersStay(h), NEW stages, NEW stores
  PROVE  LET n == Cardinality(Holders(stages, stores))
             held == Stage(h) \in stages /\ StoreOf[h[1]] \in stores
             holds == Stage(h)' \in stages /\ StoreOf[h[1]] \in stores
         IN  /\ (held <=> holds) => Cardinality(Holders(stages, stores)') = n
             /\ ~held /\ holds  => Cardinality(Holders(stages, stores)') = n + 1
             /\ held /\ ~holds  => Cardinality(Holders(stages, stores)') = n - 1 /\ n > 0
<1> DEFINE H == Holders(stages, stores)
           held == Stage(h) \in stages /\ StoreOf[h[1]] \in stores
           holds == Stage(h)' \in stages /\ StoreOf[h[1]] \in stores
<1>1. IsFiniteSet(H) /\ Cardinality(H) \in Nat
  BY HoldersAreFinite
<1>2. H' = IF holds THEN H \union {h} ELSE H \ {h}
  <2>1. \A g \in Actors \ {h} : g \in H' <=> g \in H
    BY DEF OthersStay, Holders, Actors, JobActors, Jobs
  <2>2. h \in H' <=> holds
    BY DEF Holders, Actors, JobActors, Jobs
  <2>3. H \subseteq Actors /\ H' \subseteq Actors
    BY DEF Holders, Actors, JobActors, Jobs
  <2> QED BY <2>1, <2>2, <2>3
<1>3. h \in H <=> held
  BY DEF Holders
<1>4. CASE held <=> holds
  BY <1>2, <1>3, <1>4
<1>5. CASE ~held /\ holds
  BY <1>1, <1>2, <1>3, <1>5, FS_AddElement
<1>6. CASE held /\ ~holds
  <2>1. Cardinality(H') = Cardinality(H) - 1
    BY <1>1, <1>2, <1>3, <1>6, FS_RemoveElement
  <2>2. Cardinality(H) # 0
    BY <1>1, <1>3, <1>6, FS_EmptySet
  <2> QED BY <1>1, <1>6, <2>1, <2>2
<1> QED BY <1>4, <1>5, <1>6

\* When a holder gives way to another of the same store, their number stays.
LEMMA OneTakesOver ==
  ASSUME NEW g \in Actors, NEW h \in Actors, g # h, StoreOf[g[1]] = StoreOf[h[1]],
         \A a \in Actors \ {g, h} : Stage(a)' = Stage(a),
         NEW stages, NEW stores,
         Stage(g) \in stages, Stage(h) \notin stages,
         Stage(g)' \notin stages, Stage(h)' \in stages
  PROVE  Cardinality(Holders(stages, stores)') = Cardinality(Holders(stages, stores))
<1> DEFINE H == Holders(stages, stores)
<1>1. IsFiniteSet(H) /\ Cardinality(H) \in Nat
  BY HoldersAreFinite
<1>2. CASE StoreOf[g[1]] \notin stores
  <2>1. H' = H
    BY <1>2 DEF Holders, Actors, JobActors, Jobs
  <2> QED BY <2>1
<1>3. CASE StoreOf[g[1]] \in stores
  <2>1. H' = (H \ {g}) \union {h}
    BY <1>3 DEF Holders, Actors, JobActors, Jobs
  <2>2. g \in H /\ h \notin H
    BY <1>3 DEF Holders
  <2>3. IsFiniteSet(H \ {g}) /\ Cardinality(H \ {g}) = Cardinality(H) - 1
    BY <1>1, <2>2, FS_RemoveElement
  <2> DEFINE G == H \ {g}
  <2>4. IsFiniteSet(G) /\ h \notin G
    BY <2>2, <2>3
  <2> HIDE DEF G
  <2>5. Cardinality(G \union {h}) = Cardinality(G) + 1
    BY <2>4, FS_AddElement
  <2> USE DEF G
  <2> QED BY <1>1, <2>1, <2>3, <2>5
<1> QED BY <1>2, <1>3

-----------------------------------------------------------------------------
(* Permits.                                                                *)

PermitsAreHeld ==
  /\ host = Cardinality(Holders(HostHeld, Stores))
  /\ \A s \in Stores : store[s] = Cardinality(Holders(StoreHeld, {s}))

Weight(stage, held) == IF stage \in held THEN 1 ELSE 0

\* One actor moves, and takes or gives back what tells its new stage from the old.
Pays(h) ==
  /\ OthersStay(h)
  /\ host' = host + Weight(Stage(h)', HostHeld) - Weight(Stage(h), HostHeld)
  /\ store' = [store EXCEPT ![StoreOf[h[1]]] =
                 @ + Weight(Stage(h)', StoreHeld) - Weight(Stage(h), StoreHeld)]

\* The counts the runs check are those of the stages.
LEMMA InvariantCounts == TypeOK => (PermitsMatchHolders <=> PermitsAreHeld)
BY HoldersAreAt DEF PermitsMatchHolders, PermitsAreHeld

\* The same after a step.
LEMMA InvariantCountsNext == TypeOK' => (PermitsMatchHolders' <=> PermitsAreHeld')
BY HoldersAreAt DEF PermitsMatchHolders, PermitsAreHeld

\* Who pays keeps the count, and none falls below zero.
LEMMA PayingKeepsCount ==
  ASSUME PermitsAreHeld, TypeOK, NEW h \in Actors, Pays(h)
  PROVE  PermitsAreHeld' /\ host' \in Nat /\ store' \in [Stores -> Nat]
<1>1. StoreOf[h[1]] \in Stores
  BY BudgetAssumption DEF BudgetAssumption, Actors, JobActors
<1>2. OthersStay(h)
  BY DEF Pays
<1>3. host' = Cardinality(Holders(HostHeld, Stores)') /\ host' \in Nat
  <2>1. host' = host + Weight(Stage(h)', HostHeld) - Weight(Stage(h), HostHeld)
    BY DEF Pays
  <2>2. host = Cardinality(Holders(HostHeld, Stores)) /\ host \in Nat
    BY DEF PermitsAreHeld, TypeOK
  <2> QED BY <1>1, <1>2, <2>1, <2>2, OneMoves DEF Weight
<1>4. ASSUME NEW s \in Stores
      PROVE  store'[s] = Cardinality(Holders(StoreHeld, {s})') /\ store'[s] \in Nat
  <2>1. store'[s] = IF s = StoreOf[h[1]]
                    THEN store[s] + Weight(Stage(h)', StoreHeld) - Weight(Stage(h), StoreHeld)
                    ELSE store[s]
    BY DEF Pays, TypeOK
  <2>2. store[s] = Cardinality(Holders(StoreHeld, {s})) /\ store[s] \in Nat
    BY DEF PermitsAreHeld, TypeOK
  <2> QED BY <1>2, <2>1, <2>2, OneMoves DEF Weight
<1>5. store' = [s \in Stores |-> store'[s]]
  BY DEF Pays, TypeOK
<1> QED BY <1>3, <1>4, <1>5 DEF PermitsAreHeld

-----------------------------------------------------------------------------
(* Steps.                                                                  *)

\* A loop moves by its program counter, a job by its state, a load by its own.
LEMMA LoopMoves ==
  ASSUME NEW l \in Schedulers, TypeOK, NEW to,
         pc' = [pc EXCEPT ![l] = to], UNCHANGED <<job, load>>
  PROVE  /\ <<l, 0>> \in Actors /\ OthersStay(<<l, 0>>)
         /\ Stage(<<l, 0>>) = pc[l] /\ Stage(<<l, 0>>)' = to
<1>1. <<l, 0>> \in Actors
  BY DEF Actors
<1>2. l \notin Loads /\ pc'[l] = to /\ \A k \in Schedulers \ {l} : pc'[k] = pc[k]
  BY BudgetAssumption DEF BudgetAssumption, TypeOK
<1>3. Stage(<<l, 0>>) = pc[l] /\ Stage(<<l, 0>>)' = to
  BY <1>2 DEF Stage
<1>4. OthersStay(<<l, 0>>)
  BY <1>2, BudgetAssumption DEF BudgetAssumption, Actors, JobActors, Jobs, OthersStay, Stage
<1> QED BY <1>1, <1>3, <1>4

\* A job goes to another stage and nobody else moves.
LEMMA JobMoves ==
  ASSUME NEW l \in Schedulers, NEW j \in Jobs(l), TypeOK, Shapes, NEW to \in JobState,
         job' = [job EXCEPT ![l][j] = to], UNCHANGED <<pc, load>>
  PROVE  /\ <<l, j>> \in Actors /\ OthersStay(<<l, j>>)
         /\ Stage(<<l, j>>) = job[l][j] /\ Stage(<<l, j>>)' = to
BY BudgetAssumption DEF BudgetAssumption, TypeOK, Shapes, Actors, JobActors, Jobs, OthersStay, Stage

\* The jobs stay well formed.
LEMMA JobTyped ==
  ASSUME NEW l \in Schedulers, NEW j \in Jobs(l), TypeOK, Shapes, NEW to \in JobState,
         job' = [job EXCEPT ![l][j] = to]
  PROVE  /\ \A k \in Schedulers : job'[k] \in [Jobs(k) -> JobState]
         /\ job' = [k \in Schedulers |-> job'[k]]
         /\ \A k \in Schedulers : \A i \in Jobs(k) : <<k, i>> # <<l, j>> => job'[k][i] = job[k][i]
BY DEF TypeOK, Shapes

\* A load goes to another stage and nobody else moves.
LEMMA LoadMoves ==
  ASSUME NEW d \in Loads, TypeOK, NEW to, Goto(d, to), UNCHANGED <<pc, job>>
  PROVE  /\ <<d, 0>> \in Actors /\ OthersStay(<<d, 0>>)
         /\ Stage(<<d, 0>>) = load[d] /\ Stage(<<d, 0>>)' = to
BY BudgetAssumption DEF BudgetAssumption, TypeOK, Actors, JobActors, Jobs, OthersStay, Stage, Goto

\* A permit goes back at the stages that hold it, and the next stage does not.
LEMMA GivingBackPays ==
  ASSUME TypeOK, NEW h \in Actors, OthersStay(h),
         GiveBack(Stage(h), Stage(h)', StoreOf[h[1]])
  PROVE  Pays(h) /\ host' <= host /\ \A s \in Stores : store'[s] <= store[s]
<1>1. StoreOf[h[1]] \in Stores
  BY BudgetAssumption DEF BudgetAssumption, Actors, JobActors
<1> USE <1>1 DEF Pays, Weight, HostHeld, StoreHeld, TypeOK, permits
<1>2. CASE Stage(h) = "giveHost"
  BY <1>2 DEF GiveBack
<1>3. CASE Stage(h) = "tellHost"
  BY <1>3 DEF GiveBack
<1>4. CASE Stage(h) = "giveStore"
  BY <1>4 DEF GiveBack
<1>5. CASE Stage(h) = "tellStore"
  BY <1>5 DEF GiveBack
<1> QED BY <1>2, <1>3, <1>4, <1>5 DEF GiveBack

Epochs == storeClosed \in [Schedulers -> BOOLEAN] /\ hostClosed \in [Schedulers -> BOOLEAN]

\* A broadcast leaves wakers that are wakers.
LEMMA GivingBackTellsAll ==
  ASSUME Epochs, NEW from, NEW to, NEW s, GiveBack(from, to, s)
  PROVE  Epochs'
<1>1. CASE UNCHANGED epochs
  BY <1>1 DEF Epochs, epochs
<1>2. CASE HostBroadcast /\ UNCHANGED storeClosed
  BY <1>2, Zenon DEF Epochs, HostBroadcast
<1>3. CASE StoreBroadcast(s) /\ UNCHANGED hostClosed
  BY <1>3, Zenon DEF Epochs, StoreBroadcast
<1> QED BY <1>1, <1>2, <1>3, Zenon DEF GiveBack

\* TypeOK without the permits and the epochs.
LoopsTyped ==
  /\ pc \in [Schedulers -> LoopPC]
  /\ sawStoreFull \in [Schedulers -> BOOLEAN] /\ sawHostFull \in [Schedulers -> BOOLEAN]
  /\ cancelled \in [Schedulers -> BOOLEAN]
  /\ \A l \in Schedulers : next[l] \in 1..(JobsOf[l] + 1) /\ received[l] \subseteq Jobs(l)

WorkTyped ==
  /\ \A l \in Schedulers : job[l] \in [Jobs(l) -> JobState]
  /\ load \in [Loads -> LoadState]

\* What is left to show of a step in which one actor pays.
LEMMA PayingKeepsInv ==
  ASSUME IInv, NEW h \in Actors, Pays(h),
         host' <= HostCap, \A s \in Stores : store'[s] <= StoreCap,
         Epochs', LoopsTyped', WorkTyped', Shapes', TriesWhatIsPending'
  PROVE  IInv'
<1>1. TypeOK /\ PermitsAreHeld
  BY InvariantCounts DEF IInv, PermitsMatchHolders
<1>2. PermitsAreHeld' /\ host' \in Nat /\ store' \in [Stores -> Nat]
  BY <1>1, PayingKeepsCount
<1>3. host' \in 0..HostCap /\ store' \in [Stores -> 0..StoreCap]
  BY <1>2, BudgetAssumption DEF BudgetAssumption
<1>4. TypeOK'
  BY <1>3 DEF TypeOK, Epochs, LoopsTyped, WorkTyped
<1> QED BY <1>2, <1>4, InvariantCountsNext DEF IInv

\* A move between two stages that hold the same is paid for by doing nothing.
LEMMA MovingFree ==
  ASSUME TypeOK, NEW h \in Actors, OthersStay(h), UNCHANGED permits,
         Stage(h) \in HostHeld <=> Stage(h)' \in HostHeld,
         Stage(h) \in StoreHeld <=> Stage(h)' \in StoreHeld
  PROVE  Pays(h)
BY DEF Pays, Weight, TypeOK, permits

\* The parts of the invariant that type the variables.
LEMMA InvariantTypes == IInv => TypeOK /\ Epochs /\ LoopsTyped /\ WorkTyped
BY DEF IInv, PermitsMatchHolders, TypeOK, Epochs, LoopsTyped, WorkTyped

\* No count exceeds its capacity.
LEMMA PermitsInBounds ==
  TypeOK => host <= HostCap /\ \A s \in Stores : store[s] <= StoreCap
BY BudgetAssumption DEF TypeOK, BudgetAssumption

\* Who gives back stays within what there is.
LEMMA BoundsShrink ==
  ASSUME IInv, NEW h \in Actors, Pays(h),
         host' <= host, \A s \in Stores : store'[s] <= store[s]
  PROVE  host' <= HostCap /\ \A s \in Stores : store'[s] <= StoreCap
<1>1. TypeOK /\ host' \in Nat /\ store' \in [Stores -> Nat]
  BY InvariantTypes, InvariantCounts, PayingKeepsCount DEF IInv
<1>2. \A s \in Stores : store[s] \in Nat /\ store[s] <= StoreCap /\ store'[s] \in Nat
  BY <1>1, BudgetAssumption DEF TypeOK, BudgetAssumption
<1> QED BY <1>1, <1>2, BudgetAssumption DEF TypeOK, BudgetAssumption

\* A store permit taken under its guard, or given back, is paid for.
LEMMA StorePermitPays ==
  ASSUME TypeOK, NEW h \in Actors, OthersStay(h), UNCHANGED host,
         Stage(h) \in HostHeld <=> Stage(h)' \in HostHeld,
         \/ /\ Stage(h) \notin StoreHeld /\ Stage(h)' \in StoreHeld
            /\ store[StoreOf[h[1]]] < StoreCap
            /\ store' = [store EXCEPT ![StoreOf[h[1]]] = @ + 1]
         \/ /\ Stage(h) \in StoreHeld /\ Stage(h)' \notin StoreHeld
            /\ store' = [store EXCEPT ![StoreOf[h[1]]] = @ - 1]
  PROVE  Pays(h) /\ host' <= HostCap /\ \A t \in Stores : store'[t] <= StoreCap
<1> DEFINE s == StoreOf[h[1]]
           n == store[s] + Weight(Stage(h)', StoreHeld) - Weight(Stage(h), StoreHeld)
<1>1. s \in Stores
  BY BudgetAssumption DEF BudgetAssumption, Actors, JobActors
<1>2. /\ host \in Nat /\ host <= HostCap
      /\ \A t \in Stores : store[t] \in Nat /\ store[t] <= StoreCap
  BY BudgetAssumption DEF TypeOK, BudgetAssumption
<1>3. n <= StoreCap /\ store' = [store EXCEPT ![s] = n]
  BY <1>1, <1>2, BudgetAssumption DEF Weight, BudgetAssumption
<1>4. \A t \in Stores : store'[t] = IF t = s THEN n ELSE store[t]
  BY <1>3 DEF TypeOK
<1>5. \A t \in Stores : store'[t] <= StoreCap
  BY <1>2, <1>3, <1>4
<1>6. host' = host + Weight(Stage(h)', HostHeld) - Weight(Stage(h), HostHeld)
  BY <1>2 DEF Weight
<1> QED BY <1>2, <1>3, <1>5, <1>6 DEF Pays

\* Steps of a loop that neither take nor give a permit.
LEMMA QuietLoopStep ==
  ASSUME IInv, NEW l \in Schedulers,
         Starts(l) \/ Top(l) \/ EndPass(l) \/ SkipJob(l) \/ TellUndo(l) \/ Unpark(l) \/ ReceiveResult(l)
  PROVE  IInv'
<1> DEFINE h == <<l, 0>>
<1>1. TypeOK /\ Epochs /\ LoopsTyped /\ WorkTyped
  BY InvariantTypes
<1>2. h \in Actors /\ Pays(h)
  <2>1. UNCHANGED <<permits, job, load>>
    BY DEF Starts, Top, EndPass, SkipJob, TellUndo, Unpark, ReceiveResult, GoesRound, permits
  <2>2. /\ pc[l] \in {"off", "top", "try", "rewake", "park"}
        /\ pc' = [pc EXCEPT ![l] = pc'[l]] /\ pc'[l] \in {"top", "try", "park", "done"}
    BY <1>1 DEF Starts, Top, EndPass, SkipJob, TellUndo, Unpark, ReceiveResult, GoesRound, LoopsTyped
  <2>3. h \in Actors /\ OthersStay(h) /\ Stage(h) = pc[l] /\ Stage(h)' = pc'[l]
    BY <1>1, <2>1, <2>2, LoopMoves
  <2> QED BY <1>1, <2>1, <2>2, <2>3, MovingFree DEF HostHeld, StoreHeld
<1>3. host' <= HostCap /\ \A s \in Stores : store'[s] <= StoreCap
  BY <1>1, PermitsInBounds DEF Starts, Top, EndPass, SkipJob, TellUndo, Unpark, ReceiveResult, GoesRound, permits
<1>4. Epochs'
  <2>1. CASE Top(l)
    BY <1>1, <2>1, Zenon DEF Top, Epochs, epochs
  <2>2. CASE TellUndo(l)
    BY <1>1, <2>2, Zenon DEF TellUndo, Epochs, StoreBroadcast
  <2>3. CASE Starts(l) \/ EndPass(l) \/ SkipJob(l)
    BY <1>1, <2>3 DEF Starts, EndPass, SkipJob, Epochs, epochs
  <2>4. CASE Unpark(l) \/ ReceiveResult(l)
    <3>1. GoesRound(l)
      BY <2>4 DEF Unpark, ReceiveResult
    <3> QED BY <1>1, <3>1, Zenon DEF GoesRound, Epochs
  <2> QED BY <2>1, <2>2, <2>3, <2>4
<1>5. WorkTyped'
  BY <1>1 DEF Starts, Top, EndPass, SkipJob, TellUndo, Unpark, ReceiveResult, GoesRound, WorkTyped, Jobs
<1>6. LoopsTyped' /\ Shapes'
  <2> USE <1>1, BudgetAssumption DEF BudgetAssumption, LoopsTyped, IInv, Shapes, LoopPC, Stages
  <2>1. CASE Starts(l) \/ Top(l)
    <3>1. \E to \in {"top", "done", "try"} : pc' = [pc EXCEPT ![l] = to]
      BY <2>1, Zenon DEF Starts, Top
    <3>2. UNCHANGED <<next, sawStoreFull, sawHostFull, received, cancelled, job>>
      BY <2>1 DEF Starts, Top
    <3> QED BY <3>1, <3>2
  <2>2. CASE EndPass(l)
    BY <2>2 DEF EndPass
  <2>3. CASE SkipJob(l)
    BY <2>3 DEF SkipJob, Advance, PassOver
  <2>4. CASE TellUndo(l)
    BY <2>4 DEF TellUndo, Advance, TriesWhatIsPending, Pending, Jobs
  <2>5. CASE Unpark(l) \/ ReceiveResult(l)
    <3>1. sawStoreFull' \in [Schedulers -> BOOLEAN] /\ sawHostFull' \in [Schedulers -> BOOLEAN]
      BY <2>5, Zenon DEF Unpark, ReceiveResult, GoesRound
    <3>2. /\ received' \in [Schedulers -> SUBSET Nat]
          /\ \A k \in Schedulers : received'[k] \subseteq Jobs(k)
      BY <2>5 DEF Unpark, ReceiveResult, Sent, Jobs
    <3>3. pc' = [pc EXCEPT ![l] = "top"] /\ UNCHANGED <<next, cancelled, job>>
      BY <2>5 DEF Unpark, ReceiveResult, GoesRound
    <3> QED BY <3>1, <3>2, <3>3 DEF Jobs
  <2> QED BY <2>1, <2>2, <2>3, <2>4, <2>5
<1>7. TriesWhatIsPending'
  <2>1. pc'[l] \in {"top", "try", "park", "done"}
    BY <1>1 DEF Starts, Top, EndPass, SkipJob, TellUndo, Unpark, ReceiveResult, GoesRound, LoopsTyped
  <2>2. job' = job /\ \A k \in Schedulers \ {l} : pc'[k] = pc[k] /\ next'[k] = next[k]
    BY <1>1 DEF Starts, Top, EndPass, SkipJob, Advance, TellUndo, Unpark, ReceiveResult, GoesRound, LoopsTyped, IInv, Shapes
  <2> QED BY <2>1, <2>2 DEF IInv, TriesWhatIsPending, Pending, Jobs
<1> QED BY <1>2, <1>3, <1>4, <1>5, <1>6, <1>7, PayingKeepsInv

\* Permits are taken under the guard that one is free.
LEMMA TryStoreStep == ASSUME IInv, NEW l \in Schedulers, TryStore(l) PROVE IInv'
<1> DEFINE h == <<l, 0>>
           s == StoreOf[l]
<1> USE DEF TryStore
<1>1. TypeOK /\ Epochs /\ LoopsTyped /\ WorkTyped /\ Shapes /\ TriesWhatIsPending
  BY InvariantTypes DEF IInv
<1>2. s \in Stores /\ next[l] \in Jobs(l) /\ JobsOf[l] \in Nat
  BY BudgetAssumption DEF BudgetAssumption, Pending
<1>3. Epochs' /\ WorkTyped'
  BY <1>1 DEF Epochs, epochs, WorkTyped, Jobs
<1>4. CASE store[s] < StoreCap
  <2>1. /\ store' = [store EXCEPT ![s] = @ + 1] /\ pc' = [pc EXCEPT ![l] = "host"]
        /\ UNCHANGED <<host, next, sawStoreFull, sawHostFull, received, cancelled, job, load>>
    BY <1>4
  <2>2. h \in Actors /\ OthersStay(h) /\ Stage(h) = "try" /\ Stage(h)' = "host"
    BY <1>1, <2>1, LoopMoves
  <2>3. Pays(h) /\ host' <= HostCap /\ \A t \in Stores : store'[t] <= StoreCap
    BY <1>1, <1>4, <2>1, <2>2, StorePermitPays DEF HostHeld, StoreHeld
  <2>5. LoopsTyped' /\ Shapes' /\ TriesWhatIsPending'
    BY <1>1, <2>1 DEF LoopsTyped, Shapes, TriesWhatIsPending, Pending, Jobs, LoopPC
  <2> QED BY <1>3, <2>2, <2>3, <2>5, PayingKeepsInv
<1>5. CASE ~(store[s] < StoreCap)
  <2>1. /\ sawStoreFull' = [sawStoreFull EXCEPT ![l] = TRUE]
        /\ next' = [next EXCEPT ![l] = @ + 1]
        /\ UNCHANGED <<permits, pc, sawHostFull, received, cancelled, job, load>>
    BY <1>5 DEF Advance, permits
  <2>2. h \in Actors /\ OthersStay(h) /\ Stage(h)' = Stage(h)
    <3>1. pc' = [pc EXCEPT ![l] = pc[l]]
      BY <1>1, <2>1 DEF LoopsTyped
    <3> QED BY <1>1, <2>1, <3>1, LoopMoves
  <2>3. Pays(h)
    BY <1>1, <2>1, <2>2, MovingFree
  <2>4. host' <= HostCap /\ \A t \in Stores : store'[t] <= StoreCap
    BY <1>1, <2>1, PermitsInBounds DEF permits
  <2>5. Shapes' /\ TriesWhatIsPending'
    BY <1>1, <2>1 DEF Shapes, TriesWhatIsPending, Pending, Jobs
  <2>6. LoopsTyped'
    <3>1. sawStoreFull' \in [Schedulers -> BOOLEAN]
      BY <1>1, <2>1, Zenon DEF LoopsTyped
    <3> QED BY <1>1, <1>2, <2>1, <3>1 DEF LoopsTyped, Shapes, Jobs
  <2> QED BY <1>3, <2>2, <2>3, <2>4, <2>5, <2>6, PayingKeepsInv
<1> QED BY <1>4, <1>5

\* tryHost takes a host permit or fails; the store's is held meanwhile.
LEMMA TryHostStep == ASSUME IInv, NEW l \in Schedulers, TryHost(l) PROVE IInv'
<1> DEFINE h == <<l, 0>>
           to == IF host < HostCap THEN "admit" ELSE "undo"
<1> USE DEF TryHost
<1>1. TypeOK /\ Epochs /\ LoopsTyped /\ WorkTyped /\ Shapes /\ TriesWhatIsPending
  BY InvariantTypes DEF IInv
<1>2. Epochs' /\ WorkTyped'
  BY <1>1 DEF Epochs, epochs, WorkTyped, Jobs
<1>3. pc' = [pc EXCEPT ![l] = to] /\ UNCHANGED <<store, job, load>>
  OBVIOUS
<1>4. h \in Actors /\ OthersStay(h) /\ Stage(h) = "host" /\ Stage(h)' = to
  BY <1>1, <1>3, LoopMoves
<1>5. Pays(h)
  BY <1>1, <1>3, <1>4 DEF Pays, Weight, HostHeld, StoreHeld, TypeOK
<1>6. host' <= HostCap /\ \A t \in Stores : store'[t] <= StoreCap
  BY <1>1, PermitsInBounds, BudgetAssumption DEF TypeOK, BudgetAssumption
<1>7. LoopsTyped' /\ Shapes' /\ TriesWhatIsPending'
  BY <1>1, <1>3 DEF LoopsTyped, Shapes, TriesWhatIsPending, Pending, Jobs, LoopPC
<1> QED BY <1>2, <1>4, <1>5, <1>6, <1>7, PayingKeepsInv

\* Without a host permit the store's goes back.
LEMMA UndoStoreStep == ASSUME IInv, NEW l \in Schedulers, UndoStore(l) PROVE IInv'
<1> DEFINE h == <<l, 0>>
<1> USE DEF UndoStore
<1>1. TypeOK /\ Epochs /\ LoopsTyped /\ WorkTyped /\ Shapes /\ TriesWhatIsPending
  BY InvariantTypes DEF IInv
<1>2. Epochs' /\ WorkTyped'
  BY <1>1 DEF Epochs, epochs, WorkTyped, Jobs
<1>3. h \in Actors /\ OthersStay(h) /\ Stage(h) = "undo" /\ Stage(h)' = "rewake"
  BY <1>1, LoopMoves
<1>4. Pays(h) /\ host' <= HostCap /\ \A t \in Stores : store'[t] <= StoreCap
  BY <1>1, <1>3, StorePermitPays DEF HostHeld, StoreHeld
<1>6. LoopsTyped' /\ Shapes' /\ TriesWhatIsPending'
  BY <1>1 DEF LoopsTyped, Shapes, TriesWhatIsPending, Pending, Jobs, LoopPC
<1> QED BY <1>2, <1>3, <1>4, <1>6, PayingKeepsInv

\* A generation that was cancelled keeps both permits until it has given them back.
LEMMA RejectStep ==
  ASSUME IInv, NEW l \in Schedulers, (Admit(l) /\ cancelled[l]) \/ RejectGivesBack(l)
  PROVE  IInv'
<1> DEFINE h == <<l, 0>>
<1>1. TypeOK /\ Epochs /\ LoopsTyped /\ WorkTyped /\ Shapes /\ TriesWhatIsPending
  BY InvariantTypes DEF IInv
<1>2. PICK to \in Stages :
        /\ pc' = [pc EXCEPT ![l] = to]
        /\ UNCHANGED <<next, sawStoreFull, sawHostFull, received, cancelled, job, load>>
        /\ \/ pc[l] = "admit" /\ to = "giveHost" /\ UNCHANGED <<permits, epochs>>
           \/ GiveBack(pc[l], to, StoreOf[l])
  <2>1. CASE Admit(l) /\ cancelled[l]
    BY <2>1 DEF Admit, Stages
  <2>2. CASE RejectGivesBack(l)
    BY <2>2 DEF RejectGivesBack
  <2> QED BY <2>1, <2>2
<1>3. h \in Actors /\ OthersStay(h) /\ Stage(h) = pc[l] /\ Stage(h)' = to
  BY <1>1, <1>2, LoopMoves
<1>4. CASE pc[l] = "admit" /\ to = "giveHost" /\ UNCHANGED <<permits, epochs>>
  <2>1. Pays(h)
    BY <1>1, <1>3, <1>4, MovingFree DEF HostHeld, StoreHeld
  <2>2. host' <= HostCap /\ \A t \in Stores : store'[t] <= StoreCap
    BY <1>1, <1>4, PermitsInBounds DEF permits
  <2>3. Epochs' /\ WorkTyped'
    BY <1>1, <1>2, <1>4 DEF Epochs, epochs, WorkTyped, Jobs
  <2>4. LoopsTyped' /\ Shapes' /\ TriesWhatIsPending'
    BY <1>1, <1>2, <1>4 DEF LoopsTyped, Shapes, TriesWhatIsPending, Pending, Jobs, LoopPC, Stages
  <2> QED BY <1>3, <2>1, <2>2, <2>3, <2>4, PayingKeepsInv
<1>5. CASE GiveBack(pc[l], to, StoreOf[l])
  <2>1. Pays(h) /\ host' <= host /\ \A s \in Stores : store'[s] <= store[s]
    BY <1>1, <1>3, <1>5, GivingBackPays
  <2>2. host' <= HostCap /\ \A t \in Stores : store'[t] <= StoreCap
    BY <1>3, <2>1, BoundsShrink
  <2>3. Epochs'
    BY <1>1, <1>5, GivingBackTellsAll
  <2>4. WorkTyped' /\ LoopsTyped' /\ Shapes' /\ TriesWhatIsPending'
    BY <1>1, <1>2 DEF WorkTyped, LoopsTyped, Shapes, TriesWhatIsPending, Pending, Jobs, LoopPC, Stages
  <2> QED BY <1>3, <2>1, <2>2, <2>3, <2>4, PayingKeepsInv
<1> QED BY <1>2, <1>4, <1>5

\* The slot that a loop acquired is the runner's from then on.
LEMMA AdmitStep == ASSUME IInv, NEW l \in Schedulers, Admit(l), ~cancelled[l] PROVE IInv'
<1>1. TypeOK /\ Epochs /\ LoopsTyped /\ WorkTyped /\ Shapes /\ TriesWhatIsPending
  BY InvariantTypes DEF IInv
<1>2. /\ pc[l] = "admit" /\ pc' = [pc EXCEPT ![l] = "try"]
      /\ job' = [job EXCEPT ![l][next[l]] = "running"]
      /\ next' = [next EXCEPT ![l] = @ + 1]
      /\ UNCHANGED <<permits, epochs, sawStoreFull, sawHostFull, received, cancelled, load>>
  BY DEF Admit, Advance
<1>3. PICK j \in Jobs(l) : j = next[l] /\ job[l][j] = "pending" /\ JobsOf[l] \in Nat
  BY <1>1, <1>2, BudgetAssumption DEF TriesWhatIsPending, Pending, BudgetAssumption
<1>4. /\ \A k \in Schedulers : job'[k] \in [Jobs(k) -> JobState]
      /\ job' = [k \in Schedulers |-> job'[k]]
      /\ \A k \in Schedulers : \A i \in Jobs(k) : <<k, i>> # <<l, j>> => job'[k][i] = job[k][i]
      /\ job'[l][j] = "running"
  <2>1. "running" \in JobState
    BY DEF JobState
  <2>2. job'[l][j] = "running"
    BY <1>1, <1>2, <1>3 DEF Shapes, WorkTyped
  <2> QED BY <1>1, <1>2, <1>3, <2>1, <2>2, JobTyped
<1> DEFINE g == <<l, 0>>
           h == <<l, j>>
<1>5. PermitsAreHeld'
  <2>1. g \in Actors /\ h \in Actors /\ g # h
    BY <1>3 DEF Actors, JobActors, Jobs
  <2>2. \A a \in Actors \ {g, h} : Stage(a)' = Stage(a)
    <3>1. ASSUME NEW a \in Actors, a # g, a # h
          PROVE  Stage(a)' = Stage(a)
      <4>1. CASE \E x \in Schedulers \union Loads : a = <<x, 0>>
        BY <1>1, <1>2, <3>1, <4>1, BudgetAssumption DEF BudgetAssumption, Stage, LoopsTyped
      <4>2. CASE \E k \in Schedulers : \E i \in Jobs(k) : a = <<k, i>>
        BY <1>2, <1>4, <3>1, <4>2, BudgetAssumption DEF BudgetAssumption, Stage, Jobs
      <4> QED BY <4>1, <4>2 DEF Actors, JobActors
    <3> QED BY <3>1
  <2>3. /\ Stage(g) = "admit" /\ Stage(g)' = "try"
        /\ Stage(h) = "pending" /\ Stage(h)' = "running"
    <3>1. l \notin Loads /\ j # 0
      BY <1>3, BudgetAssumption DEF BudgetAssumption, Jobs
    <3>2. pc'[l] = "try"
      BY <1>1, <1>2 DEF LoopsTyped
    <3> QED BY <1>2, <1>3, <1>4, <3>1, <3>2 DEF Stage
  <2>4. \A stores : /\ Cardinality(Holders(HostHeld, stores)') = Cardinality(Holders(HostHeld, stores))
                    /\ Cardinality(Holders(StoreHeld, stores)') = Cardinality(Holders(StoreHeld, stores))
    <3>1. StoreOf[g[1]] = StoreOf[h[1]]
      OBVIOUS
    <3> HIDE DEF g, h
    <3> QED BY <2>1, <2>2, <2>3, <3>1, OneTakesOver DEF HostHeld, StoreHeld
  <2>5. PermitsAreHeld
    BY InvariantCounts DEF IInv, PermitsMatchHolders
  <2> QED BY <1>2, <2>4, <2>5 DEF PermitsAreHeld, permits
<1>6. LoopsTyped'
  BY <1>1, <1>2, <1>3 DEF LoopsTyped, Jobs, LoopPC
<1>7. TypeOK'
  <2>1. host' = host /\ store' = store /\ Epochs' /\ WorkTyped'
    BY <1>1, <1>2, <1>4 DEF permits, epochs, Epochs, WorkTyped, Jobs
  <2> QED BY <1>1, <1>6, <2>1 DEF TypeOK, LoopsTyped, Epochs, WorkTyped
<1>8. Shapes'
  BY <1>1, <1>2, <1>4 DEF Shapes, LoopsTyped
<1>9. TriesWhatIsPending'
  <2>1. ASSUME NEW k \in Schedulers, pc'[k] \in {"host", "undo", "rewake", "admit"}
        PROVE  next'[k] \in Jobs(k) /\ job'[k][next'[k]] = "pending"
    <3>1. k # l /\ pc'[k] = pc[k] /\ next'[k] = next[k]
      BY <1>1, <1>2, <2>1 DEF LoopsTyped, Shapes
    <3>2. next[k] \in Jobs(k) /\ job[k][next[k]] = "pending"
      BY <1>1, <2>1, <3>1 DEF TriesWhatIsPending, Pending
    <3> QED BY <1>4, <3>1, <3>2
  <2> QED BY <2>1 DEF TriesWhatIsPending, Pending, Jobs
<1> QED BY <1>5, <1>7, <1>8, <1>9, InvariantCountsNext DEF IInv

\* A loop's context ends.
LEMMA CancelStep == ASSUME IInv, NEW l \in Schedulers, Cancel(l) PROVE IInv'
<1>1. TypeOK /\ Epochs /\ LoopsTyped /\ WorkTyped /\ Shapes /\ TriesWhatIsPending /\ PermitsAreHeld
  BY InvariantTypes, InvariantCounts DEF IInv, PermitsMatchHolders
<1>2. UNCHANGED <<permits, epochs, loop, job, load>>
  BY DEF Cancel
<1>3. cancelled' \in [Schedulers -> BOOLEAN]
  BY <1>1, Zenon DEF Cancel, LoopsTyped
<1>4. TypeOK'
  BY <1>1, <1>2, <1>3 DEF TypeOK, permits, epochs, loop, Jobs
<1>5. PermitsAreHeld'
  BY <1>1, <1>2 DEF PermitsAreHeld, Holders, Actors, JobActors, Jobs, Stage, permits, loop
<1>6. Shapes' /\ TriesWhatIsPending'
  BY <1>1, <1>2 DEF Shapes, TriesWhatIsPending, Pending, Jobs, loop
<1> QED BY <1>4, <1>5, <1>6, InvariantCountsNext DEF IInv

\* A runner's job is no longer pending, so no loop takes permits for it.
LEMMA RunnerStep ==
  ASSUME IInv, NEW l \in Schedulers, NEW j \in Jobs(l),
         NativeReturn(l, j) \/ RunnerGivesBack(l, j)
  PROVE  IInv'
<1> DEFINE h == <<l, j>>
<1>1. TypeOK /\ Epochs /\ LoopsTyped /\ WorkTyped /\ Shapes /\ TriesWhatIsPending
  BY InvariantTypes DEF IInv
<1>2. PICK to \in Stages :
        /\ job' = [job EXCEPT ![l][j] = to]
        /\ UNCHANGED <<loop, cancelled, load>>
        /\ \/ job[l][j] = "running" /\ to = "giveHost" /\ UNCHANGED <<permits, epochs>>
           \/ GiveBack(job[l][j], to, StoreOf[l])
  <2>1. CASE NativeReturn(l, j)
    BY <2>1 DEF NativeReturn, Stages
  <2>2. CASE RunnerGivesBack(l, j)
    BY <2>2 DEF RunnerGivesBack
  <2> QED BY <2>1, <2>2
<1>3. h \in Actors /\ OthersStay(h) /\ Stage(h) = job[l][j] /\ Stage(h)' = to
  BY <1>1, <1>2, JobMoves DEF JobState, loop
<1>4. WorkTyped' /\ Shapes'
  <2>1. /\ \A k \in Schedulers : job'[k] \in [Jobs(k) -> JobState]
        /\ job' = [k \in Schedulers |-> job'[k]]
    BY <1>1, <1>2, JobTyped DEF JobState
  <2> QED BY <1>1, <1>2, <2>1 DEF WorkTyped, Shapes, Jobs, loop
<1>5. TriesWhatIsPending'
  <2>1. job[l][j] # "pending"
    BY <1>2 DEF GiveBack
  <2>2. \A k \in Schedulers : \A i \in Jobs(k) : <<k, i>> # <<l, j>> => job'[k][i] = job[k][i]
    BY <1>1, <1>2, JobTyped DEF JobState
  <2>3. \A k \in Schedulers : \A i \in Jobs(k) : job[k][i] = "pending" => job'[k][i] = "pending"
    BY <2>1, <2>2
  <2> QED BY <1>1, <1>2, <2>3 DEF TriesWhatIsPending, Pending, Jobs, loop
<1>6. LoopsTyped'
  BY <1>1, <1>2 DEF LoopsTyped, Jobs, loop
<1>7. CASE job[l][j] = "running" /\ to = "giveHost" /\ UNCHANGED <<permits, epochs>>
  <2>1. Pays(h)
    BY <1>1, <1>3, <1>7, MovingFree DEF HostHeld, StoreHeld
  <2>2. host' <= HostCap /\ \A t \in Stores : store'[t] <= StoreCap
    BY <1>1, <1>7, PermitsInBounds DEF permits
  <2>3. Epochs'
    BY <1>1, <1>7 DEF Epochs, epochs
  <2> QED BY <1>3, <1>4, <1>5, <1>6, <2>1, <2>2, <2>3, PayingKeepsInv
<1>8. CASE GiveBack(job[l][j], to, StoreOf[l])
  <2>1. Pays(h) /\ host' <= host /\ \A s \in Stores : store'[s] <= store[s]
    BY <1>1, <1>3, <1>8, GivingBackPays
  <2>2. host' <= HostCap /\ \A t \in Stores : store'[t] <= StoreCap
    BY <1>3, <2>1, BoundsShrink
  <2>3. Epochs'
    BY <1>1, <1>8, GivingBackTellsAll
  <2> QED BY <1>3, <1>4, <1>5, <1>6, <2>1, <2>2, <2>3, PayingKeepsInv
<1> QED BY <1>2, <1>7, <1>8

\* A load that takes, gives back or moves leaves every loop and every job alone.
LEMMA LoadLeavesLoops ==
  ASSUME IInv, UNCHANGED <<loop, cancelled, job>>
  PROVE  LoopsTyped' /\ Shapes' /\ TriesWhatIsPending'
BY InvariantTypes DEF IInv, LoopsTyped, Shapes, TriesWhatIsPending, Pending, Jobs, loop

\* A load asks for a permit, gives up, returns and gives back.
LEMMA LoadMovesStep ==
  ASSUME IInv, NEW d \in Loads,
         LoadWants(d) \/ LoadGivesUp(d) \/ LoadReturns(d) \/ LoadGivesBack(d)
  PROVE  IInv'
<1> DEFINE h == <<d, 0>>
<1>1. TypeOK /\ Epochs /\ LoopsTyped /\ WorkTyped
  BY InvariantTypes
<1>2. PICK to \in LoadState :
        /\ Goto(d, to) /\ UNCHANGED <<loop, cancelled, job>>
        /\ \/ /\ UNCHANGED <<permits, epochs>>
              /\ <<load[d], to>> \in {<<"idle", "storeWait">>, <<"storeWait", "done">>,
                                      <<"hostWait", "giveStore">>, <<"loading", "giveHost">>}
           \/ GiveBack(load[d], to, StoreOf[d])
  <2>1. CASE LoadWants(d)
    BY <2>1 DEF LoadWants, LoadState
  <2>2. CASE LoadGivesUp(d)
    BY <2>2 DEF LoadGivesUp, LoadState, Stages
  <2>3. CASE LoadReturns(d)
    BY <2>3 DEF LoadReturns, LoadState, Stages
  <2>4. CASE LoadGivesBack(d)
    BY <2>4 DEF LoadGivesBack, LoadState
  <2> QED BY <2>1, <2>2, <2>3, <2>4
<1>3. h \in Actors /\ OthersStay(h) /\ Stage(h) = load[d] /\ Stage(h)' = to
  BY <1>1, <1>2, LoadMoves DEF loop
<1>4. WorkTyped'
  BY <1>1, <1>2 DEF WorkTyped, Goto, Jobs
<1>5. LoopsTyped' /\ Shapes' /\ TriesWhatIsPending'
  BY <1>2, LoadLeavesLoops
<1>6. CASE /\ UNCHANGED <<permits, epochs>>
           /\ <<load[d], to>> \in {<<"idle", "storeWait">>, <<"storeWait", "done">>,
                                   <<"hostWait", "giveStore">>, <<"loading", "giveHost">>}
  <2>1. Pays(h)
    BY <1>1, <1>3, <1>6, MovingFree DEF HostHeld, StoreHeld
  <2>2. host' <= HostCap /\ \A t \in Stores : store'[t] <= StoreCap
    BY <1>1, <1>6, PermitsInBounds DEF permits
  <2>3. Epochs'
    BY <1>1, <1>6 DEF Epochs, epochs
  <2> QED BY <1>3, <1>4, <1>5, <2>1, <2>2, <2>3, PayingKeepsInv
<1>7. CASE GiveBack(load[d], to, StoreOf[d])
  <2>1. Pays(h) /\ host' <= host /\ \A s \in Stores : store'[s] <= store[s]
    BY <1>1, <1>3, <1>7, GivingBackPays
  <2>2. host' <= HostCap /\ \A t \in Stores : store'[t] <= StoreCap
    BY <1>3, <2>1, BoundsShrink
  <2>3. Epochs'
    BY <1>1, <1>7, GivingBackTellsAll
  <2> QED BY <1>3, <1>4, <1>5, <2>1, <2>2, <2>3, PayingKeepsInv
<1> QED BY <1>2, <1>6, <1>7

\* A load takes the store's permit first.
LEMMA LoadTakesStoreStep == ASSUME IInv, NEW d \in Loads, LoadTakesStore(d) PROVE IInv'
<1> DEFINE h == <<d, 0>>
<1>1. TypeOK /\ Epochs /\ LoopsTyped /\ WorkTyped
  BY InvariantTypes
<1>2. /\ load[d] = "storeWait" /\ Goto(d, "hostWait") /\ store[StoreOf[d]] < StoreCap
      /\ store' = [store EXCEPT ![StoreOf[d]] = @ + 1]
      /\ UNCHANGED <<host, epochs, loop, cancelled, job>>
  BY DEF LoadTakesStore
<1>3. h \in Actors /\ OthersStay(h) /\ Stage(h) = "storeWait" /\ Stage(h)' = "hostWait"
  BY <1>1, <1>2, LoadMoves DEF loop
<1>4. Pays(h) /\ host' <= HostCap /\ \A t \in Stores : store'[t] <= StoreCap
  BY <1>1, <1>2, <1>3, StorePermitPays DEF HostHeld, StoreHeld
<1>6. Epochs' /\ WorkTyped'
  BY <1>1, <1>2 DEF Epochs, epochs, WorkTyped, Goto, Jobs, LoadState
<1>7. LoopsTyped' /\ Shapes' /\ TriesWhatIsPending'
  BY <1>2, LoadLeavesLoops
<1> QED BY <1>3, <1>4, <1>6, <1>7, PayingKeepsInv

\* Then it takes the host's.
LEMMA LoadTakesHostStep == ASSUME IInv, NEW d \in Loads, LoadTakesHost(d) PROVE IInv'
<1> DEFINE h == <<d, 0>>
<1>1. TypeOK /\ Epochs /\ LoopsTyped /\ WorkTyped
  BY InvariantTypes
<1>2. /\ load[d] = "hostWait" /\ Goto(d, "loading") /\ host < HostCap /\ host' = host + 1
      /\ UNCHANGED <<store, epochs, loop, cancelled, job>>
  BY DEF LoadTakesHost
<1>3. h \in Actors /\ OthersStay(h) /\ Stage(h) = "hostWait" /\ Stage(h)' = "loading"
  BY <1>1, <1>2, LoadMoves DEF loop
<1>4. Pays(h)
  BY <1>1, <1>2, <1>3 DEF Pays, Weight, HostHeld, StoreHeld, TypeOK
<1>5. host' <= HostCap /\ \A t \in Stores : store'[t] <= StoreCap
  <2>1. host' <= HostCap
    BY <1>1, <1>2, BudgetAssumption DEF TypeOK, BudgetAssumption
  <2> QED BY <1>1, <1>2, <2>1, PermitsInBounds
<1>6. Epochs' /\ WorkTyped'
  BY <1>1, <1>2 DEF Epochs, epochs, WorkTyped, Goto, Jobs, LoadState
<1>7. LoopsTyped' /\ Shapes' /\ TriesWhatIsPending'
  BY <1>2, LoadLeavesLoops
<1> QED BY <1>3, <1>4, <1>5, <1>6, <1>7, PayingKeepsInv

-----------------------------------------------------------------------------
(* The invariant.                                                          *)

\* No permit is out.
LEMMA InitInv == Init => IInv
<1> SUFFICES ASSUME Init PROVE IInv
  OBVIOUS
<1> USE BudgetAssumption DEF BudgetAssumption, Init
<1>1. TypeOK
  <2>1. /\ storeClosed \in [Schedulers -> BOOLEAN] /\ hostClosed \in [Schedulers -> BOOLEAN]
        /\ sawStoreFull \in [Schedulers -> BOOLEAN] /\ sawHostFull \in [Schedulers -> BOOLEAN]
        /\ cancelled \in [Schedulers -> BOOLEAN]
    BY Zenon
  <2>2. host \in 0..HostCap /\ store \in [Stores -> 0..StoreCap]
    OBVIOUS
  <2>3. pc \in [Schedulers -> LoopPC] /\ load \in [Loads -> LoadState]
    BY DEF LoopPC, LoadState
  <2>4. \A l \in Schedulers : /\ next[l] \in 1..(JobsOf[l] + 1) /\ received[l] \subseteq Jobs(l)
                              /\ job[l] \in [Jobs(l) -> JobState]
    BY DEF JobState
  <2> QED BY <2>1, <2>2, <2>3, <2>4 DEF TypeOK
<1>2. PermitsAreHeld
  <2>1. \A h \in Actors : Stage(h) \notin HostHeld /\ Stage(h) \notin StoreHeld
    BY DEF Actors, JobActors, Stage, HostHeld, StoreHeld, Jobs
  <2>2. \A stores : Holders(HostHeld, stores) = {} /\ Holders(StoreHeld, stores) = {}
    BY <2>1 DEF Holders
  <2> QED BY <2>2, FS_EmptySet DEF PermitsAreHeld
<1>3. Shapes /\ TriesWhatIsPending
  BY DEF Shapes, TriesWhatIsPending
<1> QED BY <1>1, <1>2, <1>3, InvariantCounts DEF IInv

\* Every step keeps the invariant.
LEMMA NextInv == IInv /\ [Next]_vars => IInv'
<1> SUFFICES ASSUME IInv, [Next]_vars PROVE IInv'
  OBVIOUS
<1>1. ASSUME NEW l \in Schedulers, Starts(l) \/ LoopStep(l)
      PROVE  IInv'
  BY <1>1, QuietLoopStep, TryStoreStep, TryHostStep, UndoStoreStep, RejectStep, AdmitStep DEF LoopStep
<1>2. ASSUME NEW l \in Schedulers, Cancel(l)
      PROVE  IInv'
  BY <1>2, CancelStep
<1>3. ASSUME NEW l \in Schedulers, NEW j \in Jobs(l), NativeReturn(l, j) \/ RunnerGivesBack(l, j)
      PROVE  IInv'
  BY <1>3, RunnerStep
<1>4. ASSUME NEW d \in Loads,
             LoadStep(d) \/ LoadWants(d) \/ LoadGivesUp(d) \/ LoadReturns(d)
      PROVE  IInv'
  BY <1>4, LoadMovesStep, LoadTakesStoreStep, LoadTakesHostStep DEF LoadStep
<1>5. CASE UNCHANGED vars
  <2>1. PermitsAreHeld /\ TypeOK
    BY InvariantCounts DEF IInv, PermitsMatchHolders
  <2>2. TypeOK'
    BY <1>5, <2>1 DEF TypeOK, vars, permits, epochs, loop, Jobs
  <2>3. PermitsAreHeld'
    BY <1>5, <2>1 DEF PermitsAreHeld, Holders, Actors, JobActors, Jobs, Stage, vars, permits, epochs, loop
  <2>4. Shapes' /\ TriesWhatIsPending'
    BY <1>5 DEF IInv, Shapes, TriesWhatIsPending, Pending, Jobs, vars, permits, epochs, loop
  <2> QED BY <2>2, <2>3, <2>4, InvariantCountsNext DEF IInv
<1> QED BY <1>1, <1>2, <1>3, <1>4, <1>5 DEF Next

\* The inductive invariant holds in every behaviour.
THEOREM BudgetInvariant == Spec => []IInv
BY InitInv, NextInv, PTL DEF Spec

\* However many loops, runners and loads compete, a permit of the host and of each
\* store is taken exactly while somebody holds it, and none beyond the capacity
\* (Budget.tryAcquireSlot, release, StoreBudget.acquire).
THEOREM PermitsAreAccountedFor == Spec => []PermitsMatchHolders
BY BudgetInvariant, PTL DEF IInv

-----------------------------------------------------------------------------
(* The calls in flight.                                                    *)

CallMap == [c \in Callers |-> CallOf(c)]

\* A caller is a job or a load, and an actor.
LEMMA CallersAreActors ==
  /\ \A l \in Schedulers : \A j \in Jobs(l) : <<l, j>> \in Callers \intersect Actors
  /\ \A d \in Loads : <<d, 0>> \in Callers \intersect Actors
  /\ \A c \in Callers : \/ \E l \in Schedulers : \E j \in Jobs(l) : c = <<l, j>>
                        \/ \E d \in Loads : c = <<d, 0>>
BY DEF Callers, JobCallers, Actors, JobActors

\* Where the call of a job stands.
LEMMA JobsCall ==
  ASSUME NEW l \in Schedulers, NEW j \in Jobs(l)
  PROVE  /\ CallOf(<<l, j>>) = CallOfJob(l, j) /\ CallOf(<<l, j>>)' = CallOfJob(l, j)'
         /\ Stage(<<l, j>>) = job[l][j]
<1>1. <<l, j>> \in JobCallers /\ <<l, j>>[1] = l /\ <<l, j>>[2] = j
  BY DEF JobCallers
<1>2. JobCallers' = JobCallers
  BY DEF JobCallers, Jobs
<1>3. l \notin Loads /\ j # 0
  BY BudgetAssumption DEF BudgetAssumption, Jobs
<1>4. CallOf(<<l, j>>) = CallOfJob(l, j) /\ CallOf(<<l, j>>)' = CallOfJob(l, j)'
  BY <1>1, <1>2 DEF CallOf, CallOfJob
<1> QED BY <1>1, <1>3, <1>4 DEF Stage

\* Where the call of a load stands.
LEMMA LoadsCall ==
  ASSUME NEW d \in Loads
  PROVE  /\ CallOf(<<d, 0>>) = CallOfLoad(d) /\ CallOf(<<d, 0>>)' = CallOfLoad(d)'
         /\ Stage(<<d, 0>>) = load[d]
<1>1. <<d, 0>> \notin JobCallers /\ <<d, 0>>[1] = d /\ <<d, 0>>[2] = 0
  BY BudgetAssumption DEF BudgetAssumption, JobCallers, Jobs
<1>2. JobCallers' = JobCallers
  BY DEF JobCallers, Jobs
<1> QED BY <1>1, <1>2 DEF CallOf, CallOfLoad, Stage

\* Who is calling holds both permits.
LEMMA CallersHold ==
  ASSUME NEW c \in Callers, CallOf(c) = "calling"
  PROVE  c \in Holders(HostHeld, Stores) /\ c \in Holders(StoreHeld, {StoreOf[c[1]]})
<1>1. c \in Actors /\ StoreOf[c[1]] \in Stores
  BY CallersAreActors, BudgetAssumption DEF BudgetAssumption
<1>2. Stage(c) \in HostHeld
  <2>1. CASE \E l \in Schedulers : \E j \in Jobs(l) : c = <<l, j>>
    BY <2>1, JobsCall DEF CallOfJob, HostHeld
  <2>2. CASE \E d \in Loads : c = <<d, 0>>
    BY <2>2, LoadsCall DEF CallOfLoad, HostHeld
  <2> QED BY <2>1, <2>2, CallersAreActors
<1> QED BY <1>1, <1>2 DEF Holders, StoreHeld

\* When a holder is not among some holders, those are fewer.
LEMMA FewerHold ==
  ASSUME NEW stages, NEW stores, NEW cs, cs \subseteq Holders(stages, stores),
         NEW h \in Holders(stages, stores), h \notin cs
  PROVE  Cardinality(cs) \in Nat /\ Cardinality(cs) < Cardinality(Holders(stages, stores))
<1> DEFINE H == Holders(stages, stores)
<1>1. IsFiniteSet(H) /\ Cardinality(H) \in Nat
  BY HoldersAreFinite
<1>2. cs \subseteq H \ {h} /\ h \in H
  OBVIOUS
<1> HIDE DEF H
<1>3. IsFiniteSet(H \ {h}) /\ Cardinality(H \ {h}) = Cardinality(H) - 1
  BY <1>1, <1>2, FS_RemoveElement
<1>4. IsFiniteSet(cs) /\ Cardinality(cs) <= Cardinality(H \ {h}) /\ Cardinality(cs) \in Nat
  BY <1>2, <1>3, FS_Subset, FS_CardinalityType
<1>5. Cardinality(cs) < Cardinality(H)
  BY <1>1, <1>3, <1>4
<1> QED BY <1>4, <1>5 DEF H

\* NativeCalls counts as this module does.
LEMMA CallsCountAlike == \A cs : Calls!Cardinality(cs) = Cardinality(cs)
BY DEF Calls!Cardinality, Cardinality

\* Whoever has both permits, or its store's while one of the host is left, and is not
\* calling yet, finds room for its call.
LEMMA RoomForOneMore ==
  ASSUME IInv, NEW h \in Actors, NEW c \in Callers, StoreOf[h[1]] = StoreOf[c[1]],
         h \in Callers => CallOf(h) # "calling",
         Stage(h) \in StoreHeld, Stage(h) \in HostHeld \/ host < HostCap
  PROVE  /\ Cardinality(Calls!Calling(Callers)) < HostCap
         /\ Cardinality(Calls!Calling(Calls!SameStore(c))) < StoreCap
<1>1. TypeOK /\ PermitsAreHeld /\ host <= HostCap /\ \A s \in Stores : store[s] <= StoreCap
  BY InvariantTypes, InvariantCounts, PermitsInBounds DEF IInv, PermitsMatchHolders
<1>2. host \in Nat /\ HostCap \in Nat /\ StoreCap \in Nat /\ \A s \in Stores : store[s] \in Nat
  BY <1>1, BudgetAssumption DEF BudgetAssumption, TypeOK
<1> DEFINE s == StoreOf[c[1]]
           all == Calls!Calling(Callers)
           near == Calls!Calling(Calls!SameStore(c))
<1>3. s \in Stores
  BY CallersAreActors, BudgetAssumption DEF BudgetAssumption
<1>4. /\ \A b \in all : b \in Callers /\ CallOf(b) = "calling"
      /\ \A b \in near : b \in Callers /\ StoreOf[b[1]] = s /\ CallOf(b) = "calling"
  BY DEF Calls!Calling, Calls!SameStore
<1>5. h \notin all /\ h \notin near
  BY <1>4
<1>6. all \subseteq Holders(HostHeld, Stores) /\ near \subseteq Holders(StoreHeld, {s})
  BY <1>4, CallersHold
<1> HIDE DEF all, near, s
<1>7. Cardinality(near) < StoreCap
  <2>1. h \in Holders(StoreHeld, {s})
    BY DEF Holders, s
  <2>2. Cardinality(near) \in Nat /\ Cardinality(near) < Cardinality(Holders(StoreHeld, {s}))
    BY <1>5, <1>6, <2>1, FewerHold
  <2>3. store[s] = Cardinality(Holders(StoreHeld, {s}))
    BY <1>1, <1>3 DEF PermitsAreHeld
  <2> QED BY <1>1, <1>2, <1>3, <2>2, <2>3
<1>8. Cardinality(all) < HostCap
  <2>1. CASE Stage(h) \in HostHeld
    <3>1. h \in Holders(HostHeld, Stores)
      BY <1>3, <2>1 DEF Holders, s
    <3>2. Cardinality(all) \in Nat /\ Cardinality(all) < host
      BY <1>1, <1>5, <1>6, <3>1, FewerHold DEF PermitsAreHeld
    <3> QED BY <1>1, <1>2, <3>2
  <2>2. CASE host < HostCap
    <3>1. IsFiniteSet(Holders(HostHeld, Stores)) /\ host = Cardinality(Holders(HostHeld, Stores))
      BY <1>1, HoldersAreFinite DEF PermitsAreHeld
    <3>2. Cardinality(all) \in Nat /\ Cardinality(all) <= host
      BY <1>6, <3>1, FS_Subset, FS_CardinalityType
    <3> QED BY <1>2, <2>2, <3>2
  <2> QED BY <2>1, <2>2
<1> QED BY <1>7, <1>8 DEF all, near

\* The call of one job changes, and no other.
LEMMA JobCallMoves ==
  ASSUME NEW l \in Schedulers, NEW j \in Jobs(l), TypeOK, Shapes, NEW to \in JobState,
         job' = [job EXCEPT ![l][j] = to], UNCHANGED <<cancelled, load>>
  PROVE  /\ job'[l][j] = to
         /\ \A b \in Callers \ {<<l, j>>} : CallOf(b)' = CallOf(b)
<1>1. \A k \in Schedulers : \A i \in Jobs(k) : <<k, i>> # <<l, j>> => job'[k][i] = job[k][i]
  BY JobTyped
<1>2. job'[l][j] = to
  BY DEF TypeOK, Shapes
<1>3. ASSUME NEW b \in Callers, b # <<l, j>>
      PROVE  CallOf(b)' = CallOf(b)
  <2>1. CASE \E k \in Schedulers : \E i \in Jobs(k) : b = <<k, i>>
    BY <1>1, <1>3, <2>1, JobsCall DEF CallOfJob
  <2>2. CASE \E d \in Loads : b = <<d, 0>>
    BY <2>2, LoadsCall DEF CallOfLoad
  <2> QED BY <2>1, <2>2, CallersAreActors
<1> QED BY <1>2, <1>3

\* The call of one load changes, and no other.
LEMMA LoadCallMoves ==
  ASSUME NEW d \in Loads, TypeOK, NEW to, Goto(d, to), UNCHANGED <<job, cancelled>>
  PROVE  /\ load'[d] = to
         /\ \A b \in Callers \ {<<d, 0>>} : CallOf(b)' = CallOf(b)
<1>1. load'[d] = to /\ \A e \in Loads \ {d} : load'[e] = load[e]
  BY DEF Goto, TypeOK
<1>2. ASSUME NEW b \in Callers, b # <<d, 0>>
      PROVE  CallOf(b)' = CallOf(b)
  <2>1. CASE \E k \in Schedulers : \E i \in Jobs(k) : b = <<k, i>>
    BY <2>1, JobsCall DEF CallOfJob
  <2>2. CASE \E e \in Loads : b = <<e, 0>>
    BY <1>1, <1>2, <2>2, LoadsCall DEF CallOfLoad
  <2> QED BY <2>1, <2>2, CallersAreActors
<1> QED BY <1>1, <1>2

\* When no call changes, the step is a stutter of NativeCalls.
LEMMA QuietCalls ==
  ASSUME \A b \in Callers : CallOf(b)' = CallOf(b)
  PROVE  CallMap' = CallMap
<1>1. Callers' = Callers
  BY DEF Callers, JobCallers, Jobs
<1> QED BY <1>1 DEF CallMap

\* When one changes, so does the function.
LEMMA OneCall ==
  ASSUME NEW c \in Callers, NEW v, CallOf(c)' = v,
         \A b \in Callers \ {c} : CallOf(b)' = CallOf(b)
  PROVE  CallMap' = [CallMap EXCEPT ![c] = v]
<1>1. Callers' = Callers
  BY DEF Callers, JobCallers, Jobs
<1> QED BY <1>1 DEF CallMap

\* What is not a step of a call is a stutter.
LEMMA LoopsCallNobody ==
  ASSUME IInv, NEW l \in Schedulers, Starts(l) \/ LoopStep(l), ~(Admit(l) /\ ~cancelled[l])
  PROVE  CallMap' = CallMap
<1>1. UNCHANGED <<job, load, cancelled>>
  BY DEF Starts, LoopStep, Top, EndPass, SkipJob, TryStore, TryHost, UndoStore, TellUndo, Admit,
         RejectGivesBack, Unpark, ReceiveResult
<1>2. ASSUME NEW b \in Callers
      PROVE  CallOf(b)' = CallOf(b)
  BY <1>1 DEF CallOf, CallOfJob, CallOfLoad, JobCallers, Jobs
<1> QED BY <1>2, QuietCalls

\* A runner is started with its loop's permits.
LEMMA AdmitBegins ==
  ASSUME IInv, NEW l \in Schedulers, Admit(l), ~cancelled[l]
  PROVE  \E c \in Callers : Calls!Begin(c)
<1>1. TypeOK /\ Shapes /\ TriesWhatIsPending
  BY InvariantTypes DEF IInv
<1>2. PICK j \in Jobs(l) : j = next[l] /\ job[l][j] = "pending"
  BY <1>1 DEF Admit, TriesWhatIsPending, Pending
<1> DEFINE c == <<l, j>>
           h == <<l, 0>>
<1>3. c \in Callers /\ CallOf(c) = "waiting"
  BY <1>2, CallersAreActors, JobsCall DEF CallOfJob
<1>4. h \in Actors /\ Stage(h) = "admit"
  BY BudgetAssumption DEF Admit, BudgetAssumption, Actors, Stage
<1>5. h \notin Callers
  BY BudgetAssumption DEF BudgetAssumption, Callers, JobCallers, Jobs
<1>6. /\ Cardinality(Calls!Calling(Callers)) < HostCap
      /\ Cardinality(Calls!Calling(Calls!SameStore(c))) < StoreCap
  <2>1. StoreOf[h[1]] = StoreOf[c[1]]
    OBVIOUS
  <2> HIDE DEF c, h
  <2> QED BY <1>3, <1>4, <1>5, <2>1, RoomForOneMore DEF HostHeld, StoreHeld
<1>7. CallMap' = [CallMap EXCEPT ![c] = "calling"]
  <2>1. job'[l][j] = "running" /\ \A b \in Callers \ {c} : CallOf(b)' = CallOf(b)
    <3>1. job' = [job EXCEPT ![l][j] = "running"] /\ UNCHANGED <<cancelled, load>>
      BY <1>2 DEF Admit
    <3>2. "running" \in JobState
      BY DEF JobState
    <3> QED BY <1>1, <3>1, <3>2, JobCallMoves
  <2>2. CallOf(c)' = "calling"
    BY <2>1, JobsCall DEF CallOfJob
  <2> QED BY <1>3, <2>1, <2>2, OneCall
<1>8. CallMap[c] = "waiting"
  BY <1>3 DEF CallMap
<1> HIDE DEF c
<1>9. Calls!Begin(c)
  BY <1>6, <1>7, <1>8, CallsCountAlike DEF Calls!Begin, CallMap
<1> QED BY <1>3, <1>9

\* A load begins with the permits it has taken.
LEMMA LoadBegins ==
  ASSUME IInv, NEW d \in Loads, LoadTakesHost(d)
  PROVE  \E c \in Callers : Calls!Begin(c)
<1>1. TypeOK
  BY InvariantTypes
<1> DEFINE c == <<d, 0>>
<1>2. c \in Callers /\ c \in Actors /\ CallOf(c) = "waiting" /\ Stage(c) = "hostWait"
  BY CallersAreActors, LoadsCall DEF CallOfLoad, LoadTakesHost
<1>3. load'[d] = "loading" /\ \A b \in Callers \ {c} : CallOf(b)' = CallOf(b)
  BY <1>1, LoadCallMoves DEF LoadTakesHost
<1>4. CallOf(c)' = "calling"
  BY <1>3, LoadsCall DEF CallOfLoad
<1> HIDE DEF c
<1>5. /\ Cardinality(Calls!Calling(Callers)) < HostCap
      /\ Cardinality(Calls!Calling(Calls!SameStore(c))) < StoreCap
  BY <1>2, RoomForOneMore DEF StoreHeld, LoadTakesHost
<1>6. CallMap' = [CallMap EXCEPT ![c] = "calling"] /\ CallMap[c] = "waiting"
  BY <1>2, <1>3, <1>4, OneCall DEF CallMap
<1>7. Calls!Begin(c)
  BY <1>5, <1>6, CallsCountAlike DEF Calls!Begin, CallMap
<1> QED BY <1>2, <1>7

\* A runner's or a load's call returns, or the runner gives permits back.
LEMMA RunnerReturns ==
  ASSUME IInv, NEW l \in Schedulers, NEW j \in Jobs(l), NativeReturn(l, j) \/ RunnerGivesBack(l, j)
  PROVE  (\E c \in Callers : Calls!Return(c)) \/ CallMap' = CallMap
<1>1. TypeOK /\ Shapes
  BY InvariantTypes DEF IInv
<1> DEFINE c == <<l, j>>
<1>2. c \in Callers
  BY CallersAreActors
<1>3. PICK to \in Stages : /\ job' = [job EXCEPT ![l][j] = to] /\ UNCHANGED <<cancelled, load>>
                           /\ job[l][j] \in {"running"} \union Stages
  BY DEF NativeReturn, RunnerGivesBack, GiveBack, Stages, loop
<1>4. job'[l][j] = to /\ \A b \in Callers \ {c} : CallOf(b)' = CallOf(b)
  BY <1>1, <1>3, JobCallMoves DEF JobState
<1>5. CallOf(c)' = "over" /\ CallOf(c) \in {"calling", "over"}
  BY <1>3, <1>4, JobsCall DEF CallOfJob, Stages
<1> HIDE DEF c
<1>6. CASE CallOf(c) = "over"
  BY <1>4, <1>5, <1>6, QuietCalls
<1>7. CASE CallOf(c) = "calling"
  <2>1. CallMap' = [CallMap EXCEPT ![c] = "over"] /\ CallMap[c] = "calling"
    BY <1>2, <1>4, <1>5, <1>7, OneCall DEF CallMap
  <2> QED BY <1>2, <2>1 DEF Calls!Return, CallMap
<1> QED BY <1>5, <1>6, <1>7

\* Any callers that wait may give up together.
LEMMA ManyGiveUp ==
  ASSUME NEW cs \in SUBSET Callers, \A c \in cs : CallMap[c] = "waiting",
         CallMap' = [b \in Callers |-> IF b \in cs THEN "over" ELSE CallMap[b]]
  PROVE  Calls!GiveUp
<1> DEFINE gone == {c \in Callers : CallMap'[c] # CallMap[c]}
<1>1. gone = cs
  OBVIOUS
<1>2. CallMap' = [b \in Callers |-> IF b \in gone THEN "over" ELSE CallMap[b]]
  BY <1>1
<1> QED BY <1>1, <1>2 DEF Calls!GiveUp, CallMap

\* A load asks, takes its store's permit, gives up, returns or gives permits back.
LEMMA LoadCalls ==
  ASSUME IInv, NEW d \in Loads,
         LoadWants(d) \/ LoadTakesStore(d) \/ LoadGivesUp(d) \/ LoadReturns(d) \/ LoadGivesBack(d)
  PROVE  \/ \E c \in Callers : Calls!Return(c)
         \/ Calls!GiveUp
         \/ CallMap' = CallMap
<1>1. TypeOK
  BY InvariantTypes
<1> DEFINE c == <<d, 0>>
<1>2. c \in Callers
  BY CallersAreActors
<1>3. PICK to : /\ Goto(d, to) /\ UNCHANGED <<job, cancelled>>
                /\ \/ load[d] \in {"idle", "storeWait"} /\ to \in {"storeWait", "hostWait"}
                   \/ load[d] \in {"storeWait", "hostWait"} /\ to \in {"done", "giveStore"}
                   \/ load[d] \in {"loading"} \union Stages /\ to \in Stages
  BY DEF LoadWants, LoadTakesStore, LoadGivesUp, LoadReturns, LoadGivesBack, GiveBack, Stages
<1>4. load'[d] = to /\ \A b \in Callers \ {c} : CallOf(b)' = CallOf(b)
  BY <1>1, <1>3, LoadCallMoves
<1>5. <<CallOf(c), CallOf(c)'>> \in {<<"waiting", "waiting">>, <<"waiting", "over">>,
                                     <<"calling", "over">>, <<"over", "over">>}
  BY <1>3, <1>4, LoadsCall DEF CallOfLoad, Stages
<1> HIDE DEF c
<1>6. CASE CallOf(c)' = CallOf(c)
  BY <1>4, <1>6, QuietCalls
<1>7. CASE CallOf(c) = "calling" /\ CallOf(c)' = "over"
  <2>1. CallMap' = [CallMap EXCEPT ![c] = "over"] /\ CallMap[c] = "calling"
    BY <1>2, <1>4, <1>7, OneCall DEF CallMap
  <2> QED BY <1>2, <2>1 DEF Calls!Return, CallMap
<1>8. CASE CallOf(c) = "waiting" /\ CallOf(c)' = "over"
  <2>1. CallMap' = [CallMap EXCEPT ![c] = "over"] /\ CallMap[c] = "waiting"
    BY <1>2, <1>4, <1>8, OneCall DEF CallMap
  <2>2. CallMap' = [b \in Callers |-> IF b \in {c} THEN "over" ELSE CallMap[b]]
    BY <2>1 DEF CallMap
  <2> QED BY <1>2, <2>1, <2>2, ManyGiveUp
<1> QED BY <1>5, <1>6, <1>7, <1>8

\* A loop whose context ends gives up for all the jobs it has not started.
LEMMA CancelGivesUp ==
  ASSUME IInv, NEW l \in Schedulers, Cancel(l)
  PROVE  Calls!GiveUp
<1> DEFINE cs == {<<l, j>> : j \in Pending(l)}
<1>1. cs \in SUBSET Callers
  BY CallersAreActors DEF Pending
<1>2. cancelled' = [cancelled EXCEPT ![l] = TRUE] /\ ~cancelled[l] /\ UNCHANGED <<job, load>>
  BY DEF Cancel
<1>3. \A k \in Schedulers : cancelled'[k] = (k = l \/ cancelled[k])
  BY <1>2, InvariantTypes DEF LoopsTyped
<1>4. ASSUME NEW b \in Callers
      PROVE  /\ CallOf(b)' = IF b \in cs THEN "over" ELSE CallOf(b)
             /\ b \in cs => CallOf(b) = "waiting"
  <2>1. CASE \E k \in Schedulers : \E i \in Jobs(k) : b = <<k, i>>
    <3>1. PICK k \in Schedulers : \E i \in Jobs(k) : b = <<k, i>>
      BY <2>1
    <3>2. PICK i \in Jobs(k) : b = <<k, i>>
      BY <3>1
    <3>3. b \in cs <=> k = l /\ job[k][i] = "pending"
      BY <3>2 DEF Pending
    <3>4. CallOf(b) = CallOfJob(k, i) /\ CallOf(b)' = CallOfJob(k, i)'
      BY <3>2, JobsCall
    <3> QED BY <1>2, <1>3, <3>3, <3>4 DEF CallOfJob
  <2>2. CASE \E e \in Loads : b = <<e, 0>>
    <3>1. PICK e \in Loads : b = <<e, 0>>
      BY <2>2
    <3>2. b \notin cs
      BY <3>1, BudgetAssumption DEF BudgetAssumption
    <3> QED BY <1>2, <3>1, <3>2, LoadsCall DEF CallOfLoad
  <2> QED BY <2>1, <2>2, CallersAreActors
<1> HIDE DEF cs
<1>5. Callers' = Callers
  BY DEF Callers, JobCallers, Jobs
<1>6. CallMap' = [b \in Callers |-> IF b \in cs THEN "over" ELSE CallMap[b]]
  BY <1>4, <1>5 DEF CallMap
<1>7. \A b \in cs : CallMap[b] = "waiting"
  BY <1>1, <1>4 DEF CallMap
<1> QED BY <1>1, <1>6, <1>7, ManyGiveUp

\* At first everybody waits.
LEMMA CallsInit == Init => Calls!Init
<1> SUFFICES ASSUME Init PROVE Calls!Init
  OBVIOUS
<1>1. ASSUME NEW c \in Callers
      PROVE  CallOf(c) = "waiting"
  <2>1. CASE \E l \in Schedulers : \E j \in Jobs(l) : c = <<l, j>>
    BY <2>1, JobsCall DEF CallOfJob, Init
  <2>2. CASE \E d \in Loads : c = <<d, 0>>
    BY <2>2, LoadsCall DEF CallOfLoad, Init
  <2> QED BY <2>1, <2>2, CallersAreActors
<1> QED BY <1>1 DEF Calls!Init

\* Every step is a step of NativeCalls or a stutter.
LEMMA CallsNext == IInv /\ [Next]_vars => [Calls!Next]_CallMap
<1> SUFFICES ASSUME IInv, [Next]_vars PROVE Calls!Next \/ CallMap' = CallMap
  OBVIOUS
<1>1. ASSUME NEW l \in Schedulers, Starts(l) \/ LoopStep(l)
      PROVE  Calls!Next \/ CallMap' = CallMap
  BY <1>1, LoopsCallNobody, AdmitBegins DEF Calls!Next
<1>2. ASSUME NEW l \in Schedulers, Cancel(l)
      PROVE  Calls!Next
  BY <1>2, CancelGivesUp DEF Calls!Next
<1>3. ASSUME NEW l \in Schedulers, NEW j \in Jobs(l), NativeReturn(l, j) \/ RunnerGivesBack(l, j)
      PROVE  Calls!Next \/ CallMap' = CallMap
  BY <1>3, RunnerReturns DEF Calls!Next
<1>4. ASSUME NEW d \in Loads, LoadStep(d) \/ LoadWants(d) \/ LoadGivesUp(d) \/ LoadReturns(d)
      PROVE  Calls!Next \/ CallMap' = CallMap
  BY <1>4, LoadBegins, LoadCalls DEF Calls!Next, LoadStep
<1>5. CASE UNCHANGED vars
  <2>1. ASSUME NEW b \in Callers
        PROVE  CallOf(b)' = CallOf(b)
    BY <1>5 DEF CallOf, CallOfJob, CallOfLoad, JobCallers, Jobs, vars
  <2> QED BY <2>1, QuietCalls
<1> QED BY <1>1, <1>2, <1>3, <1>4, <1>5 DEF Next

\* Whatever takes and returns permits, and in whatever order, the calls in flight
\* are bounded on the host and on each store, a caller calls once, and a cancelled
\* loop starts no further call (Loader.tryAcquireSlot, Loader.admitJob,
\* StoreBudget.acquire).
THEOREM PermitsBoundCalls == Spec => BoundsCalls
<1>1. [Calls!Next]_CallMap <=> [Calls!Next]_([c \in Callers |-> CallOf(c)])
  BY DEF CallMap
<1> QED BY <1>1, BudgetInvariant, CallsInit, CallsNext, PTL DEF Spec, BoundsCalls, Calls!Spec

=============================================================================
