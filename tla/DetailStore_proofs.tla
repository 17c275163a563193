-------------------------- MODULE DetailStore_proofs --------------------------
(***************************************************************************)
(* Proofs about the detail store: loads are shared, map, list and byte     *)
(* count of the cache agree, the finalizer waits for the loads, and readers*)
(* are promised what module DetailPromise says.                            *)
(***************************************************************************)
EXTENDS DetailStore, FiniteSetTheorems, WellFoundedInduction, TLAPS

-----------------------------------------------------------------------------
(* The inductive invariant.                                                *)

Unsettled == {"permit", "load", "settle"}
Told == {"finish", "done"}

LoadTyped(l) ==
  l \in [at : RunAt, coverage : Coverages, gen : Nat, fence : Nat, until : Nat,
         out : Outcomes, size : Nat, settled : BOOLEAN]

Typed ==
  /\ generation \in Nat /\ fence \in Nat /\ drained \in Nat
  /\ made \in 0..MaxRuns
  /\ entries \in [Coverages -> 0..made]
  /\ run = [i \in Runs |-> run[i]] /\ \A i \in Runs : LoadTyped(run[i])
  /\ reader \in [Readers -> [at : {"idle", "waiting", "answered"}, run : 0..made,
                             out : Outcomes, fence : Nat]]
  /\ closer \in [at : {"idle", "wait", "waiting", "done"}, chan : Nat, gen : Nat, pending : SUBSET Runs]

\* A load exists once it was started, and the drained channel is open while one is
\* in flight.
LoadsCounted ==
  /\ \A i \in Runs : run[i].at = "none" <=> i > made
  /\ active = Cardinality(InFlight)
  /\ drainedClosed <=> active = 0

\* An entry is of the fence in force; a load that has not settled is the entry of its
\* coverage unless a fence overtook it.
EntriesFenced ==
  /\ EntriesAreCurrent
  /\ \A i \in Runs : i <= made => run[i].fence <= fence
  /\ \A i \in Runs : run[i].at \in Unsettled /\ run[i].fence = fence =>
       entries[run[i].coverage] = i /\ ~stale /\ run[i].gen = generation
  /\ \A c \in Coverages : entries[c] # 0 => ~stale

\* What a load has come to agrees with the fences since it started.
OutcomesFenced ==
  \A i \in Runs :
    /\ run[i].at \in Unsettled => ~run[i].settled
    /\ run[i].at = "settle" => run[i].out \in {"value", "failed"}
    /\ run[i].at \in {"wake"} \union Told =>
         /\ run[i].out \in {"value", "stale", "failed", "limit"}
         /\ run[i].out = "value" => run[i].until = run[i].fence
         /\ run[i].out = "stale" => run[i].fence < fence

\* A reader waits for a load of the fence its request saw, and holds the value of one
\* that has told its readers.
ReadersFenced ==
  \A r \in Readers :
    /\ reader[r].at = "waiting" => reader[r].run # 0 /\ run[reader[r].run].fence = reader[r].fence
    /\ reader[r].at = "answered" /\ reader[r].out = "value" =>
         reader[r].run # 0 /\ run[reader[r].run].at \in Told

\* The burst the finalizer captured is the present one as long as no generation was
\* begun since its fence, and once it has ended nothing pending is left.
CloserInv ==
  /\ closer.at = "idle" => fence <= MaxFences
  /\ closer.at # "idle" => closer.gen <= generation /\ (generation = closer.gen => stale)
  /\ closer.at \in {"waiting", "done"} => closer.pending \subseteq 1..made
  /\ closer.at = "waiting" =>
       /\ closer.chan <= drained
       /\ generation = closer.gen => closer.chan = drained
       /\ closer.chan # drained => closer.pending \intersect InFlight = {}
  /\ WaitDrains

DInv == Typed /\ LoadsCounted /\ EntriesFenced /\ OutcomesFenced /\ ReadersFenced /\ CloserInv

-----------------------------------------------------------------------------
(* Loads that move.                                                        *)

\* One load moves to another place and stays the load it was.
Moves(i, to) ==
  /\ run' = [j \in Runs |-> run'[j]] /\ \A j \in Runs : LoadTyped(run'[j])
  /\ \A j \in Runs \ {i} : run'[j] = run[j]
  /\ run'[i].at = to /\ run'[i].coverage = run[i].coverage
  /\ run'[i].gen = run[i].gen /\ run'[i].fence = run[i].fence

\* One load changes, to a well-formed one.
LEMMA LoadChanges ==
  ASSUME Typed, NEW i \in Runs, NEW l, LoadTyped(l), run' = [run EXCEPT ![i] = l]
  PROVE  /\ run' = [j \in Runs |-> run'[j]] /\ \A j \in Runs : LoadTyped(run'[j])
         /\ \A j \in Runs \ {i} : run'[j] = run[j]
         /\ run'[i] = l
BY DEF Typed

\* What a load that moves takes with it, and what it may change.
LEMMA RunStepMoves ==
  ASSUME Typed, NEW i \in Runs, RunStep(i)
  PROVE  \/ /\ run[i].at = "permit" /\ Moves(i, "load") /\ run'[i].settled = run[i].settled
         \/ /\ run[i].at \in {"permit", "load"} /\ Moves(i, "settle")
            /\ run'[i].out \in {"value", "failed"} /\ run'[i].settled = run[i].settled
         \/ /\ run[i].at = "settle" /\ Moves(i, "wake") /\ Settle(i)
            /\ run'[i].until = fence
            /\ run'[i].out = IF ~Valid(i) THEN "stale"
                            ELSE IF run[i].out = "value" /\ run[i].size > MaxBytes THEN "limit" ELSE run[i].out
         \/ /\ run[i].at = "wake" /\ Moves(i, "finish")
            /\ run'[i].out = run[i].out /\ run'[i].until = run[i].until
         \/ /\ run[i].at = "finish" /\ Moves(i, "done")
            /\ run'[i].out = run[i].out /\ run'[i].until = run[i].until
<1>1. LoadTyped(run[i])
  BY DEF Typed
<1> DEFINE Same(l) == /\ LoadTyped(l) /\ l.coverage = run[i].coverage /\ l.gen = run[i].gen
                      /\ l.fence = run[i].fence
<1>2. ASSUME NEW l, Same(l), run' = [run EXCEPT ![i] = l]
      PROVE  Moves(i, l.at) /\ run'[i] = l
  BY <1>2, LoadChanges DEF Moves
<1>3. CASE PermitGranted(i)
  <2> DEFINE l == [run[i] EXCEPT !.at = "load"]
  <2>1. Same(l) /\ l.at = "load" /\ l.settled = run[i].settled
    BY <1>1 DEF LoadTyped, RunAt
  <2>2. run' = [run EXCEPT ![i] = l] /\ run[i].at = "permit"
    BY <1>3 DEF PermitGranted
  <2> HIDE DEF l, Same
  <2> QED BY <1>2, <2>1, <2>2
<1>4. CASE PermitRefused(i)
  <2> DEFINE l == [run[i] EXCEPT !.at = "settle", !.out = "failed"]
  <2>1. Same(l) /\ l.at = "settle" /\ l.out = "failed" /\ l.settled = run[i].settled
    BY <1>1 DEF LoadTyped, RunAt, Outcomes
  <2>2. run' = [run EXCEPT ![i] = l] /\ run[i].at = "permit"
    BY <1>4 DEF PermitRefused
  <2> HIDE DEF l, Same
  <2> QED BY <1>2, <2>1, <2>2
<1>5. CASE LoadReturns(i)
  <2>1. PICK l : /\ Same(l) /\ l.at = "settle" /\ l.out \in {"value", "failed"} /\ l.settled = run[i].settled
                 /\ run' = [run EXCEPT ![i] = l]
    <3>1. CASE run' = [run EXCEPT ![i].at = "settle", ![i].out = "failed"]
      <4> DEFINE l == [run[i] EXCEPT !.at = "settle", !.out = "failed"]
      <4>1. Same(l) /\ l.at = "settle" /\ l.out = "failed" /\ l.settled = run[i].settled
        BY <1>1 DEF LoadTyped, RunAt, Outcomes
      <4>2. run' = [run EXCEPT ![i] = l]
        BY <3>1
      <4> HIDE DEF l, Same
      <4> QED BY <4>1, <4>2
    <3>2. CASE \E w \in Weights[run[i].coverage] :
                 run' = [run EXCEPT ![i].at = "settle", ![i].out = "value", ![i].size = w]
      <4>1. PICK w \in Nat : run' = [run EXCEPT ![i].at = "settle", ![i].out = "value", ![i].size = w]
        BY <1>1, <3>2, DetailAssumption DEF DetailAssumption, LoadTyped
      <4> DEFINE l == [run[i] EXCEPT !.at = "settle", !.out = "value", !.size = w]
      <4>2. Same(l) /\ l.at = "settle" /\ l.out = "value" /\ l.settled = run[i].settled
        BY <1>1 DEF LoadTyped, RunAt, Outcomes
      <4>3. run' = [run EXCEPT ![i] = l]
        BY <4>1
      <4> HIDE DEF l, Same
      <4> QED BY <4>2, <4>3
    <3> QED BY <1>5, <3>1, <3>2 DEF LoadReturns
  <2>2. run[i].at = "load"
    BY <1>5 DEF LoadReturns
  <2> HIDE DEF Same
  <2> QED BY <1>2, <2>1, <2>2
<1>6. CASE Settle(i)
  <2> DEFINE out == IF ~Valid(i) THEN "stale"
                    ELSE IF run[i].out = "value" /\ run[i].size > MaxBytes THEN "limit" ELSE run[i].out
             kept == out = "value" /\ Keeps(i)
             l == [run[i] EXCEPT !.at = "wake", !.out = out, !.until = fence, !.settled = kept]
  <2>1. out \in Outcomes /\ fence \in Nat
    BY <1>1 DEF LoadTyped, Outcomes, Typed
  <2>2. run' = [run EXCEPT ![i] = l] /\ run[i].at = "settle"
    BY <1>6 DEF Settle
  <2>5. kept \in BOOLEAN
    BY Zenon
  <2> HIDE DEF out, kept
  <2>3. Same(l) /\ l.at = "wake" /\ l.out = out /\ l.until = fence
    BY <1>1, <2>1, <2>5 DEF LoadTyped, RunAt
  <2> HIDE DEF l, Same
  <2>4. Moves(i, "wake") /\ run'[i].out = out /\ run'[i].until = fence
    BY <1>2, <2>2, <2>3
  <2> QED BY <1>6, <2>2, <2>4 DEF out
<1>7. CASE CloseReady(i)
  <2> DEFINE l == [run[i] EXCEPT !.at = "finish"]
  <2>1. Same(l) /\ l.at = "finish" /\ l.out = run[i].out /\ l.until = run[i].until
    BY <1>1 DEF LoadTyped, RunAt
  <2>2. run' = [run EXCEPT ![i] = l] /\ run[i].at = "wake"
    BY <1>7 DEF CloseReady
  <2> HIDE DEF l, Same
  <2> QED BY <1>2, <2>1, <2>2
<1>8. CASE RunnerFinished(i)
  <2> DEFINE l == [run[i] EXCEPT !.at = "done"]
  <2>1. Same(l) /\ l.at = "done" /\ l.out = run[i].out /\ l.until = run[i].until
    BY <1>1 DEF LoadTyped, RunAt
  <2>2. run' = [run EXCEPT ![i] = l] /\ run[i].at = "finish"
    BY <1>8 DEF RunnerFinished
  <2> HIDE DEF l, Same
  <2> QED BY <1>2, <2>1, <2>2
<1> QED BY <1>3, <1>4, <1>5, <1>6, <1>7, <1>8 DEF RunStep

\* Settling takes entries out of the map, never one whose load has not settled, and
\* never leaves one of a volatile coverage behind.
LEMMA SettleDrops ==
  ASSUME DInv, NEW i \in Runs, Settle(i)
  PROVE  /\ entries' \in [Coverages -> 0..made]
         /\ \A c \in Coverages : entries'[c] \in {entries[c], 0}
         /\ \A c \in Coverages : entries[c] # i /\ entries[c] # 0 /\ run[entries[c]].at \in Unsettled
                                 => entries'[c] = entries[c]
         /\ \A c \in Volatile : entries'[c] # i
<1>1. Typed /\ OutcomesFenced /\ EntriesAreCurrent
  BY DEF DInv, EntriesFenced
<1>2. run[i].coverage \in Coverages /\ Volatile \subseteq Coverages
  BY <1>1, DetailAssumption DEF Typed, LoadTyped, DetailAssumption
<1>3. CASE Keep(i) /\ Keeps(i)
  <2>1. \A j \in Evicted(i) : run[j].settled \/ j = i
    BY DEF Evicted, Settled
  <2> DEFINE gone == Evicted(i)
  <2>2. entries' = [c \in Coverages |-> IF entries[c] \in gone THEN 0 ELSE entries[c]]
    BY <1>3 DEF Keep
  <2> HIDE DEF gone
  <2>3. \A c \in Coverages : entries[c] # 0 => entries[c] \in Runs
    BY <1>1, DetailAssumption DEF Typed, Runs, DetailAssumption
  <2>4. ASSUME NEW c \in Coverages, entries[c] # i, entries[c] # 0, run[entries[c]].at \in Unsettled
        PROVE  entries'[c] = entries[c]
    <3>1. ~run[entries[c]].settled
      BY <1>1, <2>3, <2>4 DEF OutcomesFenced
    <3>2. entries[c] \notin gone
      BY <2>1, <2>4, <3>1 DEF gone
    <3> QED BY <2>2, <3>2
  <2>5. entries' \in [Coverages -> 0..made] /\ \A c \in Coverages : entries'[c] \in {entries[c], 0}
    BY <1>1, <2>2 DEF Typed
  <2>6. ASSUME NEW c \in Volatile
        PROVE  entries'[c] # i
    BY <1>1, <1>2, <1>3, <2>5 DEF Keeps, EntriesAreCurrent, Runs
  <2> QED BY <2>4, <2>5, <2>6
<1>4. CASE Forget(i)
  <2>1. entries' = IF entries[run[i].coverage] = i THEN [entries EXCEPT ![run[i].coverage] = 0] ELSE entries
    BY <1>4 DEF Forget
  <2>2. entries' \in [Coverages -> 0..made] /\ \A c \in Coverages : entries'[c] \in {entries[c], 0}
    BY <1>1, <1>2, <2>1 DEF Typed
  <2>3. \A c \in Coverages : entries[c] # i => entries'[c] = entries[c]
    BY <1>1, <1>2, <2>1 DEF Typed
  <2>4. ASSUME NEW c \in Coverages
        PROVE  entries'[c] # i
    <3>1. i # 0
      BY DEF Runs
    <3>2. CASE entries[c] = i
      BY <1>1, <2>1, <3>1, <3>2 DEF Typed, EntriesAreCurrent
    <3>3. CASE entries[c] # i
      BY <2>3, <3>3
    <3> QED BY <3>2, <3>3
  <2> QED BY <1>2, <2>2, <2>3, <2>4
<1> QED BY <1>3, <1>4 DEF Settle

\* What the map and the readers refer to are loads that were started.
LEMMA LoadsExist ==
  ASSUME Typed
  PROVE  /\ \A c \in Coverages : entries[c] # 0 => entries[c] \in Runs /\ entries[c] <= made
         /\ \A r \in Readers : reader[r].run # 0 => reader[r].run \in Runs /\ reader[r].run <= made
         /\ \A i \in Runs : run[i].fence \in Nat /\ run[i].coverage \in Coverages
<1>1. made \in 0..MaxRuns /\ MaxRuns \in Nat /\ entries \in [Coverages -> 0..made]
  BY DetailAssumption DEF Typed, DetailAssumption
<1>2. \A c \in Coverages : entries[c] # 0 => entries[c] \in Runs /\ entries[c] <= made
  BY <1>1 DEF Runs
<1>3. \A r \in Readers : reader[r].run \in 0..made
  BY DEF Typed
<1>4. \A r \in Readers : reader[r].run # 0 => reader[r].run \in Runs /\ reader[r].run <= made
  BY <1>1, <1>3 DEF Runs
<1>5. \A i \in Runs : run[i].fence \in Nat /\ run[i].coverage \in Coverages
  BY DEF Typed, LoadTyped
<1> QED
  BY <1>2, <1>4, <1>5

\* Loads in flight are finitely many.
LEMMA InFlightIsFinite ==
  /\ IsFiniteSet(InFlight) /\ Cardinality(InFlight) \in Nat
  /\ IsFiniteSet(InFlight') /\ Cardinality(InFlight') \in Nat
<1>1. IsFiniteSet(Runs) /\ InFlight \subseteq Runs /\ InFlight' \subseteq Runs
  BY FS_Interval, DetailAssumption DEF Runs, DetailAssumption, InFlight
<1> QED BY <1>1, FS_Subset, FS_CardinalityType

\* A step of a load keeps the invariant: it is fenced by the generation it was launched in.
LEMMA RunStepInv == ASSUME DInv, NEW i \in Runs, RunStep(i) PROVE DInv'
<1>1. Typed /\ LoadsCounted /\ EntriesFenced /\ OutcomesFenced /\ ReadersFenced /\ CloserInv
  BY DEF DInv
<1>2. UNCHANGED <<generation, stale, fence, made, drained, reader, closer>>
  BY DEF RunStep, PermitGranted, PermitRefused, LoadReturns, Settle, CloseReady, RunnerFinished, fenceVars
<1>3. /\ entries' \in [Coverages -> 0..made]
      /\ \A c \in Coverages : entries'[c] \in {entries[c], 0}
      /\ \A c \in Coverages : entries[c] # i /\ entries[c] # 0 /\ run[entries[c]].at \in Unsettled
                              => entries'[c] = entries[c]
      /\ run[i].at # "settle" => entries' = entries
      /\ run[i].at = "settle" => \A c \in Volatile : entries'[c] # i
  <2>1. CASE Settle(i)
    BY <2>1, SettleDrops DEF Settle
  <2>2. CASE ~Settle(i)
    <3>1. entries' = entries /\ run[i].at # "settle"
      BY <2>2 DEF RunStep, PermitGranted, PermitRefused, LoadReturns, CloseReady, RunnerFinished, cacheVars
    <3> QED BY <1>1, <3>1 DEF Typed
  <2> QED BY <2>1, <2>2
<1>4. PICK to \in RunAt \ {"none"} :
        /\ Moves(i, to) /\ run[i].at \notin {"none", "done"}
        /\ to \in Unsettled => run[i].at \in Unsettled /\ run'[i].settled = run[i].settled
        /\ to = "settle" => run'[i].out \in {"value", "failed"}
        /\ to = "wake" => /\ run[i].at = "settle" /\ run'[i].until = fence
                         /\ run'[i].out = IF ~Valid(i) THEN "stale"
                              ELSE IF run[i].out = "value" /\ run[i].size > MaxBytes THEN "limit" ELSE run[i].out
        /\ to \in Told => /\ run[i].at \in {"wake", "finish"}
                         /\ run'[i].out = run[i].out /\ run'[i].until = run[i].until
        /\ to = "done" <=> run[i].at = "finish"
        /\ run[i].at = "settle" <=> to = "wake"
        /\ run[i].at \in Told => to \in Told
  BY <1>1, RunStepMoves DEF RunAt, Unsettled, Told
<1>5. /\ \A j \in Runs \ {i} : run'[j] = run[j]
      /\ run'[i].at = to /\ run'[i].coverage = run[i].coverage
      /\ run'[i].gen = run[i].gen /\ run'[i].fence = run[i].fence
  BY <1>4 DEF Moves
<1>6. i <= made /\ run[i].fence <= fence
  BY <1>1, <1>4 DEF LoadsCounted, Typed, Runs, EntriesFenced
<1>7. Typed'
  BY <1>1, <1>2, <1>3, <1>4 DEF Typed, Moves
<1>8. InFlight' = IF to = "done" THEN InFlight \ {i} ELSE InFlight
  BY <1>4, <1>5 DEF InFlight
<1>9. LoadsCounted'
  <2>1. \A j \in Runs : run'[j].at = "none" <=> run[j].at = "none"
    BY <1>4, <1>5
  <2>2. CASE to = "done"
    <3>1. active' = active - 1 /\ (drainedClosed' <=> active = 1)
      BY <1>4, <2>2 DEF RunStep, PermitGranted, PermitRefused, LoadReturns, Settle, CloseReady, RunnerFinished, CountDown
    <3>2. Cardinality(InFlight') = Cardinality(InFlight) - 1
      BY <1>4, <1>8, <2>2, InFlightIsFinite, FS_RemoveElement DEF InFlight
    <3> QED BY <1>1, <1>2, <2>1, <3>1, <3>2, InFlightIsFinite DEF LoadsCounted
  <2>3. CASE to # "done"
    <3>1. UNCHANGED <<active, drainedClosed>>
      BY <1>4, <2>3 DEF RunStep, PermitGranted, PermitRefused, LoadReturns, Settle, CloseReady, RunnerFinished
    <3> QED BY <1>1, <1>2, <1>8, <2>1, <2>3, <3>1 DEF LoadsCounted
  <2> QED BY <2>2, <2>3
<1>10. EntriesFenced'
  <2> USE DEF EntriesFenced, EntriesAreCurrent
  <2>1. \A c \in Coverages : entries[c] # 0 => entries[c] \in Runs
    BY <1>1, LoadsExist
  <2>2. EntriesAreCurrent'
    <3>1. \A c \in Coverages : entries'[c] # 0 => /\ run'[entries'[c]].coverage = c
                                                  /\ run'[entries'[c]].fence = fence
      BY <1>1, <1>3, <1>5, <2>1
    <3>2. ASSUME NEW c \in Volatile, entries'[c] # 0
          PROVE  run'[entries'[c]].at \in {"permit", "load", "settle"}
      <4>1. entries'[c] = entries[c] /\ run[entries[c]].at \in Unsettled /\ entries[c] \in Runs
        BY <1>1, <1>3, <2>1, <3>2, DetailAssumption DEF DetailAssumption, Unsettled
      <4>2. CASE entries[c] = i
        BY <1>3, <1>4, <1>5, <3>2, <4>1, <4>2 DEF Unsettled, RunAt, Told
      <4>3. CASE entries[c] # i
        BY <1>5, <4>1, <4>3 DEF Unsettled
      <4> QED BY <4>2, <4>3
    <3> QED BY <1>2, <3>1, <3>2
  <2>3. \A j \in Runs : j <= made => run'[j].fence <= fence
    BY <1>1, <1>5
  <2>4. ASSUME NEW j \in Runs, run'[j].at \in Unsettled, run'[j].fence = fence
        PROVE  entries'[run'[j].coverage] = j /\ ~stale /\ run'[j].gen = generation
    <3>1. run[j].at \in Unsettled /\ run[j].fence = fence /\ run'[j].coverage = run[j].coverage /\ run'[j].gen = run[j].gen
      BY <1>4, <1>5, <2>4
    <3>2. entries[run[j].coverage] = j /\ ~stale /\ run[j].gen = generation /\ run[j].coverage \in Coverages
      BY <1>1, <3>1 DEF Typed, LoadTyped
    <3>3. j # i \/ run[i].at # "settle"
      BY <1>4, <1>5, <2>4 DEF Unsettled
    <3>4. j # 0
      BY DEF Runs
    <3> QED BY <1>3, <3>1, <3>2, <3>3, <3>4
  <2>5. \A c \in Coverages : entries'[c] # 0 => ~stale
    BY <1>1, <1>3
  <2> QED BY <1>2, <2>2, <2>3, <2>4, <2>5
<1>11. OutcomesFenced'
  <2>1. ASSUME NEW j \in Runs \ {i}
        PROVE  run'[j] = run[j]
    BY <1>5
  <2>2. to \in Unsettled => ~run'[i].settled
    BY <1>1, <1>4 DEF OutcomesFenced
  <2>3. CASE to = "wake"
    <3>1. run[i].out \in {"value", "failed"} /\ run[i].coverage \in Coverages
      BY <1>1, <1>4, <2>3 DEF OutcomesFenced, Typed, LoadTyped
    <3>2. CASE Valid(i)
      <4>1. run[i].fence = fence
        BY <1>1, <3>1, <3>2 DEF Valid, EntriesFenced, EntriesAreCurrent, Runs
      <4>2. run'[i].out \in {"value", "failed", "limit"} /\ run'[i].until = run'[i].fence
        BY <1>4, <1>5, <2>3, <3>1, <3>2, <4>1
      <4> QED BY <1>1, <1>2, <1>5, <2>1, <2>2, <2>3, <4>2 DEF OutcomesFenced, Told
    <3>3. CASE ~Valid(i)
      <4>1. run[i].fence < fence
        <5>1. run[i].fence # fence
          BY <1>1, <1>4, <2>3, <3>3 DEF Valid, EntriesFenced, Unsettled
        <5>2. run[i].fence \in Nat /\ fence \in Nat
          BY <1>1 DEF Typed, LoadTyped
        <5> QED BY <1>6, <5>1, <5>2
      <4>2. run'[i].out = "stale"
        BY <1>4, <2>3, <3>3
      <4> QED BY <1>1, <1>2, <1>5, <2>1, <2>2, <2>3, <4>1, <4>2 DEF OutcomesFenced, Told
    <3> QED BY <3>2, <3>3
  <2>4. CASE to # "wake"
    BY <1>1, <1>2, <1>4, <1>5, <2>1, <2>2, <2>4 DEF OutcomesFenced, Told, Unsettled
  <2> QED BY <2>3, <2>4
<1>12. ReadersFenced'
  <2>1. \A r \in Readers : reader[r].run # 0 => reader[r].run \in Runs
    BY <1>1, LoadsExist
  <2> QED BY <1>1, <1>2, <1>4, <1>5, <2>1 DEF ReadersFenced
<1>13. CloserInv'
  <2>1. InFlight' \subseteq InFlight
    BY <1>8
  <2> QED BY <1>1, <1>2, <2>1 DEF CloserInv, WaitDrains
<1> QED BY <1>7, <1>9, <1>10, <1>11, <1>12, <1>13 DEF DInv

-----------------------------------------------------------------------------
(* The other steps.                                                        *)

\* A fence empties the map; what is in flight was started under an earlier one.
LEMMA FenceStep == ASSUME DInv, BeginGeneration \/ MarkStale \/ CloserFences PROVE DInv'
<1>1. Typed /\ LoadsCounted /\ EntriesFenced /\ OutcomesFenced /\ ReadersFenced /\ CloserInv
  BY DEF DInv
<1>2. /\ fence' = fence + 1 /\ entries' = [c \in Coverages |-> 0]
      /\ UNCHANGED <<run, made, active, drained, drainedClosed, reader>>
  BY DEF BeginGeneration, MarkStale, CloserFences, Clear, runVars
<1>3. /\ generation' \in {generation, generation + 1}
      /\ closer.at = "idle" =>
           \/ closer' = closer /\ fence' <= MaxFences
           \/ closer'.at = "wait" /\ closer'.gen = generation /\ generation' = generation /\ stale'
      /\ closer.at # "idle" => closer' = closer
      /\ generation' = generation => stale'
      /\ closer'.at # "idle" /\ closer.at # "idle" => closer'.gen <= generation'
      /\ Typed'
  <2>1. CASE BeginGeneration
    BY <1>1, <1>2, <2>1, DetailAssumption DEF BeginGeneration, Typed, CloserInv, DetailAssumption
  <2>2. CASE MarkStale
    BY <1>1, <1>2, <2>2, DetailAssumption DEF MarkStale, Typed, CloserInv, DetailAssumption
  <2>3. CASE CloserFences
    <3>1. closer.at = "idle" /\ stale' /\ generation' = generation
          /\ closer' = [closer EXCEPT !.at = "wait", !.gen = generation]
      BY <2>3 DEF CloserFences
    <3>2. /\ closer' \in [at : {"idle", "wait", "waiting", "done"}, chan : Nat, gen : Nat, pending : SUBSET Runs]
          /\ closer'.at = "wait" /\ closer'.gen = generation
      BY <1>1, <3>1 DEF Typed
    <3>3. Typed'
      BY <1>1, <1>2, <3>1, <3>2, DetailAssumption DEF Typed, DetailAssumption
    <3> QED BY <1>1, <3>1, <3>2, <3>3 DEF Typed
  <2> QED BY <2>1, <2>2, <2>3
<1>4. InFlight' = InFlight
  BY <1>2 DEF InFlight
<1>5. LoadsCounted'
  BY <1>1, <1>2, <1>4 DEF LoadsCounted
<1>6. \A i \in Runs : run[i].fence \in Nat
  BY <1>1 DEF Typed, LoadTyped
<1>7. EntriesFenced'
  <2>1. \A i \in Runs : i <= made => run'[i].fence < fence'
    BY <1>1, <1>2, <1>6 DEF EntriesFenced, Typed
  <2>2. \A i \in Runs : run[i].at \in Unsettled => i <= made
    BY <1>1 DEF LoadsCounted, Unsettled, Typed, Runs
  <2>3. \A c \in Coverages : entries'[c] = 0
    BY <1>2
  <2> QED BY <1>1, <1>2, <1>6, <2>1, <2>2, <2>3, DetailAssumption
          DEF EntriesFenced, EntriesAreCurrent, DetailAssumption, Typed
<1>8. OutcomesFenced' /\ ReadersFenced'
  BY <1>1, <1>2, <1>6 DEF OutcomesFenced, ReadersFenced, Typed
<1>9. CloserInv'
  BY <1>1, <1>2, <1>3, <1>4 DEF CloserInv, WaitDrains, Typed
<1> QED BY <1>3, <1>5, <1>7, <1>8, <1>9 DEF DInv

\* Steps that touch readers only, or the order of the list.
LEMMA ReaderStep ==
  ASSUME DInv, NEW r \in Readers,
         \/ ReaderReturns(r) \/ ReaderWithdraws(r)
         \/ \E g \in 1..MaxGen : AcquireStale(r, g)
         \/ \E c \in Coverages, g \in 1..MaxGen : AcquireJoins(r, c, g)
  PROVE  DInv'
<1>1. Typed /\ LoadsCounted /\ EntriesFenced /\ OutcomesFenced /\ ReadersFenced /\ CloserInv
  BY DEF DInv
<1>2. UNCHANGED <<fenceVars, entries, runVars, closer>>
  BY DEF ReaderReturns, ReaderWithdraws, AcquireStale, AcquireJoins, cacheVars
<1>3. LoadsCounted' /\ EntriesFenced' /\ OutcomesFenced' /\ CloserInv'
  BY <1>1, <1>2 DEF LoadsCounted, EntriesFenced, EntriesAreCurrent, OutcomesFenced, CloserInv, WaitDrains,
                    Valid, InFlight, fenceVars, runVars
<1>4. Typed' /\ ReadersFenced'
  <2>1. PICK new : /\ reader' = [reader EXCEPT ![r] = new]
                   /\ new \in [at : {"idle", "waiting", "answered"}, run : 0..made, out : Outcomes, fence : Nat]
                   /\ new.at = "waiting" => new.run # 0 /\ run[new.run].fence = new.fence
                   /\ new.at = "answered" /\ new.out = "value" => new.run # 0 /\ run[new.run].at \in Told
    <3>1. CASE ReaderReturns(r)
      <4> DEFINE i == reader[r].run
                 n == IF run[i].out = "value" THEN i ELSE 0
                 o == run[i].out
                 new == [reader[r] EXCEPT !.at = "answered", !.out = o, !.run = n]
      <4>1. /\ reader' = [reader EXCEPT ![r] = new] /\ run[i].at \in Told /\ reader[r].at = "waiting"
        BY <3>1 DEF ReaderReturns, Told
      <4>2. i \in Runs /\ i \in 0..made /\ i # 0
        BY <1>1, <4>1, LoadsExist DEF ReadersFenced, Typed
      <4>3. o \in Outcomes /\ n \in 0..made /\ (o = "value" => n = i)
        BY <1>1, <4>2 DEF Typed, LoadTyped
      <4> HIDE DEF o, n
      <4>4. new \in [at : {"idle", "waiting", "answered"}, run : 0..made, out : Outcomes, fence : Nat]
        <5> DEFINE T == 0..made
        <5>1. n \in T /\ o \in Outcomes
              /\ reader[r] \in [at : {"idle", "waiting", "answered"}, run : T, out : Outcomes, fence : Nat]
          BY <1>1, <4>3 DEF Typed
        <5> HIDE DEF T
        <5>2. new \in [at : {"idle", "waiting", "answered"}, run : T, out : Outcomes, fence : Nat]
          BY <5>1
        <5> QED BY <5>2 DEF T
      <4>5. new.at = "answered" /\ new.out = o /\ new.run = n
        BY <1>1 DEF Typed
      <4> HIDE DEF new
      <4> QED BY <4>1, <4>2, <4>3, <4>4, <4>5
    <3>2. CASE ReaderWithdraws(r)
      <4>1. reader' = [reader EXCEPT ![r] = NoReader]
        BY <3>2 DEF ReaderWithdraws
      <4>2. NoReader \in [at : {"idle", "waiting", "answered"}, run : 0..made, out : Outcomes, fence : Nat]
            /\ NoReader.at = "idle"
        BY <1>1 DEF NoReader, Outcomes, Typed
      <4> QED BY <4>1, <4>2
    <3>3. CASE \E g \in 1..MaxGen : AcquireStale(r, g)
      <4> DEFINE new == [NoReader EXCEPT !.at = "answered", !.out = "stale"]
      <4>1. reader' = [reader EXCEPT ![r] = new]
        BY <3>3 DEF AcquireStale
      <4>2. NoReader \in [at : {"idle", "waiting", "answered"}, run : 0..made, out : Outcomes, fence : Nat]
        BY <1>1 DEF NoReader, Outcomes, Typed
      <4>3. new \in [at : {"idle", "waiting", "answered"}, run : 0..made, out : Outcomes, fence : Nat]
            /\ new.at = "answered" /\ new.out = "stale"
        BY <4>2 DEF Outcomes
      <4> HIDE DEF new
      <4> QED BY <4>1, <4>3
    <3>4. CASE \E c \in Coverages, g \in 1..MaxGen : AcquireJoins(r, c, g)
      <4>1. PICK c \in Coverages, g \in 1..MaxGen : AcquireJoins(r, c, g)
        BY <3>4
      <4> DEFINE new == [at |-> "waiting", run |-> entries[c], out |-> "none", fence |-> fence]
      <4>2. reader' = [reader EXCEPT ![r] = new] /\ entries[c] # 0
        BY <4>1 DEF AcquireJoins, Awaits
      <4>3. new \in [at : {"idle", "waiting", "answered"}, run : 0..made, out : Outcomes, fence : Nat]
        BY <1>1 DEF Outcomes, Typed
      <4>4. new.at = "waiting" /\ new.run # 0 /\ run[new.run].fence = new.fence
        BY <1>1, <4>2 DEF EntriesFenced, EntriesAreCurrent
      <4> HIDE DEF new
      <4> QED BY <4>2, <4>3, <4>4
    <3> QED BY <3>1, <3>2, <3>3, <3>4
  <2>2. Typed'
    BY <1>1, <1>2, <2>1 DEF Typed, fenceVars, runVars
  <2>3. ReadersFenced'
    <3>1. \A q \in Readers : reader'[q] = IF q = r THEN new ELSE reader[q]
      BY <1>1, <2>1 DEF Typed
    <3> QED BY <1>1, <1>2, <2>1, <3>1 DEF ReadersFenced, runVars
  <2> QED BY <2>2, <2>3
<1> QED BY <1>3, <1>4 DEF DInv

\* What an unused number stands for is well formed.
LEMMA NoRunTyped == LoadTyped(NoRun) /\ ~NoRun.settled /\ NoRun.at = "none"
BY DetailAssumption DEF DetailAssumption, LoadTyped, NoRun, RunAt, Outcomes

\* The first request for a coverage starts a load of its own, in a new burst when
\* none is in flight.
LEMMA LaunchStep ==
  ASSUME DInv, NEW r \in Readers, NEW c \in Coverages, NEW g \in 1..MaxGen, AcquireLaunches(r, c, g)
  PROVE  DInv'
<1>0. PICK i : i = made + 1
  OBVIOUS
<1> DEFINE l == [NoRun EXCEPT !.at = "permit", !.coverage = c, !.gen = g, !.fence = fence]
<1>1. Typed /\ LoadsCounted /\ EntriesFenced /\ OutcomesFenced /\ ReadersFenced /\ CloserInv
  BY DEF DInv
<1>2. /\ reader[r].at # "waiting" /\ ~stale /\ g = generation /\ entries[c] = 0
      /\ made' = i /\ active' = active + 1 /\ DrainedOpens
      /\ entries' = [entries EXCEPT ![c] = i] /\ run' = [run EXCEPT ![i] = l]
      /\ reader' = [reader EXCEPT ![r] = [at |-> "waiting", run |-> i, out |-> "none", fence |-> fence]]
      /\ UNCHANGED <<fenceVars, closer>>
  BY <1>0 DEF AcquireLaunches, CanAsk, Refused, Insert, Awaits
<1>3. i \in Runs /\ made' \in 0..MaxRuns /\ 0..made \subseteq 0..made' /\ i \in 0..made' /\ i \notin 0..made
  BY <1>0, <1>1, <1>2, DetailAssumption DEF AcquireLaunches, Typed, Runs, DetailAssumption
<1>4. LoadTyped(l) /\ l.at = "permit" /\ l.coverage = c /\ l.gen = g /\ l.fence = fence /\ ~l.settled
  <2>1. LoadTyped(NoRun) /\ ~NoRun.settled
    BY NoRunTyped
  <2>2. g \in Nat /\ fence \in Nat
    BY <1>1, <1>2 DEF Typed
  <2> HIDE DEF NoRun
  <2> QED BY <2>1, <2>2 DEF LoadTyped, RunAt
<1>5. /\ run' = [j \in Runs |-> run'[j]] /\ \A j \in Runs : LoadTyped(run'[j])
      /\ \A j \in Runs \ {i} : run'[j] = run[j]
      /\ run'[i] = l
  <2> HIDE DEF l
  <2> QED BY <1>1, <1>2, <1>3, <1>4, LoadChanges
<1> HIDE DEF l
<1>6. Typed'
  <2>1. drained' \in Nat
    BY <1>1, <1>2 DEF DrainedOpens, Typed
  <2>2. entries' \in [Coverages -> 0..made']
    BY <1>1, <1>2, <1>3 DEF Typed
  <2>3. reader' \in [Readers -> [at : {"idle", "waiting", "answered"}, run : 0..made', out : Outcomes, fence : Nat]]
    <3>1. \A q \in Readers : reader[q] \in [at : {"idle", "waiting", "answered"}, run : 0..made', out : Outcomes, fence : Nat]
      BY <1>1, <1>3 DEF Typed
    <3>2. [at |-> "waiting", run |-> i, out |-> "none", fence |-> fence]
            \in [at : {"idle", "waiting", "answered"}, run : 0..made', out : Outcomes, fence : Nat]
      BY <1>1, <1>3 DEF Typed, Outcomes
    <3> QED BY <1>1, <1>2, <3>1, <3>2 DEF Typed
  <2> QED BY <1>1, <1>2, <1>3, <1>5, <2>1, <2>2, <2>3 DEF Typed, fenceVars
<1>7. run[i].at = "none" /\ InFlight' = InFlight \union {i} /\ i \notin InFlight
  <2>1. run[i].at = "none"
    BY <1>1, <1>3 DEF LoadsCounted, Typed
  <2> QED BY <1>3, <1>4, <1>5, <2>1 DEF InFlight
<1>8. LoadsCounted'
  <2>1. \A j \in Runs : run'[j].at = "none" <=> j > made'
    BY <1>0, <1>1, <1>2, <1>3, <1>4, <1>5 DEF LoadsCounted, Runs, Typed
  <2>2. Cardinality(InFlight') = Cardinality(InFlight) + 1 /\ Cardinality(InFlight) \in Nat
    BY <1>7, InFlightIsFinite, FS_AddElement
  <2>3. drainedClosed' <=> active' = 0
    BY <1>1, <1>2, <2>2 DEF LoadsCounted, DrainedOpens
  <2> QED BY <1>1, <1>2, <2>1, <2>2, <2>3 DEF LoadsCounted
<1>9. EntriesFenced'
  <2>1. \A d \in Coverages : entries'[d] = IF d = c THEN i ELSE entries[d]
    BY <1>1, <1>2 DEF Typed
  <2>2. \A d \in Coverages : entries[d] # i /\ (entries[d] # 0 => entries[d] \in Runs)
    BY <1>1, <1>3, LoadsExist DEF Typed
  <2>3. Volatile \subseteq Coverages /\ i # 0 /\ fence \in Nat
    BY <1>0, <1>1, DetailAssumption DEF Typed, DetailAssumption
  <2>4. \A j \in Runs \ {i} : run[j].coverage \in Coverages /\ (j <= made' => j <= made)
    BY <1>0, <1>1, <1>2, LoadsExist DEF Typed, Runs
  <2>5. EntriesAreCurrent'
    BY <1>1, <1>2, <1>4, <1>5, <2>1, <2>2, <2>3 DEF EntriesFenced, EntriesAreCurrent, fenceVars
  <2>6. \A j \in Runs : j <= made' => run'[j].fence <= fence'
    BY <1>1, <1>2, <1>4, <1>5, <2>3, <2>4 DEF EntriesFenced, fenceVars
  <2>7. ASSUME NEW j \in Runs, run'[j].at \in Unsettled, run'[j].fence = fence'
        PROVE  entries'[run'[j].coverage] = j /\ ~stale' /\ run'[j].gen = generation'
    <3>1. CASE j = i
      BY <1>2, <1>4, <1>5, <2>1, <3>1 DEF fenceVars
    <3>2. CASE j # i
      BY <1>1, <1>2, <1>5, <2>1, <2>3, <2>4, <2>7, <3>2 DEF EntriesFenced, fenceVars, Runs
    <3> QED BY <3>1, <3>2
  <2>8. \A d \in Coverages : entries'[d] # 0 => ~stale'
    BY <1>2 DEF fenceVars
  <2> QED BY <2>5, <2>6, <2>7, <2>8 DEF EntriesFenced
<1>10. OutcomesFenced'
  BY <1>1, <1>2, <1>4, <1>5 DEF OutcomesFenced, fenceVars, Told
<1>11. ReadersFenced'
  <2>1. \A q \in Readers \ {r} : reader'[q] = reader[q]
    BY <1>1, <1>2 DEF Typed
  <2>2. reader'[r] = [at |-> "waiting", run |-> i, out |-> "none", fence |-> fence]
    BY <1>1, <1>2 DEF Typed
  <2>3. \A q \in Readers : reader[q].run # i /\ (reader[q].run # 0 => reader[q].run \in Runs)
    BY <1>1, <1>3, LoadsExist DEF Typed
  <2>4. i # 0
    BY <1>0, <1>1 DEF Typed
  <2> QED BY <1>1, <1>3, <1>4, <1>5, <2>1, <2>2, <2>3, <2>4 DEF ReadersFenced
<1>12. CloserInv'
  <2>1. closer.at # "idle" => generation # closer.gen
    BY <1>1, <1>2 DEF CloserInv
  <2>2. drained' = drained \/ (drained' = drained + 1 /\ InFlight = {})
    BY <1>1, <1>2, InFlightIsFinite, FS_EmptySet DEF DrainedOpens, LoadsCounted
  <2>3. closer.at \in {"waiting", "done"} => closer.pending \intersect InFlight' = closer.pending \intersect InFlight
    BY <1>1, <1>3, <1>7 DEF CloserInv, Typed
  <2>4. closer.at \in {"waiting", "done"} => closer.pending \subseteq 1..made'
    BY <1>0, <1>1, <1>2 DEF CloserInv, Typed
  <2> QED BY <1>1, <1>2, <2>1, <2>2, <2>3, <2>4 DEF CloserInv, WaitDrains, Typed, fenceVars
<1> QED BY <1>6, <1>8, <1>9, <1>10, <1>11, <1>12 DEF DInv

\* The finalizer captures the channel of the burst in flight, and passes when it is
\* closed, or another has taken its place.
LEMMA CloserStep == ASSUME DInv, CloserCaptures \/ CloserReturns PROVE DInv'
<1>1. Typed /\ LoadsCounted /\ EntriesFenced /\ OutcomesFenced /\ ReadersFenced /\ CloserInv
  BY DEF DInv
<1>2. UNCHANGED <<fenceVars, entries, runVars, reader>>
  BY DEF CloserCaptures, CloserReturns, cacheVars
<1>3. LoadsCounted' /\ EntriesFenced' /\ OutcomesFenced' /\ ReadersFenced' /\ InFlight' = InFlight
  BY <1>1, <1>2 DEF LoadsCounted, EntriesFenced, EntriesAreCurrent, OutcomesFenced, ReadersFenced,
                    InFlight, fenceVars, runVars
<1>4. CASE CloserCaptures
  <2>1. /\ closer' \in [at : {"idle", "wait", "waiting", "done"}, chan : Nat, gen : Nat, pending : SUBSET Runs]
        /\ closer.at = "wait" /\ closer'.at = "waiting" /\ closer'.chan = drained
        /\ closer'.gen = closer.gen /\ closer'.pending = InFlight
    BY <1>1, <1>4 DEF CloserCaptures, Typed, InFlight
  <2>2. InFlight \subseteq 1..made
    BY <1>1 DEF InFlight, LoadsCounted, Runs, Typed
  <2>3. Typed'
    BY <1>1, <1>2, <2>1 DEF Typed, fenceVars, runVars
  <2>4. CloserInv'
    BY <1>1, <1>2, <1>3, <2>1, <2>2 DEF CloserInv, WaitDrains, fenceVars, runVars, Typed
  <2> QED BY <1>3, <2>3, <2>4 DEF DInv
<1>5. CASE CloserReturns
  <2>1. /\ closer' \in [at : {"idle", "wait", "waiting", "done"}, chan : Nat, gen : Nat, pending : SUBSET Runs]
        /\ closer.at = "waiting" /\ closer'.at = "done" /\ (drainedClosed \/ closer.chan # drained)
        /\ closer'.gen = closer.gen /\ closer'.pending = closer.pending
    BY <1>1, <1>5 DEF CloserReturns, Typed
  <2>2. drainedClosed => InFlight = {}
    BY <1>1, InFlightIsFinite, FS_EmptySet DEF LoadsCounted
  <2>3. Typed'
    BY <1>1, <1>2, <2>1 DEF Typed, fenceVars, runVars
  <2>4. CloserInv'
    BY <1>1, <1>2, <1>3, <2>1, <2>2 DEF CloserInv, WaitDrains, fenceVars, runVars, Typed
  <2> QED BY <1>3, <2>3, <2>4 DEF DInv
<1> QED BY <1>4, <1>5

\* Nothing the invariant speaks of changes when the store's context ends.
LEMMA IdleStep == ASSUME DInv, ParentEnds \/ UNCHANGED vars PROVE DInv'
<1>1. UNCHANGED <<generation, stale, fence, entries, runVars, reader, closer>>
  BY DEF ParentEnds, vars, fenceVars, cacheVars
<1>2. Typed' /\ LoadsCounted' /\ EntriesFenced'
  BY <1>1 DEF DInv, Typed, LoadsCounted, EntriesFenced, EntriesAreCurrent, InFlight, runVars
<1>3. OutcomesFenced' /\ ReadersFenced' /\ CloserInv'
  BY <1>1 DEF DInv, OutcomesFenced, ReadersFenced, CloserInv, WaitDrains, InFlight, runVars
<1> QED BY <1>2, <1>3 DEF DInv

-----------------------------------------------------------------------------
(* The invariant.                                                          *)

\* Nothing has been requested.
LEMMA InitInv == Init => DInv
<1> SUFFICES ASSUME Init PROVE DInv
  OBVIOUS
<1> USE DetailAssumption DEF DetailAssumption, Init
<1>1. LoadTyped(NoRun) /\ NoRun.at = "none"
  BY DEF LoadTyped, NoRun, RunAt, Outcomes
<1>2. \A i \in Runs : run[i] = NoRun
  OBVIOUS
<1>3. Typed
  BY <1>1, <1>2 DEF Typed, NoReader, Outcomes
<1>4. InFlight = {}
  BY <1>1, <1>2 DEF InFlight
<1>5. LoadsCounted
  BY <1>1, <1>2, <1>4, FS_EmptySet DEF LoadsCounted, Runs
<1>6. EntriesFenced /\ OutcomesFenced /\ ReadersFenced
  BY <1>1, <1>2 DEF EntriesFenced, EntriesAreCurrent, OutcomesFenced, ReadersFenced, Unsettled, Told, NoReader, Runs
<1>7. CloserInv
  BY DEF CloserInv, WaitDrains
<1> QED BY <1>3, <1>5, <1>6, <1>7 DEF DInv

\* Every step keeps the invariant.
LEMMA NextInv == DInv /\ [Next]_vars => DInv'
BY RunStepInv, FenceStep, ReaderStep, LaunchStep, CloserStep, IdleStep DEF Next

\* However requests, loads, generations and the finalizer interleave, the bookkeeping of
\* detailStore is consistent: entries and outcomes belong to their fence, and the counts
\* are those of the loads.
THEOREM DetailInvariant == Spec => []DInv
BY InitInv, NextInv, PTL DEF Spec

\* The finalizer of a store passes wait only when what it waited for has ended, and
\* no load runs unless a generation was begun since (detailStore.markStale, wait).
THEOREM WaitIsForAll == Spec => []WaitDrains
BY DetailInvariant, PTL DEF DInv, CloserInv

\* However many readers ask, one load per coverage runs for the fence in force, and
\* what the map holds is of that fence (detailStore.acquire, settle, evictLocked).
THEOREM LoadsAreShared == Spec => [](OneLoadPerCoverage /\ EntriesAreCurrent)
<1>1. DInv => OneLoadPerCoverage /\ EntriesAreCurrent
  BY DEF DInv, EntriesFenced, OneLoadPerCoverage, InFlight, Unsettled
<1> QED BY <1>1, DetailInvariant, PTL

-----------------------------------------------------------------------------
(* The promise.                                                            *)

\* What a reader has is as it was when its load and its own state are.
LEMMA AnswersStay ==
  ASSUME DInv, NEW r \in Readers, reader'[r] = reader[r],
         \A i \in Runs : i <= made => /\ run'[i].coverage = run[i].coverage /\ run'[i].fence = run[i].fence
                                      /\ run[i].at \in Told => run'[i].until = run[i].until
  PROVE  AnswerOf(r)' = AnswerOf(r)
<1>1. Typed /\ ReadersFenced
  BY DEF DInv
<1>2. reader[r].run # 0 => reader[r].run \in Runs /\ reader[r].run <= made
  BY <1>1, LoadsExist
<1>3. CASE reader[r].at = "idle"
  BY <1>3 DEF AnswerOf
<1>4. CASE reader[r].at = "waiting"
  BY <1>1, <1>2, <1>4 DEF AnswerOf, ReadersFenced
<1>5. CASE reader[r].at = "answered"
  <2>1. CASE reader[r].out = "value"
    BY <1>1, <1>2, <1>5, <2>1 DEF AnswerOf, ReadersFenced
  <2>2. CASE reader[r].out # "value"
    BY <1>5, <2>2 DEF AnswerOf
  <2> QED BY <2>1, <2>2
<1> QED BY <1>1, <1>3, <1>4, <1>5 DEF Typed

Requests == [r \in Readers |-> AnswerOf(r)]

\* What becomes of one request.
LEMMA OneRequestMoves ==
  ASSUME DInv, NEW r \in Readers, NEW new, reader' = [reader EXCEPT ![r] = new],
         \A i \in Runs : i <= made => run'[i] = run[i]
  PROVE  Requests' = [Requests EXCEPT ![r] = AnswerOf(r)']
<1>1. \A q \in Readers \ {r} : AnswerOf(q)' = AnswerOf(q)
  <2>1. \A q \in Readers \ {r} : reader'[q] = reader[q]
    BY DEF DInv, Typed
  <2> QED BY <2>1, AnswersStay
<1> QED BY <1>1 DEF Requests

\* Nobody's request moves.
LEMMA NoRequestMoves ==
  ASSUME \A r \in Readers : AnswerOf(r)' = AnswerOf(r)
  PROVE  Requests' = Requests
BY DEF Requests

\* The promise starts with nobody asking.
LEMMA PromisedInit == Init => Promise!Init
<1> SUFFICES ASSUME Init PROVE Promise!Init
  OBVIOUS
<1>1. \A r \in Readers : AnswerOf(r) = [at |-> "idle"]
  BY DEF Init, NoReader, AnswerOf
<1> QED BY <1>1 DEF Init, Promise!Init, Promise!Nobody

\* A request is refused, or waits for a load of its coverage under the fence it saw.
LEMMA PromisedAsk ==
  ASSUME DInv, NEW r \in Readers, NEW c \in Coverages, NEW g \in 1..MaxGen,
         AcquireStale(r, g) \/ AcquireJoins(r, c, g) \/ AcquireLaunches(r, c, g)
  PROVE  Promise!Ask(r, c, g)
<1>1. Typed /\ ReadersFenced /\ EntriesFenced /\ LoadsCounted
  BY DEF DInv
<1>2. reader[r].at # "waiting" /\ UNCHANGED <<generation, stale, fence>>
  BY DEF AcquireStale, AcquireJoins, AcquireLaunches, CanAsk, fenceVars
<1>3. AnswerOf(r).at # "waiting"
  BY <1>1, <1>2 DEF AnswerOf, Typed
<1>4. /\ Requests' = [Requests EXCEPT ![r] = AnswerOf(r)']
      /\ AnswerOf(r)' = IF stale \/ g # generation
                        THEN [at |-> "answered", answer |-> [out |-> "stale"]]
                        ELSE [at |-> "waiting", coverage |-> c, fence |-> fence]
  <2>1. CASE AcquireStale(r, g)
    <3> DEFINE new == [NoReader EXCEPT !.at = "answered", !.out = "stale"]
    <3>1. reader' = [reader EXCEPT ![r] = new] /\ run' = run /\ (stale \/ g # generation)
      BY <2>1 DEF AcquireStale, Refused, runVars
    <3>2. new.at = "answered" /\ new.out = "stale"
      BY DEF NoReader
    <3> HIDE DEF new
    <3>3. reader'[r] = new
      BY <1>1, <3>1 DEF Typed
    <3> QED BY <3>1, <3>2, <3>3, OneRequestMoves DEF AnswerOf
  <2>2. CASE AcquireJoins(r, c, g)
    <3> DEFINE new == [at |-> "waiting", run |-> entries[c], out |-> "none", fence |-> fence]
    <3>1. reader' = [reader EXCEPT ![r] = new] /\ run' = run /\ ~(stale \/ g # generation) /\ entries[c] # 0
      BY <2>2 DEF AcquireJoins, Awaits, Refused, runVars
    <3>2. reader'[r] = new
      BY <1>1, <3>1 DEF Typed
    <3>3. run[entries[c]].coverage = c
      BY <1>1, <3>1 DEF EntriesFenced, EntriesAreCurrent
    <3>4. AnswerOf(r)' = [at |-> "waiting", coverage |-> c, fence |-> fence]
      BY <3>1, <3>2, <3>3 DEF AnswerOf
    <3>5. Requests' = [Requests EXCEPT ![r] = AnswerOf(r)']
      BY <3>1, OneRequestMoves
    <3> QED BY <3>1, <3>4, <3>5
  <2>3. CASE AcquireLaunches(r, c, g)
    <3>1. PICK i : i = made + 1
      OBVIOUS
    <3> DEFINE new == [at |-> "waiting", run |-> i, out |-> "none", fence |-> fence]
               l == [NoRun EXCEPT !.at = "permit", !.coverage = c, !.gen = g, !.fence = fence]
    <3>0. i \in Runs
      BY <1>1, <2>3, <3>1, DetailAssumption DEF AcquireLaunches, Runs, Typed, DetailAssumption
    <3>2. /\ reader' = [reader EXCEPT ![r] = new] /\ run' = [run EXCEPT ![i] = l]
          /\ ~(stale \/ g # generation)
      BY <2>3, <3>1 DEF AcquireLaunches, Awaits, Refused
    <3>3. l.coverage = c
      BY DEF NoRun
    <3> HIDE DEF l
    <3>4. run'[i] = l /\ \A j \in Runs : j <= made => run'[j] = run[j]
      BY <1>1, <3>0, <3>1, <3>2 DEF Typed, Runs
    <3>5. reader'[r] = new
      BY <1>1, <3>2 DEF Typed
    <3>6. AnswerOf(r)' = [at |-> "waiting", coverage |-> c, fence |-> fence]
      BY <3>3, <3>4, <3>5 DEF AnswerOf
    <3>7. Requests' = [Requests EXCEPT ![r] = AnswerOf(r)']
      BY <3>2, <3>4, OneRequestMoves
    <3> QED BY <3>2, <3>6, <3>7
  <2> QED BY <2>1, <2>2, <2>3
<1> QED BY <1>2, <1>3, <1>4 DEF Promise!Ask, Promise!Verdict, Requests

\* What a load has come to is what a reader may be told.
LEMMA PromisedAnswer == ASSUME DInv, NEW r \in Readers, ReaderReturns(r) PROVE Promise!Answer(r)
<1> DEFINE i == reader[r].run
           o == run[i].out
           n == IF o = "value" THEN i ELSE 0
           new == [reader[r] EXCEPT !.at = "answered", !.out = o, !.run = n]
<1>1. Typed /\ ReadersFenced /\ OutcomesFenced
  BY DEF DInv
<1>2. /\ reader[r].at = "waiting" /\ run[i].at \in Told /\ reader' = [reader EXCEPT ![r] = new]
      /\ UNCHANGED <<generation, stale, fence, run>>
  BY DEF ReaderReturns, Told, fenceVars, runVars
<1>3. i \in Runs /\ run[i].fence = reader[r].fence
  BY <1>1, <1>2, LoadsExist DEF ReadersFenced
<1>4. /\ o \in {"value", "stale", "failed", "limit"}
      /\ o = "value" => run[i].until = reader[r].fence
      /\ o = "stale" => reader[r].fence < fence
  BY <1>1, <1>2, <1>3 DEF OutcomesFenced
<1>5. reader'[r] = new
  BY <1>1, <1>2 DEF Typed
<1>6. new.at = "answered" /\ new.out = o /\ new.run = n
  BY <1>1 DEF Typed
<1>7. AnswerOf(r) = [at |-> "waiting", coverage |-> run[i].coverage, fence |-> reader[r].fence]
  BY <1>2 DEF AnswerOf
<1>8. AnswerOf(r)' = [at |-> "answered",
                      answer |-> IF o = "value"
                                 THEN [out |-> "value", coverage |-> run[i].coverage,
                                       from |-> reader[r].fence, until |-> reader[r].fence]
                                 ELSE [out |-> o]]
  <2> DEFINE v == run[i].until
  <2>1. reader'[r].at = "answered" /\ reader'[r].out = o /\ (o = "value" => reader'[r].run = i)
    BY <1>5, <1>6
  <2> QED BY <1>2, <1>3, <1>4, <2>1 DEF AnswerOf
<1>9. Requests' = [Requests EXCEPT ![r] = AnswerOf(r)']
  BY <1>2, OneRequestMoves
<1>10. PICK a : AnswerOf(r)' = [at |-> "answered", answer |-> a]
             /\ a \in {Promise!Value(run[i].coverage, reader[r].fence), Promise!Verdict("failed"), Promise!Verdict("limit")}
                  \union {Promise!Verdict(x) : x \in IF fence > reader[r].fence THEN {"stale"} ELSE {}}
  <2>1. CASE o = "value"
    BY <1>8, <2>1 DEF Promise!Value
  <2>2. CASE o = "failed" \/ o = "limit"
    BY <1>8, <2>2 DEF Promise!Verdict
  <2>3. CASE o = "stale"
    <3>1. fence > reader[r].fence
      BY <1>1, <1>4, <2>3 DEF Typed
    <3> QED BY <1>8, <2>3, <3>1 DEF Promise!Verdict
  <2> QED BY <1>4, <2>1, <2>2, <2>3
<1>11. /\ Requests[r].at = "waiting" /\ Requests[r].coverage = run[i].coverage
       /\ Requests[r].fence = reader[r].fence
  BY <1>7 DEF Requests
<1> HIDE DEF i, o, n, new
<1>12. \E w \in {Promise!Value(Requests[r].coverage, Requests[r].fence), Promise!Verdict("failed"), Promise!Verdict("limit")}
                \union {Promise!Verdict(x) : x \in IF fence > Requests[r].fence THEN {"stale"} ELSE {}} :
          Requests' = [Requests EXCEPT ![r] = [at |-> "answered", answer |-> w]]
  BY <1>9, <1>10, <1>11
<1> QED BY <1>2, <1>11, <1>12 DEF Promise!Answer, Requests

\* A reader that gives up withdraws its request.
LEMMA PromisedWithdraw == ASSUME DInv, NEW r \in Readers, ReaderWithdraws(r) PROVE Promise!Withdraw(r)
<1>1. /\ reader[r].at = "waiting" /\ reader' = [reader EXCEPT ![r] = NoReader]
      /\ UNCHANGED <<generation, stale, fence, run>>
  BY DEF ReaderWithdraws, fenceVars, runVars
<1>2. reader'[r] = NoReader
  BY <1>1 DEF DInv, Typed
<1>3. AnswerOf(r).at = "waiting" /\ AnswerOf(r)' = [at |-> "idle"]
  BY <1>1, <1>2 DEF AnswerOf, NoReader
<1>4. Requests' = [Requests EXCEPT ![r] = AnswerOf(r)']
  BY <1>1, OneRequestMoves
<1> QED BY <1>1, <1>3, <1>4 DEF Promise!Withdraw, Promise!Nobody, Requests

\* A fence leaves every request and every answer as it is.
LEMMA PromisedFence ==
  ASSUME DInv, BeginGeneration \/ MarkStale \/ CloserFences
  PROVE  Promise!BeginGeneration \/ Promise!MarkStale
<1>1. UNCHANGED <<run, reader>>
  BY DEF BeginGeneration, MarkStale, CloserFences, runVars
<1>2. Requests' = Requests
  BY <1>1, AnswersStay, NoRequestMoves
<1>3. fence \in Nat /\ (closer.at = "idle" => fence <= MaxFences)
  BY DEF DInv, Typed, CloserInv
<1>4. CASE BeginGeneration
  BY <1>2, <1>3, <1>4, DetailAssumption DEF BeginGeneration, Promise!BeginGeneration, Requests, DetailAssumption
<1>5. CASE MarkStale
  BY <1>2, <1>3, <1>5, DetailAssumption DEF MarkStale, Promise!MarkStale, Requests, DetailAssumption
<1>6. CASE CloserFences
  BY <1>2, <1>3, <1>6, DetailAssumption DEF CloserFences, Promise!MarkStale, Requests, DetailAssumption
<1> QED BY <1>4, <1>5, <1>6

\* Everything a load or the finalizer does is its own affair.
LEMMA PromisedStutter ==
  ASSUME DInv,
         \/ \E i \in Runs : RunStep(i)
         \/ ParentEnds \/ CloserCaptures \/ CloserReturns \/ UNCHANGED vars
  PROVE  UNCHANGED <<generation, stale, fence, Requests>>
<1>1. CASE \E i \in Runs : RunStep(i)
  <2>1. PICK i \in Runs : RunStep(i)
    BY <1>1
  <2>2. UNCHANGED <<generation, stale, fence, reader>>
    BY <2>1 DEF RunStep, PermitGranted, PermitRefused, LoadReturns, Settle, CloseReady, RunnerFinished, fenceVars
  <2>3. \A j \in Runs : /\ run'[j].coverage = run[j].coverage /\ run'[j].fence = run[j].fence
                        /\ run[j].at \in Told => run'[j].until = run[j].until
    BY <2>1, RunStepMoves DEF DInv, Moves, Told
  <2> QED BY <2>2, <2>3, AnswersStay, NoRequestMoves
<1>2. CASE ParentEnds \/ CloserCaptures \/ CloserReturns \/ UNCHANGED vars
  <2>1. UNCHANGED <<generation, stale, fence, run, reader>>
    BY <1>2 DEF ParentEnds, CloserCaptures, CloserReturns, vars, fenceVars, runVars
  <2> QED BY <2>1, AnswersStay, NoRequestMoves
<1> QED BY <1>1, <1>2

\* Every step is a step of the promise, or none.
LEMMA PromisedNext == DInv /\ [Next]_vars => [Promise!Next]_(Promise!vars)
<1> SUFFICES ASSUME DInv, [Next]_vars PROVE [Promise!Next]_(Promise!vars)
  OBVIOUS
<1>1. CASE BeginGeneration \/ MarkStale \/ CloserFences
  BY <1>1, PromisedFence DEF Promise!Next
<1>2. CASE \E r \in Readers, g \in 1..MaxGen : AcquireStale(r, g)
  <2>1. PICK c \in Coverages : TRUE
    BY DetailAssumption DEF DetailAssumption
  <2> QED BY <1>2, <2>1, PromisedAsk DEF Promise!Next
<1>3. CASE \E r \in Readers, c \in Coverages, g \in 1..MaxGen : AcquireJoins(r, c, g) \/ AcquireLaunches(r, c, g)
  BY <1>3, PromisedAsk DEF Promise!Next
<1>4. CASE \E r \in Readers : ReaderReturns(r) \/ ReaderWithdraws(r)
  BY <1>4, PromisedAnswer, PromisedWithdraw DEF Promise!Next
<1>5. CASE \/ \E i \in Runs : RunStep(i)
           \/ ParentEnds \/ CloserCaptures \/ CloserReturns \/ UNCHANGED vars
  BY <1>5, PromisedStutter DEF Promise!vars, Requests
<1> QED BY <1>1, <1>2, <1>3, <1>4, <1>5 DEF Next

\* The detail store with its cache, its shared loads and its evictions implements the
\* promise: a value was loaded for the reader's coverage under the fence its request
\* saw, and a reader is told ErrStale only when a fence overtook it.
THEOREM DetailsKeepPromise == Spec => KeepsPromise
BY DetailInvariant, PromisedInit, PromisedNext, PTL DEF Spec, KeepsPromise, Promise!Spec

-----------------------------------------------------------------------------
(* Nobody waits in vain.  What is enabled is beyond the prover, so that    *)
(* the guards of the steps in AtRest are spelled out; the run checks the   *)
(* same of what is enabled (NobodyIsStranded).                             *)

\* The guard of some step that goes on by itself.
SomethingMoves ==
  \/ \E i \in Runs : run[i].at \in {"permit", "load", "settle", "wake", "finish"}
  \/ \E r \in Readers : reader[r].at = "waiting" /\ run[reader[r].run].at \in Told
  \/ closer.at = "wait"
  \/ closer.at = "waiting" /\ (drainedClosed \/ closer.chan # drained)

\* As long as a reader waits on an entry, or the finalizer on the loads, something can move
\* that needs nobody's help, whatever was fenced, evicted or abandoned, for any number of
\* readers and loads.
THEOREM NobodyWaitsInVain ==
  Spec => [](~SomethingMoves => (\A r \in Readers : reader[r].at # "waiting") /\ closer.at \in {"idle", "done"})
<1>1. ASSUME DInv, ~SomethingMoves
      PROVE  (\A r \in Readers : reader[r].at # "waiting") /\ closer.at \in {"idle", "done"}
  <2>1. \A i \in Runs : run[i].at \in {"none", "done"}
    BY <1>1 DEF DInv, Typed, LoadTyped, RunAt, SomethingMoves
  <2>2. ASSUME NEW r \in Readers, reader[r].at = "waiting" PROVE FALSE
    <3>1. PICK i \in Runs : i = reader[r].run /\ i <= made
      BY <1>1, <2>2, DetailAssumption DEF DInv, Typed, ReadersFenced, Runs
    <3>2. run[i].at = "done"
      BY <1>1, <2>1, <3>1 DEF DInv, LoadsCounted, Typed
    <3> QED
      BY <1>1, <2>2, <3>1, <3>2 DEF SomethingMoves, Told
  <2>3. InFlight = {}
    BY <2>1 DEF InFlight
  <2>4. drainedClosed
    BY <1>1, <2>3, FS_EmptySet DEF DInv, LoadsCounted
  <2>5. closer.at \in {"idle", "wait", "waiting", "done"}
    BY <1>1 DEF DInv, Typed
  <2> QED
    BY <1>1, <2>2, <2>4, <2>5 DEF SomethingMoves
<1> QED
  BY <1>1, DetailInvariant, PTL

-----------------------------------------------------------------------------
(* Induction and recursion, as facts about sets and functions: the provers *)
(* cannot instantiate theorems about operators.                            *)

\* What holds of 0 and of the next number of each that it holds of holds of every number.
LEMMA Induction ==
  ASSUME NEW T, 0 \in T, \A n \in Nat : n \in T => n + 1 \in T
  PROVE  Nat \subseteq T
<1> DEFINE R == OpToRel(<, Nat)
           Miss == Nat \ T
<1>1. SUFFICES ASSUME Miss # {} PROVE FALSE
  OBVIOUS
<1>2. IsWellFoundedOn(R, Nat) /\ Miss \subseteq Nat
  BY NatLessThanWellFounded
<1>3. \A x, y : x \in Nat /\ y \in Nat /\ y < x => <<y, x>> \in R
  BY DEF OpToRel
<1> HIDE DEF R
<1>4. PICK x \in Miss : \A y \in Miss : ~(<<y, x>> \in R)
  BY <1>1, <1>2, WFMin
<1>5. x # 0 /\ x \in Nat
  OBVIOUS
<1>6. x - 1 \in Nat /\ x - 1 < x /\ (x - 1) + 1 = x
  BY <1>5
<1>7. x - 1 \notin Miss
  BY <1>3, <1>4, <1>5, <1>6
<1> QED
  BY <1>5, <1>6, <1>7

\* A start in S and a step from each number and value to the next value, and the sequence of
\* values that follows from them.
StepRule(S, a, h) == a \in S /\ h \in [Nat -> [S -> S]]
Follows(f, S, a, h) == f \in [Nat -> S] /\ f[0] = a /\ \A n \in Nat : f[n + 1] = h[n][f[n]]
\* There is one.
LEMMA Recursion ==
  ASSUME NEW S, NEW a, NEW h, StepRule(S, a, h)
  PROVE  \E f : Follows(f, S, a, h)
<1> USE DEF StepRule
<1> DEFINE Solves(g, n) == g[0] = a /\ \A k \in Nat : k < n => g[k + 1] = h[k][g[k]]
           T == {n \in Nat : \E g \in [Nat -> S] : Solves(g, n)}
<1>1. 0 \in T
  <2> DEFINE g == [k \in Nat |-> a]
  <2>1. g \in [Nat -> S] /\ Solves(g, 0)
    OBVIOUS
  <2> HIDE DEF g, Solves
  <2> QED BY <2>1
<1>2. ASSUME NEW n \in Nat, n \in T
      PROVE  n + 1 \in T
  <2>1. PICK g \in [Nat -> S] : Solves(g, n)
    BY <1>2
  <2> DEFINE e == [g EXCEPT ![n + 1] = h[n][g[n]]]
  <2>2. e \in [Nat -> S] /\ e[n + 1] = h[n][g[n]] /\ \A k \in Nat : k <= n => e[k] = g[k]
    OBVIOUS
  <2> HIDE DEF e
  <2>3. e[0] = a
    BY <2>1, <2>2
  <2>4. ASSUME NEW k \in Nat, k < n + 1
        PROVE  e[k + 1] = h[k][e[k]]
    <3>1. e[k] = g[k] 
      BY <2>2, <2>4
    <3>2. CASE k = n
      BY <2>2, <3>1, <3>2
    <3>3. CASE k < n
      <4>1. k + 1 <= n /\ k + 1 \in Nat
        BY <3>3
      <4>2. g[k + 1] = h[k][g[k]]
        BY <2>1, <3>3
      <4> QED BY <2>2, <3>1, <4>1, <4>2
    <3> QED BY <2>4, <3>2, <3>3
  <2>5. Solves(e, n + 1)
    BY <2>3, <2>4
  <2> HIDE DEF Solves
  <2> QED BY <2>2, <2>5
<1>3. \A n \in Nat : n \in T
  <2> HIDE DEF T
  <2> QED BY <1>1, <1>2, Induction
<1> DEFINE G == [n \in Nat |-> CHOOSE g \in [Nat -> S] : Solves(g, n)]
<1>4. ASSUME NEW n \in Nat
      PROVE  G[n] \in [Nat -> S] /\ Solves(G[n], n)
  <2>1. \E g \in [Nat -> S] : Solves(g, n)
    BY <1>3
  <2> HIDE DEF Solves
  <2> QED BY <2>1
<1> HIDE DEF G
<1>5. ASSUME NEW m \in Nat, NEW n \in Nat, m <= n
      PROVE  G[n][m] = G[m][m]
  <2> DEFINE U == {k \in Nat : k <= m => G[n][k] = G[m][k]}
  <2>1. 0 \in U
    BY <1>4
  <2>2. ASSUME NEW k \in Nat, k \in U
        PROVE  k + 1 \in U
    <3>1. CASE k + 1 <= m
      <4>1. k < m /\ k < n
        BY <1>5, <3>1
      <4>2. G[n][k] = G[m][k]
        BY <2>2, <4>1
      <4>3. G[n][k + 1] = h[k][G[n][k]] /\ G[m][k + 1] = h[k][G[m][k]]
        BY <1>4, <4>1
      <4> QED BY <4>2, <4>3
    <3> QED BY <3>1
  <2>3. m \in U
    <3> HIDE DEF U
    <3> QED BY <2>1, <2>2, Induction
  <2> QED BY <2>3
<1> DEFINE f == [n \in Nat |-> G[n][n]]
<1>6. f \in [Nat -> S] /\ f[0] = a
  BY <1>4
<1>7. ASSUME NEW n \in Nat
      PROVE  f[n + 1] = h[n][f[n]]
  <2>1. n + 1 \in Nat /\ n < n + 1 /\ n <= n + 1
    OBVIOUS
  <2>2. G[n + 1][n] = G[n][n]
    BY <1>5, <2>1
  <2>3. G[n + 1][n + 1] = h[n][G[n + 1][n]]
    BY <1>4, <2>1
  <2> QED BY <2>1, <2>2, <2>3
<1> HIDE DEF f
<1> QED BY <1>6, <1>7 DEF Follows

-----------------------------------------------------------------------------
(* Lists.                                                                  *)

Distinct(list) == \A m, n \in DOMAIN list : list[m] = list[n] => m = n

\* Without takes out what it is told to and keeps the rest, each entry once.
LEMMA WithoutDrops ==
  ASSUME NEW list \in Seq(Runs), Distinct(list), NEW gone
  PROVE  /\ Without(list, gone) \in Seq(Runs) /\ Distinct(Without(list, gone))
         /\ Range(Without(list, gone)) = Range(list) \ gone
<1> DEFINE D == 0..Len(list)
           Step(f, n) == IF n = 0 THEN <<>>
                         ELSE IF list[n] \in gone THEN f[n - 1] ELSE Append(f[n - 1], list[n])
           kept == CHOOSE f : f = [n \in D |-> Step(f, n)]
<1>1. Len(list) \in Nat /\ DOMAIN list = 1..Len(list) /\ \A n \in 1..Len(list) : list[n] \in Runs
  OBVIOUS
<1>2. \E f : f = [n \in D |-> Step(f, n)]
  <2> DEFINE h == [n \in Nat |-> [x \in Seq(Runs) |->
                     IF n + 1 \in 1..Len(list) /\ list[n + 1] \notin gone THEN Append(x, list[n + 1]) ELSE x]]
  <2>1. h \in [Nat -> [Seq(Runs) -> Seq(Runs)]]
    BY <1>1
  <2>2. StepRule(Seq(Runs), <<>>, h)
    BY <2>1 DEF StepRule
  <2> HIDE DEF h
  <2>7. \E g : Follows(g, Seq(Runs), <<>>, h)
    BY <2>2, Recursion
  <2>3. PICK g \in [Nat -> Seq(Runs)] : g[0] = <<>> /\ \A n \in Nat : g[n + 1] = h[n][g[n]]
    BY <2>7 DEF Follows
  <2> DEFINE f == [n \in D |-> g[n]]
  <2>4. ASSUME NEW n \in D
        PROVE  f[n] = Step(f, n)
    <3>1. CASE n = 0
      BY <2>3, <3>1
    <3>2. CASE n # 0
      <4>1. n - 1 \in Nat /\ n - 1 \in D /\ (n - 1) + 1 = n /\ n \in 1..Len(list)
        BY <1>1, <3>2
      <4>2. g[n] = h[n - 1][g[n - 1]] /\ g[n - 1] \in Seq(Runs)
        BY <2>3, <4>1
      <4>3. h[n - 1][g[n - 1]] = IF list[n] \notin gone THEN Append(g[n - 1], list[n]) ELSE g[n - 1]
        BY <4>1, <4>2 DEF h
      <4> QED BY <3>2, <4>1, <4>2, <4>3
    <3> QED BY <3>1, <3>2
  <2>5. f = [n \in D |-> f[n]]
    OBVIOUS
  <2> HIDE DEF f, D
  <2>6. f = [n \in D |-> Step(f, n)]
    BY <2>4, <2>5 
  <2> QED BY <2>6
<1> HIDE DEF Step
<1>3. kept = [n \in D |-> Step(kept, n)]
  BY <1>2
<1> HIDE DEF kept
<1>4. kept[0] = <<>> /\ \A n \in 1..Len(list) :
        kept[n] = IF list[n] \in gone THEN kept[n - 1] ELSE Append(kept[n - 1], list[n])
  <2>1. \A n \in D : kept[n] = Step(kept, n)
    BY <1>3
  <2>2. 0 \in D /\ \A n \in 1..Len(list) : n \in D /\ n # 0
    BY <1>1
  <2> QED BY <2>1, <2>2 DEF Step
<1> DEFINE Good(n) == /\ kept[n] \in Seq(Runs) /\ Distinct(kept[n])
                      /\ Range(kept[n]) = {list[m] : m \in 1..n} \ gone
           T == {n \in Nat : n <= Len(list) => Good(n)}
<1>5. 0 \in T
  <2>1. kept[0] = <<>> /\ {list[m] : m \in 1..0} = {}
    BY <1>4
  <2>2. Distinct(<<>>) /\ Range(<<>>) = {} /\ <<>> \in Seq(Runs)
    BY DEF Distinct, Range
  <2>3. Good(0)
    BY <2>1, <2>2
  <2> QED BY <2>3
<1>6. ASSUME NEW n \in Nat, n \in T
      PROVE  n + 1 \in T
  <2>1. SUFFICES ASSUME n + 1 <= Len(list) PROVE Good(n + 1)
    OBVIOUS
  <2>2. Good(n)
    BY <1>1, <1>6, <2>1
  <2>3. /\ n + 1 \in 1..Len(list) /\ (n + 1) - 1 = n
        /\ \A m \in 1..n : m \in DOMAIN list /\ m # n + 1
    BY <1>1, <2>1
  <2> DEFINE new == list[n + 1]
             old == kept[n]
  <2>4. new \in Runs /\ new \notin {list[m] : m \in 1..n}
    BY <1>1, <2>3 DEF Distinct
  <2>5. {list[m] : m \in 1..(n + 1)} = {list[m] : m \in 1..n} \union {new}
    BY <2>3
  <2>6. CASE new \in gone
    BY <1>4, <2>2, <2>3, <2>5, <2>6
  <2>7. CASE new \notin gone
    <3>1. kept[n + 1] = Append(old, new)
      BY <1>4, <2>3, <2>7
    <3>2. old \in Seq(Runs) /\ new \notin Range(old) /\ Distinct(old)
      BY <2>2, <2>4
    <3> HIDE DEF new, old
    <3>3. Append(old, new) \in Seq(Runs) /\ DOMAIN Append(old, new) = 1..(Len(old) + 1)
          /\ (\A m \in 1..Len(old) : Append(old, new)[m] = old[m]) /\ Append(old, new)[Len(old) + 1] = new
          /\ DOMAIN old = 1..Len(old) /\ Len(old) \in Nat
      BY <2>4, <3>2
    <3>4. Range(Append(old, new)) = Range(old) \union {new}
      BY <3>3 DEF Range
    <3>5. Distinct(Append(old, new))
      BY <3>2, <3>3 DEF Distinct, Range
    <3>6. Range(old) \union {new} = {list[m] : m \in 1..(n + 1)} \ gone
      BY <2>2, <2>5, <2>7 DEF old
    <3> QED BY <3>1, <3>3, <3>4, <3>5, <3>6
  <2> QED BY <2>6, <2>7
<1>7. Good(Len(list))
  <2>1. Len(list) \in T
    <3> HIDE DEF T
    <3> QED BY <1>1, <1>5, <1>6, Induction
  <2> HIDE DEF Good
  <2> QED BY <1>1, <2>1
<1>8. Without(list, gone) = kept[Len(list)]
  BY DEF Without, kept, Step
<1>9. {list[m] : m \in 1..Len(list)} = Range(list)
  BY <1>1 DEF Range
<1> QED BY <1>7, <1>8, <1>9

-----------------------------------------------------------------------------
(* Sums of bytes.                                                          *)

\* What a sum is taken of.
Weighing == [Runs -> Nat]

\* Total is the last of the partial sums.
LEMMA TotalIsASum ==
  ASSUME NEW w \in Weighing
  PROVE  \E sum \in [0..MaxRuns -> Nat] :
           /\ sum[0] = 0 /\ \A n \in 0..(MaxRuns - 1) : sum[n + 1] = sum[n] + w[n + 1]
           /\ Total(w) = sum[MaxRuns]
<1> DEFINE D == 0..MaxRuns
           Step(f, n) == IF n = 0 THEN 0 ELSE f[n - 1] + w[n]
           upTo == CHOOSE f : f = [n \in D |-> Step(f, n)]
<1>1. MaxRuns \in Nat \ {0} /\ Runs = 1..MaxRuns /\ \A n \in Runs : w[n] \in Nat
  BY DetailAssumption DEF DetailAssumption, Runs, Weighing
<1> DEFINE h == [n \in Nat |-> [x \in Nat |-> IF n + 1 \in Runs THEN x + w[n + 1] ELSE x]]
<1>2. StepRule(Nat, 0, h)
  BY <1>1 DEF StepRule
<1> HIDE DEF h
<1>3. PICK g \in [Nat -> Nat] : g[0] = 0 /\ \A n \in Nat : g[n + 1] = h[n][g[n]]
  BY <1>2, Recursion DEF Follows
<1> DEFINE f == [n \in D |-> g[n]]
<1>4. ASSUME NEW n \in D
      PROVE  f[n] = Step(f, n)
  <2>1. CASE n = 0
    BY <1>3, <2>1
  <2>2. CASE n # 0
    <3>1. n - 1 \in Nat /\ n - 1 \in D /\ (n - 1) + 1 = n /\ n \in Runs
      BY <1>1, <2>2
    <3>2. g[n] = h[n - 1][g[n - 1]] /\ g[n - 1] \in Nat
      BY <1>3, <3>1
    <3>3. h[n - 1][g[n - 1]] = g[n - 1] + w[n]
      BY <3>1, <3>2 DEF h
    <3> QED BY <2>2, <3>1, <3>2, <3>3
  <2> QED BY <2>1, <2>2
<1>5. f = [n \in D |-> f[n]]
  OBVIOUS
<1>6. f = [n \in D |-> Step(f, n)]
  <2> HIDE DEF f, D, Step
  <2> QED BY <1>4, <1>5
<1> HIDE DEF Step
<1>7. \E e : e = [n \in D |-> Step(e, n)]
  <2> HIDE DEF f
  <2> QED BY <1>6
<1>8. upTo = [n \in D |-> Step(upTo, n)]
  BY <1>7
<1> HIDE DEF upTo
<1>9. upTo[0] = 0 /\ \A n \in 0..(MaxRuns - 1) : upTo[n + 1] = upTo[n] + w[n + 1]
  <2>1. \A n \in D : upTo[n] = Step(upTo, n)
    BY <1>8
  <2>2. 0 \in D
    BY <1>1
  <2>3. ASSUME NEW n \in 0..(MaxRuns - 1)
        PROVE  upTo[n + 1] = upTo[n] + w[n + 1]
    <3>1. n + 1 \in D /\ n + 1 # 0 /\ (n + 1) - 1 = n
      BY <1>1
    <3> QED BY <2>1, <3>1 DEF Step
  <2> QED BY <2>1, <2>2, <2>3 DEF Step
<1>10. upTo \in [D -> Nat]
  <2> DEFINE T == {n \in Nat : n \in D => upTo[n] \in Nat}
  <2>1. 0 \in T
    BY <1>9
  <2>2. ASSUME NEW n \in Nat, n \in T
        PROVE  n + 1 \in T
    <3>1. SUFFICES ASSUME n + 1 \in D PROVE upTo[n + 1] \in Nat
      OBVIOUS
    <3>2. n \in 0..(MaxRuns - 1) /\ n \in D /\ n + 1 \in Runs
      BY <1>1, <3>1
    <3>3. upTo[n] \in Nat /\ w[n + 1] \in Nat
      BY <1>1, <2>2, <3>2
    <3> QED BY <1>9, <3>2, <3>3
  <2>3. Nat \subseteq T
    <3> HIDE DEF T
    <3> QED BY <2>1, <2>2, Induction
  <2>4. \A n \in D : upTo[n] \in Nat
    BY <1>1, <2>3
  <2>5. upTo = [n \in D |-> upTo[n]]
    BY <1>8
  <2> HIDE DEF D
  <2> QED BY <2>4, <2>5
<1>11. Total(w) = upTo[MaxRuns]
  BY DEF Total, upTo, Step
<1> QED BY <1>9, <1>10, <1>11

\* The total of a sum of weights is the sum of the totals.
LEMMA TotalAdds ==
  ASSUME NEW u \in Weighing, NEW v \in Weighing, NEW w \in Weighing,
         \A i \in Runs : w[i] = u[i] + v[i]
  PROVE  Total(w) = Total(u) + Total(v) /\ Total(u) \in Nat /\ Total(v) \in Nat
<1>1. MaxRuns \in Nat /\ Runs = 1..MaxRuns
  BY DetailAssumption DEF DetailAssumption, Runs
<1>2. PICK a \in [0..MaxRuns -> Nat] : 
        /\ a[0] = 0 /\ \A n \in 0..(MaxRuns - 1) : a[n + 1] = a[n] + u[n + 1]
        /\ Total(u) = a[MaxRuns]
  BY TotalIsASum
<1>3. PICK b \in [0..MaxRuns -> Nat] :
        /\ b[0] = 0 /\ \A n \in 0..(MaxRuns - 1) : b[n + 1] = b[n] + v[n + 1]
        /\ Total(v) = b[MaxRuns]
  BY TotalIsASum
<1>4. PICK c \in [0..MaxRuns -> Nat] :
        /\ c[0] = 0 /\ \A n \in 0..(MaxRuns - 1) : c[n + 1] = c[n] + w[n + 1]
        /\ Total(w) = c[MaxRuns]
  BY TotalIsASum
<1> DEFINE T == {n \in Nat : n <= MaxRuns => c[n] = a[n] + b[n]}
<1>5. 0 \in T
  BY <1>2, <1>3, <1>4
<1>6. ASSUME NEW n \in Nat, n \in T
      PROVE  n + 1 \in T
  <2>1. SUFFICES ASSUME n + 1 <= MaxRuns PROVE c[n + 1] = a[n + 1] + b[n + 1]
    OBVIOUS
  <2>2. n \in 0..MaxRuns /\ n \in 0..(MaxRuns - 1) /\ n + 1 \in Runs /\ c[n] = a[n] + b[n]
    BY <1>1, <1>6, <2>1
  <2>3. /\ a[n + 1] = a[n] + u[n + 1] /\ b[n + 1] = b[n] + v[n + 1] /\ c[n + 1] = c[n] + w[n + 1]
        /\ w[n + 1] = u[n + 1] + v[n + 1]
    BY <1>2, <1>3, <1>4, <2>2
  <2>4. a[n] \in Nat /\ b[n] \in Nat /\ u[n + 1] \in Nat /\ v[n + 1] \in Nat
    BY <2>2 DEF Weighing
  <2> QED BY <2>2, <2>3, <2>4
<1>7. MaxRuns \in T
  <2> HIDE DEF T
  <2> QED BY <1>1, <1>5, <1>6, Induction
<1>8. MaxRuns \in 0..MaxRuns
  BY <1>1
<1> QED BY <1>1, <1>2, <1>3, <1>4, <1>7, <1>8

\* Where one load weighs and no other does, its weight is the total.
LEMMA TotalOfOne ==
  ASSUME NEW w \in Weighing, NEW i \in Runs, \A j \in Runs \ {i} : w[j] = 0
  PROVE  Total(w) = w[i]
<1>1. MaxRuns \in Nat /\ Runs = 1..MaxRuns /\ w[i] \in Nat
  BY DetailAssumption DEF DetailAssumption, Runs, Weighing
<1>2. PICK a \in [0..MaxRuns -> Nat] : 
        /\ a[0] = 0 /\ \A n \in 0..(MaxRuns - 1) : a[n + 1] = a[n] + w[n + 1]
        /\ Total(w) = a[MaxRuns]
  BY TotalIsASum
<1> DEFINE T == {n \in Nat : n <= MaxRuns => a[n] = IF n < i THEN 0 ELSE w[i]}
<1>3. 0 \in T
  BY <1>1, <1>2
<1>4. ASSUME NEW n \in Nat, n \in T
      PROVE  n + 1 \in T
  <2>1. SUFFICES ASSUME n + 1 <= MaxRuns PROVE a[n + 1] = IF n + 1 < i THEN 0 ELSE w[i]
    OBVIOUS
  <2>2. n \in 0..(MaxRuns - 1) /\ n + 1 \in Runs /\ a[n] = (IF n < i THEN 0 ELSE w[i])
    BY <1>1, <1>4, <2>1
  <2>3. a[n + 1] = a[n] + w[n + 1] /\ (n + 1 # i => w[n + 1] = 0)
    BY <1>2, <2>2
  <2> QED BY <1>1, <2>2, <2>3
<1>5. MaxRuns \in T
  <2> HIDE DEF T
  <2> QED BY <1>1, <1>3, <1>4, Induction
<1> QED BY <1>1, <1>2, <1>5

\* The bytes of some loads, where size gives the size of each.
SizeIn(loads, size) == Total([i \in Runs |-> IF i \in loads THEN size[i] ELSE 0])

\* Bytes add up over disjoint sets.
LEMMA SizeSplits ==
  ASSUME NEW z \in Weighing, NEW S, NEW T, S \intersect T = {}
  PROVE  /\ SizeIn(S \union T, z) = SizeIn(S, z) + SizeIn(T, z)
         /\ SizeIn(S, z) \in Nat /\ SizeIn(T, z) \in Nat
<1> DEFINE W(X) == [i \in Runs |-> IF i \in X THEN z[i] ELSE 0]
<1>1. W(S) \in Weighing /\ W(T) \in Weighing /\ W(S \union T) \in Weighing
  BY DEF Weighing
<1>2. \A i \in Runs : W(S \union T)[i] = W(S)[i] + W(T)[i]
  BY DEF Weighing
<1> HIDE DEF W
<1>3. /\ Total(W(S \union T)) = Total(W(S)) + Total(W(T))
      /\ Total(W(S)) \in Nat /\ Total(W(T)) \in Nat
  BY <1>1, <1>2, TotalAdds
<1> QED BY <1>3 DEF SizeIn, W

\* More loads have no fewer bytes.
LEMMA SizeGrows ==
  ASSUME NEW z \in Weighing, NEW T, NEW S \in SUBSET T
  PROVE  SizeIn(S, z) <= SizeIn(T, z)
<1>1. S \union (T \ S) = T /\ S \intersect (T \ S) = {}
  OBVIOUS
<1>2. SizeIn(T, z) = SizeIn(S, z) + SizeIn(T \ S, z) /\ SizeIn(S, z) \in Nat /\ SizeIn(T \ S, z) \in Nat
  BY <1>1, SizeSplits
<1> QED BY <1>2

\* No load has no bytes, and one has its own.
LEMMA SizeOfFew ==
  ASSUME NEW z \in Weighing
  PROVE  SizeIn({}, z) = 0 /\ \A i \in Runs : SizeIn({i}, z) = z[i]
<1>1. {} \union {} = {} /\ {} \intersect {} = {}
  OBVIOUS
<1>2. SizeIn({}, z) \in Nat /\ SizeIn({}, z) = SizeIn({}, z) + SizeIn({}, z)
  <2>1. \A e : e \intersect e = {} => SizeIn(e, z) \in Nat /\ SizeIn(e \union e, z) = SizeIn(e, z) + SizeIn(e, z)
    BY SizeSplits
  <2> QED BY <1>1, <2>1
<1>3. SizeIn({}, z) = 0
  <2>1. \A n \in Nat : n = n + n => n = 0
    OBVIOUS
  <2> QED BY <1>2, <2>1
<1>4. ASSUME NEW i \in Runs
      PROVE  SizeIn({i}, z) = z[i]
  <2> DEFINE w == [j \in Runs |-> IF j \in {i} THEN z[j] ELSE 0]
  <2>1. w \in Weighing /\ w[i] = z[i] /\ \A j \in Runs \ {i} : w[j] = 0
    BY DEF Weighing
  <2> HIDE DEF w
  <2>2. Total(w) = z[i]
    BY <2>1, TotalOfOne
  <2> QED BY <2>2 DEF SizeIn, w
<1> QED BY <1>3, <1>4

\* Bytes depend on the sizes of the loads they are the bytes of.
LEMMA SizeDepends ==
  ASSUME NEW S, NEW y, NEW z, \A i \in S \intersect Runs : y[i] = z[i]
  PROVE  SizeIn(S, y) = SizeIn(S, z)
<1>1. [i \in Runs |-> IF i \in S THEN y[i] ELSE 0] = [i \in Runs |-> IF i \in S THEN z[i] ELSE 0]
  OBVIOUS
<1> QED BY <1>1 DEF SizeIn

\* evictLocked leaves what fits: of the counted entries of a list, those stay that fit
\* together with all counted entries before them.
LEMMA EvictionFits ==
  ASSUME NEW list \in Seq(Runs), NEW z \in Weighing, NEW counted, NEW gone,
         gone = {list[n] : n \in {m \in DOMAIN list :
                   list[m] \in counted /\ SizeIn({list[k] : k \in 1..m} \intersect counted, z) > MaxBytes}}
  PROVE  SizeIn((Range(list) \intersect counted) \ gone, z) <= MaxBytes
<1>1. Len(list) \in Nat /\ DOMAIN list = 1..Len(list)
  OBVIOUS
<1> DEFINE UpTo(n) == {list[k] : k \in 1..n} \intersect counted
           Left(n) == UpTo(n) \ gone
           T == {n \in Nat : n <= Len(list) => SizeIn(Left(n), z) <= MaxBytes}
<1>2. 0 \in T
  <2>1. Left(0) = {}
    OBVIOUS
  <2>2. SizeIn(Left(0), z) = 0
    <3> HIDE DEF Left
    <3> QED BY <2>1, SizeOfFew
  <2> QED BY <2>2, DetailAssumption DEF DetailAssumption
<1>3. ASSUME NEW n \in Nat, n \in T
      PROVE  n + 1 \in T
  <2>1. SUFFICES ASSUME n + 1 <= Len(list) PROVE SizeIn(Left(n + 1), z) <= MaxBytes
    OBVIOUS
  <2>2. n + 1 \in DOMAIN list /\ SizeIn(Left(n), z) <= MaxBytes
    BY <1>1, <1>3, <2>1
  <2>3. UpTo(n + 1) = UpTo(n) \union ({list[n + 1]} \intersect counted)
    <3>1. 1..(n + 1) = 1..n \union {n + 1}
      OBVIOUS
    <3> QED BY <3>1
  <2>4. CASE list[n + 1] \in counted \ gone
    <3>1. ~(SizeIn(UpTo(n + 1), z) > MaxBytes)
      BY <2>2, <2>4
    <3>2. Left(n + 1) \in SUBSET UpTo(n + 1)
      OBVIOUS
    <3> HIDE DEF UpTo, Left
    <3>3. SizeIn(Left(n + 1), z) <= SizeIn(UpTo(n + 1), z)
      BY <3>2, SizeGrows
    <3>4. SizeIn(Left(n + 1), z) \in Nat /\ SizeIn(UpTo(n + 1), z) \in Nat /\ MaxBytes \in Nat
      <4>1. \A S : SizeIn(S, z) \in Nat
        <5>1. \A S : S \intersect {} = {}
          OBVIOUS
        <5> QED BY <5>1, SizeSplits
      <4> QED BY <4>1, DetailAssumption DEF DetailAssumption
    <3> QED BY <3>1, <3>3, <3>4
  <2>5. CASE list[n + 1] \notin counted \ gone
    <3>1. Left(n + 1) = Left(n)
      BY <2>3, <2>5
    <3> HIDE DEF Left
    <3> QED BY <2>2, <3>1
  <2> QED BY <2>4, <2>5
<1>4. Len(list) \in T
  <2> HIDE DEF T
  <2> QED BY <1>1, <1>2, <1>3, Induction
<1>5. Left(Len(list)) = (Range(list) \intersect counted) \ gone
  BY <1>1 DEF Range
<1>6. SizeIn(Left(Len(list)), z) <= MaxBytes
  <2> HIDE DEF Left
  <2> QED BY <1>1, <1>4
<1> HIDE DEF Left
<1> QED BY <1>5, <1>6

-----------------------------------------------------------------------------
(* Map, list and byte count.                                               *)

\* The map and the list hold the same entries, each once, and the bytes are those of the
\* settled ones (ListFollowsMap).
ListInv == lru \in Seq(Runs) /\ totalBytes \in Nat /\ ListFollowsMap

\* The sizes of the loads as they are.
Sizes == [i \in Runs |-> run[i].size]

\* BytesOf takes them.
LEMMA BytesAreSizes ==
  /\ \A S : BytesOf(S) = SizeIn(S, Sizes)
  /\ Typed => Sizes \in Weighing
<1>1. ASSUME NEW S
      PROVE  BytesOf(S) = SizeIn(S, Sizes)
  <2>1. [i \in Runs |-> IF i \in S THEN run[i].size ELSE 0] = [i \in Runs |-> IF i \in S THEN Sizes[i] ELSE 0]
    BY DEF Sizes
  <2> QED BY <2>1 DEF BytesOf, SizeIn
<1>2. Typed => Sizes \in Weighing
  BY DEF Typed, LoadTyped, Sizes, Weighing
<1> QED BY <1>1, <1>2

\* The bytes of loads that keep their sizes stay.
LEMMA BytesStay ==
  ASSUME NEW S, \A i \in S \intersect Runs : run'[i].size = run[i].size
  PROVE  BytesOf(S)' = BytesOf(S)
BY DEF BytesOf

\* What settle does to the loads: the value is kept as one that counts, or the entry is
\* forgotten.
LEMMA SettleMarks ==
  ASSUME Typed, NEW i \in Runs, Settle(i)
  PROVE  /\ \A j \in Runs : run'[j].size = run[j].size
         /\ \/ Keep(i) /\ entries[run[i].coverage] = i /\ Settled' = Settled \union {i}
            \/ Forget(i) /\ totalBytes' = totalBytes /\ Settled' = Settled \ {i}
<1> DEFINE out == IF ~Valid(i) THEN "stale"
                  ELSE IF run[i].out = "value" /\ run[i].size > MaxBytes THEN "limit" ELSE run[i].out
           kept == out = "value" /\ Keeps(i)
           l == [run[i] EXCEPT !.at = "wake", !.out = out, !.until = fence, !.settled = kept]
<1>1. LoadTyped(run[i]) /\ fence \in Nat
  BY DEF Typed
<1>2. out \in Outcomes /\ (out = "value" => Valid(i))
  BY <1>1 DEF LoadTyped, Outcomes
<1>3. run' = [run EXCEPT ![i] = l] /\ (IF kept THEN Keep(i) ELSE Forget(i) /\ UNCHANGED totalBytes)
  BY DEF Settle
<1>4. kept \in BOOLEAN /\ (kept => Valid(i))
  <2>1. kept \in BOOLEAN
    BY Zenon
  <2> QED BY <1>2, <2>1
<1> HIDE DEF out, kept
<1>5. LoadTyped(l) /\ l.size = run[i].size /\ l.settled = kept
  BY <1>1, <1>2, <1>4 DEF LoadTyped, RunAt
<1> HIDE DEF l
<1>6. (\A j \in Runs \ {i} : run'[j] = run[j]) /\ run'[i] = l
  BY <1>3, <1>5, LoadChanges
<1>7. \A j \in Runs : run'[j].size = run[j].size
  BY <1>5, <1>6
<1>8. CASE kept
  <2>1. Settled' = Settled \union {i}
    BY <1>5, <1>6, <1>8 DEF Settled
  <2> QED BY <1>3, <1>4, <1>7, <1>8, <2>1 DEF Valid
<1>9. CASE ~kept
  <2>1. Settled' = Settled \ {i}
    BY <1>5, <1>6, <1>9 DEF Settled
  <2> QED BY <1>3, <1>7, <1>9, <2>1
<1> QED BY <1>8, <1>9

\* A load that moves otherwise is counted, with its size, as it was.
LEMMA OthersCountAlike ==
  ASSUME Typed, OutcomesFenced, NEW i \in Runs, RunStep(i), ~Settle(i)
  PROVE  Settled' = Settled /\ \A j \in Settled : run'[j].size = run[j].size
<1>1. LoadTyped(run[i])
  BY DEF Typed
<1> DEFINE Alike(l) == LoadTyped(l) /\ l.settled = run[i].settled /\ (run[i].settled => l.size = run[i].size)
<1>2. ASSUME NEW l, Alike(l), run' = [run EXCEPT ![i] = l]
      PROVE  Settled' = Settled /\ \A j \in Settled : run'[j].size = run[j].size
  <2>1. (\A j \in Runs \ {i} : run'[j] = run[j]) /\ run'[i] = l
    BY <1>2, LoadChanges
  <2> QED BY <1>2, <2>1 DEF Settled
<1>3. CASE PermitGranted(i)
  <2> DEFINE l == [run[i] EXCEPT !.at = "load"]
  <2>1. Alike(l) /\ run' = [run EXCEPT ![i] = l]
    BY <1>1, <1>3 DEF LoadTyped, RunAt, PermitGranted
  <2> HIDE DEF l, Alike
  <2> QED BY <1>2, <2>1
<1>4. CASE PermitRefused(i)
  <2> DEFINE l == [run[i] EXCEPT !.at = "settle", !.out = "failed"]
  <2>1. Alike(l) /\ run' = [run EXCEPT ![i] = l]
    BY <1>1, <1>4 DEF LoadTyped, RunAt, Outcomes, PermitRefused
  <2> HIDE DEF l, Alike
  <2> QED BY <1>2, <2>1
<1>5. CASE LoadReturns(i)
  <2>1. ~run[i].settled
    BY <1>5 DEF LoadReturns, OutcomesFenced, Unsettled
  <2>2. CASE run' = [run EXCEPT ![i].at = "settle", ![i].out = "failed"]
    <3> DEFINE l == [run[i] EXCEPT !.at = "settle", !.out = "failed"]
    <3>1. Alike(l) /\ run' = [run EXCEPT ![i] = l]
      BY <1>1, <2>1, <2>2 DEF LoadTyped, RunAt, Outcomes
    <3> HIDE DEF l, Alike
    <3> QED BY <1>2, <3>1
  <2>3. CASE \E w \in Weights[run[i].coverage] :
               run' = [run EXCEPT ![i].at = "settle", ![i].out = "value", ![i].size = w]
    <3>1. PICK w \in Nat : run' = [run EXCEPT ![i].at = "settle", ![i].out = "value", ![i].size = w]
      BY <1>1, <2>3, DetailAssumption DEF DetailAssumption, LoadTyped
    <3> DEFINE l == [run[i] EXCEPT !.at = "settle", !.out = "value", !.size = w]
    <3>2. Alike(l) /\ run' = [run EXCEPT ![i] = l]
      BY <1>1, <2>1, <3>1 DEF LoadTyped, RunAt, Outcomes
    <3> HIDE DEF l, Alike
    <3> QED BY <1>2, <3>2
  <2> QED BY <1>5, <2>2, <2>3 DEF LoadReturns
<1>6. CASE CloseReady(i)
  <2> DEFINE l == [run[i] EXCEPT !.at = "finish"]
  <2>1. Alike(l) /\ run' = [run EXCEPT ![i] = l]
    BY <1>1, <1>6 DEF LoadTyped, RunAt, CloseReady
  <2> HIDE DEF l, Alike
  <2> QED BY <1>2, <2>1
<1>7. CASE RunnerFinished(i)
  <2> DEFINE l == [run[i] EXCEPT !.at = "done"]
  <2>1. Alike(l) /\ run' = [run EXCEPT ![i] = l]
    BY <1>1, <1>7 DEF LoadTyped, RunAt, RunnerFinished
  <2> HIDE DEF l, Alike
  <2> QED BY <1>2, <2>1
<1> QED BY <1>3, <1>4, <1>5, <1>6, <1>7 DEF RunStep

\* A value that is kept counts, and what no longer fits goes from the map, the list and
\* the count alike.
LEMMA KeepList ==
  ASSUME DInv, ListInv, NEW i \in Runs, Settle(i), Keep(i), entries[run[i].coverage] = i,
         Settled' = Settled \union {i}, \A j \in Runs : run'[j].size = run[j].size
  PROVE  ListInv'
<1>1. Typed /\ OutcomesFenced /\ run[i].at = "settle"
  BY DEF DInv, Settle
<1>2. PICK list : list = lru
  OBVIOUS
<1>3. PICK z \in Weighing : z = Sizes
  BY <1>1, BytesAreSizes
<1>4. PICK counted : counted = Settled \union {i}
  OBVIOUS
<1>5. PICK gone : gone = Evicted(i)
  OBVIOUS
<1>6. /\ list \in Seq(Runs) /\ Distinct(list) /\ Range(list) = Range(entries) \ {0}
      /\ totalBytes \in Nat /\ totalBytes = SizeIn(Range(list) \intersect Settled, z)
  BY <1>2, <1>3, BytesAreSizes DEF ListInv, ListFollowsMap, Distinct
<1>7. gone = {list[n] : n \in {m \in DOMAIN list :
                list[m] \in counted /\ SizeIn({list[k] : k \in 1..m} \intersect counted, z) > MaxBytes}}
  <2>1. \A S : BytesOf(S) = SizeIn(S, z)
    BY <1>3, BytesAreSizes
  <2>2. gone = {list[n] : n \in {m \in DOMAIN list :
                  list[m] \in counted /\ BytesOf({list[k] : k \in 1..m} \intersect counted) > MaxBytes}}
    BY <1>2, <1>4, <1>5 DEF Evicted
  <2> QED BY <2>1, <2>2
<1>8. gone \subseteq Range(list) \intersect counted /\ 0 \notin Range(list)
  BY <1>6, <1>7 DEF Range, Runs
<1>9. i \notin Settled /\ i \in Range(list)
  <2>1. i \notin Settled
    BY <1>1 DEF OutcomesFenced, Unsettled, Settled
  <2>2. i \in Range(entries)
    BY <1>1 DEF Typed, LoadTyped, Range
  <2> QED BY <1>6, <2>1, <2>2 DEF Runs
<1>10. /\ entries' = [c \in Coverages |-> IF entries[c] \in gone THEN 0 ELSE entries[c]]
       /\ lru' = Without(list, gone)
       /\ totalBytes' = totalBytes + z[i] - SizeIn(gone, z)
  BY <1>2, <1>3, <1>5, BytesAreSizes DEF Keep, Count, Sizes
<1>11. /\ lru' \in Seq(Runs) /\ Distinct(lru') /\ Range(lru') = Range(list) \ gone
  BY <1>6, <1>10, WithoutDrops
<1>12. Range(entries') \ {0} = Range(lru')
  <2>1. Range(entries') \ {0} = (Range(entries) \ gone) \ {0}
    BY <1>1, <1>10 DEF Typed, Range
  <2> QED BY <1>6, <1>11, <2>1
<1>13. Range(lru') \intersect Settled' = (Range(list) \intersect counted) \ gone
  BY <1>4, <1>11
<1>14. totalBytes' = SizeIn((Range(list) \intersect counted) \ gone, z) /\ totalBytes' \in Nat
  <2> DEFINE Old == Range(list) \intersect Settled
             All == Range(list) \intersect counted
  <2>1. Old \union {i} = All /\ Old \intersect {i} = {}
    BY <1>4, <1>9
  <2>2. gone \union (All \ gone) = All /\ gone \intersect (All \ gone) = {}
    BY <1>8
  <2> HIDE DEF Old, All
  <2>3. SizeIn(Old \union {i}, z) = SizeIn(Old, z) + SizeIn({i}, z) /\ SizeIn(Old, z) \in Nat /\ SizeIn({i}, z) \in Nat
    BY <2>1, SizeSplits
  <2>4. SizeIn(gone \union (All \ gone), z) = SizeIn(gone, z) + SizeIn(All \ gone, z)
        /\ SizeIn(gone, z) \in Nat /\ SizeIn(All \ gone, z) \in Nat
    BY <2>2, SizeSplits
  <2>5. SizeIn({i}, z) = z[i]
    BY SizeOfFew
  <2>6. totalBytes = SizeIn(Old, z)
    BY <1>6 DEF Old
  <2>7. totalBytes + z[i] = SizeIn(gone, z) + SizeIn(All \ gone, z)
    BY <2>1, <2>2, <2>3, <2>4, <2>5, <2>6
  <2>8. totalBytes' = SizeIn(All \ gone, z) /\ totalBytes' \in Nat
    <3>1. z[i] \in Nat
      BY DEF Weighing
    <3> QED BY <1>6, <1>10, <2>4, <2>7, <3>1
  <2> QED BY <2>8 DEF All
<1>15. SizeIn((Range(list) \intersect counted) \ gone, z) <= MaxBytes
  BY <1>6, <1>7, EvictionFits
<1>16. BytesOf(Range(lru) \intersect Settled)' = totalBytes'
  <2>1. PICK left : left = Range(lru') \intersect Settled'
    OBVIOUS
  <2>2. BytesOf(left)' = BytesOf(left)
    BY BytesStay
  <2>3. BytesOf(left) = SizeIn(left, z)
    BY <1>3, BytesAreSizes
  <2>4. BytesOf(Range(lru) \intersect Settled)' = BytesOf(left)'
    BY <2>1 DEF BytesOf
  <2> QED BY <1>13, <1>14, <2>1, <2>2, <2>3, <2>4
<1> QED BY <1>11, <1>12, <1>14, <1>15, <1>16 DEF ListInv, ListFollowsMap, Distinct

\* An entry that is forgotten was never counted, and goes from the map and the list, if it
\* still was there.
LEMMA ForgetList ==
  ASSUME DInv, ListInv, NEW i \in Runs, run[i].at = "settle", Forget(i), totalBytes' = totalBytes,
         Settled' = Settled \ {i}, \A j \in Runs : run'[j].size = run[j].size
  PROVE  ListInv'
<1>1. Typed /\ OutcomesFenced /\ EntriesAreCurrent /\ run[i].coverage \in Coverages
  BY DEF DInv, EntriesFenced, Typed, LoadTyped
<1>2. PICK list : list = lru
  OBVIOUS
<1>3. /\ list \in Seq(Runs) /\ Distinct(list) /\ Range(list) = Range(entries) \ {0}
      /\ lru' = Without(list, {i}) /\ i # 0
  BY <1>2 DEF ListInv, ListFollowsMap, Distinct, Forget, Runs
<1>4. lru' \in Seq(Runs) /\ Distinct(lru') /\ Range(lru') = Range(list) \ {i}
  BY <1>3, WithoutDrops
<1>5. Range(entries') \ {0} = Range(entries) \ {0, i}
  <2>1. \A c \in Coverages : entries[c] = i => c = run[i].coverage
    BY <1>1, <1>3 DEF EntriesAreCurrent
  <2>2. \A c \in Coverages : entries'[c] = IF entries[c] = i THEN 0 ELSE entries[c]
    BY <1>1, <2>1 DEF Forget, Typed
  <2>3. DOMAIN entries = Coverages /\ DOMAIN entries' = Coverages
    BY <1>1 DEF Forget, Typed
  <2> QED BY <1>3, <2>2, <2>3 DEF Range
<1>6. i \notin Settled
  BY <1>1 DEF OutcomesFenced, Unsettled, Settled
<1>7. Range(lru') \intersect Settled' = Range(lru) \intersect Settled
  BY <1>2, <1>4, <1>6
<1>8. BytesOf(Range(lru) \intersect Settled)' = totalBytes
  <2>1. PICK left : left = Range(lru) \intersect Settled
    OBVIOUS
  <2>2. BytesOf(left)' = BytesOf(left)
    BY BytesStay
  <2>3. BytesOf(Range(lru) \intersect Settled)' = BytesOf(left)'
    BY <1>7, <2>1 DEF BytesOf
  <2> QED BY <2>1, <2>2, <2>3 DEF ListInv, ListFollowsMap
<1>9. Range(lru') = Range(entries') \ {0}
  BY <1>3, <1>4, <1>5
<1> QED BY <1>4, <1>8, <1>9 DEF ListInv, ListFollowsMap, Distinct

\* A list with one more, or the same one, in front.
LEMMA InFront ==
  ASSUME NEW list \in Seq(Runs), Distinct(list), NEW i \in Runs \ Range(list)
  PROVE  /\ <<i>> \o list \in Seq(Runs) /\ Distinct(<<i>> \o list)
         /\ Range(<<i>> \o list) = Range(list) \union {i}
<1> DEFINE new == <<i>> \o list
<1>1. /\ new \in Seq(Runs) /\ Len(list) \in Nat /\ DOMAIN list = 1..Len(list) 
      /\ DOMAIN new = 1..(Len(list) + 1)
      /\ new[1] = i /\ \A n \in 1..Len(list) : new[n + 1] = list[n]
  OBVIOUS
<1> HIDE DEF new
<1>2. \A n \in DOMAIN new : n # 1 => n - 1 \in DOMAIN list /\ new[n] = list[n - 1]
  <2>1. \A n \in 1..(Len(list) + 1) : n # 1 => n - 1 \in 1..Len(list) /\ (n - 1) + 1 = n
    BY <1>1
  <2> QED BY <1>1, <2>1
<1>3. Distinct(new)
  <2>1. SUFFICES ASSUME NEW m \in DOMAIN new, NEW n \in DOMAIN new, new[m] = new[n] PROVE m = n
    BY DEF Distinct
  <2>2. \A k \in DOMAIN new : k # 1 => new[k] # i
    BY <1>2 DEF Range
  <2>3. CASE m = 1 \/ n = 1
    BY <1>1, <2>1, <2>2, <2>3
  <2>4. CASE m # 1 /\ n # 1
    <3>1. m - 1 = n - 1
      BY <1>2, <2>1, <2>4 DEF Distinct
    <3> QED BY <1>1, <3>1
  <2> QED BY <2>3, <2>4
<1>4. Range(new) = Range(list) \union {i}
  <2>1. \A n \in DOMAIN list : n + 1 \in DOMAIN new /\ new[n + 1] = list[n]
    BY <1>1
  <2>2. 1 \in DOMAIN new
    BY <1>1
  <2> QED BY <1>1, <1>2, <2>1, <2>2 DEF Range
<1> QED BY <1>1, <1>3, <1>4 DEF new

\* Nothing happens to the list, and what is counted stays as it was.
LEMMA ListStays ==
  ASSUME ListInv, UNCHANGED cacheVars, Settled' = Settled, \A j \in Settled : run'[j].size = run[j].size
  PROVE  ListInv'
<1>1. PICK left : left = Range(lru) \intersect Settled
  OBVIOUS
<1>2. BytesOf(left)' = BytesOf(left)
  BY <1>1, BytesStay
<1>3. BytesOf(Range(lru) \intersect Settled)' = BytesOf(left)'
  BY <1>1 DEF BytesOf, cacheVars
<1> QED BY <1>1, <1>2, <1>3 DEF ListInv, ListFollowsMap, cacheVars

\* Every step of a load keeps map, list and byte count together.
LEMMA RunStepList == ASSUME DInv, ListInv, NEW i \in Runs, RunStep(i) PROVE ListInv'
<1>1. Typed /\ OutcomesFenced
  BY DEF DInv
<1>2. CASE Settle(i)
  BY <1>1, <1>2, SettleMarks, KeepList, ForgetList DEF Settle
<1>3. CASE ~Settle(i)
  <2>1. UNCHANGED cacheVars
    BY <1>3 DEF RunStep, PermitGranted, PermitRefused, LoadReturns, CloseReady, RunnerFinished
  <2> QED BY <1>1, <1>3, <2>1, OthersCountAlike, ListStays
<1> QED BY <1>2, <1>3

\* A fence empties all three.
LEMMA FenceList == ASSUME DInv, ListInv, BeginGeneration \/ MarkStale \/ CloserFences PROVE ListInv'
<1>1. entries' = [c \in Coverages |-> 0] /\ lru' = <<>> /\ totalBytes' = 0
  BY DEF BeginGeneration, MarkStale, CloserFences, Clear
<1>2. Typed
  BY DEF DInv
<1>3. Range(lru') = {} /\ Range(entries') \ {0} = {} /\ lru' \in Seq(Runs) /\ Distinct(lru')
  BY <1>1 DEF Range, Distinct
<1>4. BytesOf(Range(lru) \intersect Settled)' = 0
  <2>1. BytesOf({})' = 0
    <3>1. BytesOf({}) = 0
      BY <1>2, BytesAreSizes, SizeOfFew
    <3>2. BytesOf({})' = BytesOf({})
      BY BytesStay
    <3> QED BY <3>1, <3>2
  <2>2. Range(lru') \intersect Settled' = {}
    BY <1>3
  <2>3. BytesOf(Range(lru) \intersect Settled)' = BytesOf({})'
    BY <2>2 DEF BytesOf
  <2> QED BY <2>1, <2>3
<1> QED BY <1>1, <1>3, <1>4, DetailAssumption DEF ListInv, ListFollowsMap, Distinct, DetailAssumption

\* A request that joins a load moves its entry to the front.
LEMMA JoinList ==
  ASSUME DInv, ListInv, NEW r \in Readers, NEW c \in Coverages, NEW g \in 1..MaxGen, AcquireJoins(r, c, g)
  PROVE  ListInv'
<1>1. PICK list, i : list = lru /\ i = entries[c]
  OBVIOUS
<1>2. /\ list \in Seq(Runs) /\ Distinct(list) /\ Range(list) = Range(entries) \ {0}
      /\ i # 0 /\ lru' = <<i>> \o Without(list, {i}) /\ UNCHANGED <<entries, totalBytes, run>>
  BY <1>1 DEF ListInv, ListFollowsMap, Distinct, AcquireJoins, Touch, runVars
<1>3. i \in Range(list) /\ i \in Runs
  <2>1. i \in Range(entries)
    BY <1>1 DEF DInv, Typed, Range
  <2>2. Range(list) \subseteq Runs
    BY <1>2 DEF Range
  <2> QED BY <1>2, <2>1, <2>2
<1>4. PICK rest : rest = Without(list, {i})
  OBVIOUS
<1>5. rest \in Seq(Runs) /\ Distinct(rest) /\ Range(rest) = Range(list) \ {i}
  BY <1>2, <1>4, WithoutDrops
<1>6. <<i>> \o rest \in Seq(Runs) /\ Distinct(<<i>> \o rest) /\ Range(<<i>> \o rest) = Range(rest) \union {i}
  BY <1>3, <1>5, InFront
<1>7. lru' \in Seq(Runs) /\ Distinct(lru') /\ Range(lru') = Range(lru)
  <2>1. lru' = <<i>> \o rest
    BY <1>2, <1>4
  <2>2. Range(rest) \union {i} = Range(list)
    BY <1>3, <1>5
  <2> QED BY <1>1, <1>6, <2>1, <2>2
<1>8. BytesOf(Range(lru) \intersect Settled)' = BytesOf(Range(lru) \intersect Settled)
  <2>1. Settled' = Settled
    BY <1>2 DEF Settled
  <2> QED BY <1>2, <1>7, <2>1 DEF BytesOf
<1> QED BY <1>2, <1>7, <1>8 DEF ListInv, ListFollowsMap, Distinct

\* A load that is launched is put in front; it counts for nothing yet.
LEMMA LaunchList ==
  ASSUME DInv, ListInv, NEW r \in Readers, NEW c \in Coverages, NEW g \in 1..MaxGen, AcquireLaunches(r, c, g)
  PROVE  ListInv'
<1>1. PICK list, i : list = lru /\ i = made + 1
  OBVIOUS
<1> DEFINE l == [NoRun EXCEPT !.at = "permit", !.coverage = c, !.gen = g, !.fence = fence]
<1>2. /\ list \in Seq(Runs) /\ Distinct(list) /\ Range(list) = Range(entries) \ {0}
      /\ entries[c] = 0 /\ made < MaxRuns /\ entries' = [entries EXCEPT ![c] = i] /\ lru' = <<i>> \o list
      /\ totalBytes' = totalBytes /\ run' = [run EXCEPT ![i] = l] /\ g = generation
  BY <1>1 DEF ListInv, ListFollowsMap, Distinct, AcquireLaunches, Insert, Refused
<1>3. Typed /\ i \in Runs /\ i # 0 /\ \A d \in Coverages : entries[d] # i
  <2>1. Typed /\ MaxRuns \in Nat
    BY DetailAssumption DEF DInv, DetailAssumption
  <2>2. made \in 0..MaxRuns /\ entries \in [Coverages -> 0..made]
    BY <2>1 DEF Typed
  <2>3. i \in Runs /\ i # 0 /\ i \notin 0..made
    BY <1>1, <1>2, <2>1, <2>2 DEF Runs
  <2> QED BY <2>1, <2>2, <2>3
<1>4. i \notin Range(list)
  BY <1>2, <1>3 DEF Range, Typed
<1>5. lru' \in Seq(Runs) /\ Distinct(lru') /\ Range(lru') = Range(list) \union {i}
  BY <1>2, <1>3, <1>4, InFront
<1>6. Range(entries') \ {0} = Range(lru')
  <2>1. \A d \in Coverages : entries'[d] = IF d = c THEN i ELSE entries[d]
    BY <1>2, <1>3 DEF Typed
  <2>2. DOMAIN entries' = Coverages /\ DOMAIN entries = Coverages
    BY <1>2, <1>3 DEF Typed
  <2>3. Range(entries') \ {0} = (Range(entries) \ {0}) \union {i}
    BY <1>2, <1>3, <2>1, <2>2 DEF Range
  <2> QED BY <1>2, <1>5, <2>3
<1>7. (\A j \in Runs \ {i} : run'[j] = run[j]) /\ ~run'[i].settled
  <2>1. LoadTyped(NoRun) /\ ~NoRun.settled
    BY NoRunTyped
  <2>2. g \in Nat /\ fence \in Nat
    BY <1>2, <1>3 DEF Typed
  <2>3. LoadTyped(l) /\ ~l.settled
    <3> HIDE DEF NoRun
    <3> QED BY <2>1, <2>2 DEF LoadTyped, RunAt
  <2> HIDE DEF l
  <2> QED BY <1>2, <1>3, <2>3, LoadChanges
<1>8. Range(lru') \intersect Settled' = Range(list) \intersect Settled
  <2>1. Range(list) \subseteq Runs
    BY <1>2 DEF Range
  <2> QED BY <1>4, <1>5, <1>7, <2>1 DEF Settled
<1>9. BytesOf(Range(lru) \intersect Settled)' = totalBytes
  <2>1. PICK left : left = Range(list) \intersect Settled
    OBVIOUS
  <2>2. BytesOf(left)' = BytesOf(left)
    BY <1>4, <1>7, <2>1, BytesStay
  <2>3. BytesOf(Range(lru) \intersect Settled)' = BytesOf(left)'
    BY <1>8, <2>1 DEF BytesOf
  <2> QED BY <1>1, <2>1, <2>2, <2>3 DEF ListInv, ListFollowsMap
<1> QED BY <1>2, <1>5, <1>6, <1>9 DEF ListInv, ListFollowsMap, Distinct

\* At first there is nothing.
LEMMA InitList == Init => ListInv
<1> SUFFICES ASSUME Init PROVE ListInv
  OBVIOUS
<1>1. Typed /\ lru = <<>> /\ totalBytes = 0 /\ entries = [c \in Coverages |-> 0]
  BY InitInv DEF DInv, Init
<1>2. Range(lru) = {} /\ Range(entries) \ {0} = {} /\ lru \in Seq(Runs)
  BY <1>1 DEF Range
<1>3. BytesOf({}) = 0
  BY <1>1, BytesAreSizes, SizeOfFew
<1>4. Range(lru) \intersect Settled = {}
  BY <1>2
<1>5. BytesOf(Range(lru) \intersect Settled) = 0
  BY <1>3, <1>4
<1> QED BY <1>1, <1>2, <1>5, DetailAssumption DEF ListInv, ListFollowsMap, DetailAssumption

\* Every step keeps map, list and byte count together.
LEMMA NextList == DInv /\ ListInv /\ [Next]_vars => ListInv'
<1> SUFFICES ASSUME DInv, ListInv, [Next]_vars PROVE ListInv'
  OBVIOUS
<1>1. CASE BeginGeneration \/ MarkStale \/ CloserFences
  BY <1>1, FenceList
<1>2. CASE \E r \in Readers, c \in Coverages, g \in 1..MaxGen : AcquireJoins(r, c, g) \/ AcquireLaunches(r, c, g)
  BY <1>2, JoinList, LaunchList
<1>3. CASE \E i \in Runs : RunStep(i)
  BY <1>3, RunStepList
<1>4. CASE \/ ParentEnds \/ CloserCaptures \/ CloserReturns \/ UNCHANGED vars
           \/ \E r \in Readers, g \in 1..MaxGen : AcquireStale(r, g)
           \/ \E r \in Readers : ReaderReturns(r) \/ ReaderWithdraws(r)
  <2>1. UNCHANGED cacheVars /\ UNCHANGED run
    BY <1>4 DEF ParentEnds, CloserCaptures, CloserReturns, vars, AcquireStale, ReaderReturns, ReaderWithdraws, runVars
  <2>2. Settled' = Settled
    BY <2>1 DEF Settled
  <2> QED BY <2>1, <2>2, ListStays
<1> QED BY <1>1, <1>2, <1>3, <1>4 DEF Next

-----------------------------------------------------------------------------
(* The bounds.                                                             *)

\* What a size and a fence of the model can be.
LoadSizes == {0} \union UNION Range(Weights)
Fences == 0..(MaxFences + 1)

LoadBounded(l) == l.gen \in 0..MaxGen /\ l.fence \in Fences /\ l.until \in Fences /\ l.size \in LoadSizes

\* The counters stay within the bounds of the model, sizes are those a load can have, and no
\* channel is opened without a load.
Bounds ==
  /\ generation \in 1..MaxGen /\ fence \in Fences /\ stale \in BOOLEAN /\ parentDone \in BOOLEAN
  /\ drained \in 0..made /\ drainedClosed \in BOOLEAN
  /\ \A i \in Runs : LoadBounded(run[i])
  /\ \A r \in Readers : reader[r].fence \in Fences
  /\ closer.gen \in 0..MaxGen /\ closer.chan \in 0..made

\* With them the state is of the types it is declared to have.
LEMMA TypesFollow == DInv /\ ListInv /\ Bounds => TypeOK
<1> SUFFICES ASSUME DInv, ListInv, Bounds PROVE TypeOK
  OBVIOUS
<1>1. Typed /\ LoadsCounted /\ MaxRuns \in Nat /\ MaxBytes \in Nat /\ made \in 0..MaxRuns
  BY DetailAssumption DEF DInv, DetailAssumption, Typed
<1>2. 0..made \subseteq 0..MaxRuns
  BY <1>1
<1>3. totalBytes \in 0..MaxBytes /\ lru \in Seq(Runs)
  BY <1>1 DEF ListInv, ListFollowsMap
<1>4. active \in 0..MaxRuns
  <2>1. IsFiniteSet(Runs) /\ Cardinality(Runs) = MaxRuns
    BY <1>1, FS_Interval DEF Runs
  <2>2. InFlight \subseteq Runs
    BY DEF InFlight
  <2>3. Cardinality(InFlight) <= MaxRuns
    BY <2>1, <2>2, FS_Subset
  <2> QED BY <1>1, <2>3, InFlightIsFinite DEF LoadsCounted
<1>5. run \in [Runs -> [at : RunAt, coverage : Coverages, gen : 0..MaxGen, fence : 0..(MaxFences + 1),
                        until : 0..(MaxFences + 1), out : Outcomes, size : {0} \union UNION Range(Weights),
                        settled : BOOLEAN]]
  <2> DEFINE G == 0..MaxGen
             F == 0..(MaxFences + 1)
             Z == {0} \union UNION Range(Weights)
  <2>1. ASSUME NEW i \in Runs
        PROVE  /\ LoadTyped(run[i])
               /\ run[i].gen \in G /\ run[i].fence \in F /\ run[i].until \in F /\ run[i].size \in Z
    BY <1>1 DEF Typed, Bounds, LoadBounded, Fences, LoadSizes
  <2> HIDE DEF G, F, Z
  <2>2. ASSUME NEW i \in Runs
        PROVE  run[i] \in [at : RunAt, coverage : Coverages, gen : G, fence : F, until : F,
                           out : Outcomes, size : Z, settled : BOOLEAN]
    BY <2>1 DEF LoadTyped
  <2>3. run = [i \in Runs |-> run[i]]
    BY <1>1 DEF Typed
  <2> QED BY <2>2, <2>3 DEF G, F, Z
<1>6. reader \in [Readers -> [at : {"idle", "waiting", "answered"}, run : 0..MaxRuns,
                              out : Outcomes, fence : 0..(MaxFences + 1)]]
  <2> DEFINE R == 0..MaxRuns
             M == 0..made
             F == 0..(MaxFences + 1)
  <2>1. /\ reader \in [Readers -> [at : {"idle", "waiting", "answered"}, run : M, out : Outcomes, fence : Nat]]
        /\ M \subseteq R /\ \A r \in Readers : reader[r].fence \in F
    BY <1>1, <1>2 DEF Typed, Bounds, Fences
  <2> HIDE DEF R, F, M
  <2>2. \A r \in Readers : reader[r] \in [at : {"idle", "waiting", "answered"}, run : R, out : Outcomes, fence : F]
    BY <2>1
  <2> QED BY <2>1, <2>2 DEF R, F
<1>7. closer \in [at : {"idle", "wait", "waiting", "done"}, chan : 0..MaxRuns, gen : 0..MaxGen, pending : SUBSET Runs]
  <2> DEFINE R == 0..MaxRuns
             G == 0..MaxGen
  <2>1. /\ closer \in [at : {"idle", "wait", "waiting", "done"}, chan : Nat, gen : Nat, pending : SUBSET Runs]
        /\ closer.chan \in R /\ closer.gen \in G
    BY <1>1, <1>2 DEF Typed, Bounds
  <2> HIDE DEF R, G
  <2>2. closer \in [at : {"idle", "wait", "waiting", "done"}, chan : R, gen : G, pending : SUBSET Runs]
    BY <2>1
  <2> QED BY <2>2 DEF R, G
<1>8. entries \in [Coverages -> 0..MaxRuns] /\ drained \in 0..MaxRuns /\ drainedClosed \in BOOLEAN
  BY <1>1, <1>2 DEF Typed, Bounds
<1>9. generation \in 1..MaxGen /\ fence \in 0..(MaxFences + 1) /\ stale \in BOOLEAN /\ parentDone \in BOOLEAN
  BY DEF Bounds, Fences
<1> QED BY <1>1, <1>3, <1>4, <1>5, <1>6, <1>7, <1>8, <1>9 DEF TypeOK

\* A load that moves stays within the bounds.
LEMMA MovesBounded ==
  ASSUME Typed, Bounds, NEW i \in Runs, RunStep(i)
  PROVE  \A j \in Runs : LoadBounded(run'[j])
<1>1. LoadTyped(run[i]) /\ LoadBounded(run[i]) /\ fence \in Fences /\ fence \in Nat
  BY DEF Typed, Bounds
<1>2. ASSUME NEW l, LoadTyped(l), LoadBounded(l), run' = [run EXCEPT ![i] = l]
      PROVE  \A j \in Runs : LoadBounded(run'[j])
  <2>1. (\A j \in Runs \ {i} : run'[j] = run[j]) /\ run'[i] = l
    BY <1>2, LoadChanges
  <2>2. \A j \in Runs : LoadBounded(run[j])
    BY DEF Bounds
  <2>3. ASSUME NEW j \in Runs PROVE LoadBounded(run'[j])
    BY <1>2, <2>1, <2>2 DEF LoadBounded
  <2> QED BY <2>3
<1>3. CASE PermitGranted(i)
  <2> DEFINE l == [run[i] EXCEPT !.at = "load"]
  <2>1. LoadTyped(l) /\ LoadBounded(l) /\ run' = [run EXCEPT ![i] = l]
    BY <1>1, <1>3 DEF LoadTyped, LoadBounded, RunAt, PermitGranted
  <2> HIDE DEF l
  <2> QED BY <1>2, <2>1
<1>4. CASE PermitRefused(i)
  <2> DEFINE l == [run[i] EXCEPT !.at = "settle", !.out = "failed"]
  <2>1. LoadTyped(l) /\ LoadBounded(l) /\ run' = [run EXCEPT ![i] = l]
    BY <1>1, <1>4 DEF LoadTyped, LoadBounded, RunAt, Outcomes, PermitRefused
  <2> HIDE DEF l
  <2> QED BY <1>2, <2>1
<1>5. CASE LoadReturns(i)
  <2>1. CASE run' = [run EXCEPT ![i].at = "settle", ![i].out = "failed"]
    <3> DEFINE l == [run[i] EXCEPT !.at = "settle", !.out = "failed"]
    <3>1. LoadTyped(l) /\ LoadBounded(l) /\ run' = [run EXCEPT ![i] = l]
      BY <1>1, <2>1 DEF LoadTyped, LoadBounded, RunAt, Outcomes
    <3> HIDE DEF l
    <3> QED BY <1>2, <3>1
  <2>2. CASE \E w \in Weights[run[i].coverage] :
               run' = [run EXCEPT ![i].at = "settle", ![i].out = "value", ![i].size = w]
    <3>1. PICK w \in Nat \intersect LoadSizes :
            run' = [run EXCEPT ![i].at = "settle", ![i].out = "value", ![i].size = w]
      <4>1. run[i].coverage \in Coverages /\ Weights \in [Coverages -> SUBSET Nat]
        BY <1>1, DetailAssumption DEF DetailAssumption, LoadTyped
      <4>2. Weights[run[i].coverage] \subseteq Nat /\ Weights[run[i].coverage] \in Range(Weights)
        BY <4>1 DEF Range
      <4>3. Weights[run[i].coverage] \subseteq LoadSizes
        BY <4>2 DEF LoadSizes
      <4> QED BY <2>2, <4>2, <4>3
    <3> DEFINE l == [run[i] EXCEPT !.at = "settle", !.out = "value", !.size = w]
    <3>2. LoadTyped(l) /\ LoadBounded(l) /\ run' = [run EXCEPT ![i] = l]
      BY <1>1, <3>1 DEF LoadTyped, LoadBounded, RunAt, Outcomes
    <3> HIDE DEF l
    <3> QED BY <1>2, <3>2
  <2> QED BY <1>5, <2>1, <2>2 DEF LoadReturns
<1>6. CASE Settle(i)
  <2> DEFINE out == IF ~Valid(i) THEN "stale"
                    ELSE IF run[i].out = "value" /\ run[i].size > MaxBytes THEN "limit" ELSE run[i].out
             kept == out = "value" /\ Keeps(i)
             l == [run[i] EXCEPT !.at = "wake", !.out = out, !.until = fence, !.settled = kept]
  <2>1. out \in Outcomes
    BY <1>1 DEF LoadTyped, Outcomes
  <2>2. run' = [run EXCEPT ![i] = l]
    BY <1>6 DEF Settle
  <2>3. kept \in BOOLEAN
    BY Zenon
  <2> HIDE DEF out, kept
  <2>4. LoadTyped(l) /\ LoadBounded(l)
    BY <1>1, <2>1, <2>3 DEF LoadTyped, LoadBounded, RunAt
  <2> HIDE DEF l
  <2> QED BY <1>2, <2>2, <2>4
<1>7. CASE CloseReady(i)
  <2> DEFINE l == [run[i] EXCEPT !.at = "finish"]
  <2>1. LoadTyped(l) /\ LoadBounded(l) /\ run' = [run EXCEPT ![i] = l]
    BY <1>1, <1>7 DEF LoadTyped, LoadBounded, RunAt, CloseReady
  <2> HIDE DEF l
  <2> QED BY <1>2, <2>1
<1>8. CASE RunnerFinished(i)
  <2> DEFINE l == [run[i] EXCEPT !.at = "done"]
  <2>1. LoadTyped(l) /\ LoadBounded(l) /\ run' = [run EXCEPT ![i] = l]
    BY <1>1, <1>8 DEF LoadTyped, LoadBounded, RunAt, RunnerFinished
  <2> HIDE DEF l
  <2> QED BY <1>2, <2>1
<1> QED BY <1>3, <1>4, <1>5, <1>6, <1>7, <1>8 DEF RunStep

\* Every step keeps the bounds.
LEMMA NextBounds == DInv /\ Bounds /\ [Next]_vars => Bounds'
<1> SUFFICES ASSUME DInv, Bounds, [Next]_vars PROVE Bounds'
  OBVIOUS
<1>0. /\ MaxGen \in Nat \ {0} /\ MaxFences \in Nat /\ MaxRuns \in Nat /\ Typed /\ CloserInv
      /\ made \in Nat /\ drained \in Nat /\ closer.chan \in Nat
  BY DetailAssumption DEF DInv, DetailAssumption, Typed
<1>1. CASE BeginGeneration \/ MarkStale
  <2>1. /\ generation' \in 1..MaxGen /\ fence' \in Fences /\ stale' \in BOOLEAN
        /\ UNCHANGED <<parentDone, drained, drainedClosed, made, run, reader, closer>>
    <3>1. generation \in 1..MaxGen /\ fence \in 0..(MaxFences + 1)
      BY DEF Bounds, Fences
    <3>2. CASE BeginGeneration
      <4>1. generation + 1 \in 1..MaxGen /\ fence + 1 \in 0..(MaxFences + 1)
        BY <1>0, <3>1, <3>2 DEF BeginGeneration
      <4> QED BY <3>2, <4>1 DEF BeginGeneration, Fences, runVars
    <3>3. CASE MarkStale
      <4>1. fence + 1 \in 0..(MaxFences + 1)
        BY <1>0, <3>1, <3>3 DEF MarkStale
      <4> QED BY <3>1, <3>3, <4>1 DEF MarkStale, Fences, runVars
    <3> QED BY <1>1, <3>2, <3>3
  <2> QED BY <2>1 DEF Bounds, LoadBounded
<1>2. CASE CloserFences
  <2>1. /\ fence' \in Fences /\ stale' \in BOOLEAN
        /\ UNCHANGED <<generation, parentDone, drained, drainedClosed, made, run, reader>>
    BY <1>0, <1>2 DEF CloserFences, Bounds, Fences, runVars, CloserInv
  <2>2. closer'.gen = generation /\ closer'.chan = closer.chan
    BY <1>0, <1>2 DEF CloserFences, Typed
  <2>3. generation \in 0..MaxGen
    BY <1>0 DEF Bounds
  <2> QED BY <2>1, <2>2, <2>3 DEF Bounds, LoadBounded
<1>3. CASE CloserCaptures \/ CloserReturns
  <2>1. UNCHANGED <<generation, fence, stale, parentDone, drained, drainedClosed, made, run, reader>>
    BY <1>3 DEF CloserCaptures, CloserReturns, fenceVars, runVars
  <2>2. closer'.gen = closer.gen /\ closer'.chan \in {closer.chan, drained}
    BY <1>0, <1>3 DEF CloserCaptures, CloserReturns, Typed
  <2> QED BY <2>1, <2>2 DEF Bounds, LoadBounded
<1>4. CASE ParentEnds \/ UNCHANGED vars
  <2>1. /\ UNCHANGED <<generation, fence, stale, drained, drainedClosed, made, run, reader, closer>>
        /\ parentDone' \in BOOLEAN
    BY <1>4 DEF ParentEnds, vars, fenceVars, runVars, Bounds
  <2> QED BY <2>1 DEF Bounds, LoadBounded
<1>5. CASE \E i \in Runs : RunStep(i)
  <2>1. PICK i \in Runs : RunStep(i)
    BY <1>5
  <2>2. UNCHANGED <<generation, stale, fence, parentDone, made, drained, reader, closer>>
    BY <2>1 DEF RunStep, PermitGranted, PermitRefused, LoadReturns, Settle, CloseReady, RunnerFinished, fenceVars
  <2>3. drainedClosed' \in BOOLEAN
    <3>1. drainedClosed' = drainedClosed \/ drainedClosed' = (active = 1)
      BY <2>1 DEF RunStep, PermitGranted, PermitRefused, LoadReturns, Settle, CloseReady, RunnerFinished, CountDown
    <3>2. (active = 1) \in BOOLEAN /\ drainedClosed \in BOOLEAN
      BY DEF Bounds
    <3> QED BY <3>1, <3>2
  <2>4. \A j \in Runs : LoadBounded(run'[j])
    BY <1>0, <2>1, MovesBounded
  <2> QED BY <2>2, <2>3, <2>4 DEF Bounds, LoadBounded
<1>6. ASSUME NEW r \in Readers, NEW new, reader' = [reader EXCEPT ![r] = new], new.fence \in Fences
      PROVE  \A q \in Readers : reader'[q].fence \in Fences
  BY <1>0, <1>6 DEF Typed, Bounds
<1>7. CASE \/ \E r \in Readers : ReaderReturns(r) \/ ReaderWithdraws(r)
           \/ \E r \in Readers, g \in 1..MaxGen : AcquireStale(r, g)
           \/ \E r \in Readers, c \in Coverages, g \in 1..MaxGen : AcquireJoins(r, c, g)
  <2>1. UNCHANGED <<generation, stale, fence, parentDone, drained, drainedClosed, made, run, closer>>
    BY <1>7 DEF ReaderReturns, ReaderWithdraws, AcquireStale, AcquireJoins, fenceVars, runVars
  <2>2. PICK r \in Readers : \E new : reader' = [reader EXCEPT ![r] = new] /\ new.fence \in Fences
    <3>1. CASE \E r \in Readers : ReaderReturns(r)
      <4>1. PICK r \in Readers : ReaderReturns(r)
        BY <3>1
      <4> DEFINE o == run[reader[r].run].out
                 n == IF o = "value" THEN reader[r].run ELSE 0
                 new == [reader[r] EXCEPT !.at = "answered", !.out = o, !.run = n]
      <4>2. reader' = [reader EXCEPT ![r] = new]
        BY <4>1 DEF ReaderReturns
      <4>3. new.fence \in Fences
        BY <1>0 DEF Typed, Bounds
      <4> QED BY <4>2, <4>3
    <3>2. CASE \E r \in Readers : ReaderWithdraws(r)
      <4>1. PICK r \in Readers : reader' = [reader EXCEPT ![r] = NoReader]
        BY <3>2 DEF ReaderWithdraws
      <4>2. NoReader.fence \in Fences
        BY <1>0 DEF NoReader, Fences
      <4> QED BY <4>1, <4>2
    <3>3. CASE \E r \in Readers, g \in 1..MaxGen : AcquireStale(r, g)
      <4>1. PICK r \in Readers : reader' = [reader EXCEPT ![r] = [NoReader EXCEPT !.at = "answered", !.out = "stale"]]
        BY <3>3 DEF AcquireStale
      <4>2. [NoReader EXCEPT !.at = "answered", !.out = "stale"].fence \in Fences
        BY <1>0 DEF NoReader, Fences
      <4> QED BY <4>1, <4>2
    <3>4. CASE \E r \in Readers, c \in Coverages, g \in 1..MaxGen : AcquireJoins(r, c, g)
      <4>1. PICK r \in Readers, c \in Coverages, g \in 1..MaxGen : AcquireJoins(r, c, g)
        BY <3>4
      <4> DEFINE new == [at |-> "waiting", run |-> entries[c], out |-> "none", fence |-> fence]
      <4>2. reader' = [reader EXCEPT ![r] = new]
        BY <4>1 DEF AcquireJoins, Awaits
      <4>3. new.fence \in Fences
        BY DEF Bounds
      <4> QED BY <4>2, <4>3
    <3> QED BY <1>7, <3>1, <3>2, <3>3, <3>4
  <2>3. \A q \in Readers : reader'[q].fence \in Fences
    BY <1>6, <2>2
  <2> QED BY <2>1, <2>3 DEF Bounds, LoadBounded
<1>8. CASE \E r \in Readers, c \in Coverages, g \in 1..MaxGen : AcquireLaunches(r, c, g)
  <2>1. PICK r \in Readers, c \in Coverages, g \in 1..MaxGen : AcquireLaunches(r, c, g)
    BY <1>8
  <2>2. PICK i : i = made + 1
    OBVIOUS
  <2> DEFINE l == [NoRun EXCEPT !.at = "permit", !.coverage = c, !.gen = g, !.fence = fence]
             new == [at |-> "waiting", run |-> i, out |-> "none", fence |-> fence]
  <2>3. /\ made' = i /\ made < MaxRuns /\ run' = [run EXCEPT ![i] = l] /\ reader' = [reader EXCEPT ![r] = new]
        /\ DrainedOpens /\ UNCHANGED <<generation, stale, fence, parentDone, closer>>
    BY <2>1, <2>2 DEF AcquireLaunches, Awaits, fenceVars
  <2>4. i \in Runs
    BY <1>0, <2>2, <2>3 DEF Runs
  <2>5. g \in 0..MaxGen /\ g \in Nat /\ fence \in Nat
    BY <1>0 DEF Typed
  <2>6. LoadTyped(l) /\ LoadBounded(l)
    <3>1. LoadTyped(NoRun)
      BY NoRunTyped
    <3>2. NoRun.until \in Fences /\ NoRun.size \in LoadSizes
      <4>1. NoRun.until = 0 /\ NoRun.size = 0
        BY DEF NoRun
      <4>2. 0 \in Fences /\ 0 \in LoadSizes
        BY <1>0 DEF Fences, LoadSizes
      <4> QED BY <4>1, <4>2
    <3>3. fence \in Fences
      BY DEF Bounds
    <3> HIDE DEF NoRun
    <3> QED BY <2>5, <3>1, <3>2, <3>3 DEF LoadTyped, LoadBounded, RunAt
  <2>7. \A j \in Runs : LoadBounded(run'[j])
    <3>1. (\A j \in Runs \ {i} : run'[j] = run[j]) /\ run'[i] = l
      <4> HIDE DEF l
      <4> QED BY <1>0, <2>3, <2>4, <2>6, LoadChanges
    <3>2. \A j \in Runs : LoadBounded(run[j])
      BY DEF Bounds
    <3>3. ASSUME NEW j \in Runs PROVE LoadBounded(run'[j])
      <4> HIDE DEF l
      <4> QED BY <2>6, <3>1, <3>2 DEF LoadBounded
    <3> QED BY <3>3
  <2>8. \A q \in Readers : reader'[q].fence \in Fences
    <3>1. new.fence \in Fences
      BY DEF Bounds
    <3> HIDE DEF new
    <3> QED BY <1>6, <2>3, <3>1
  <2>9. drained' \in 0..made' /\ drainedClosed' \in BOOLEAN /\ closer.chan \in 0..made'
    <3>1. drained \in 0..made /\ closer.chan \in 0..made /\ drainedClosed \in BOOLEAN
      BY DEF Bounds
    <3>2. drained + 1 \in 0..i /\ drained \in 0..i /\ closer.chan \in 0..i
      BY <1>0, <2>2, <3>1
    <3>3. (drained' = drained + 1 /\ drainedClosed' = FALSE) \/ UNCHANGED <<drained, drainedClosed>>
      BY <2>3 DEF DrainedOpens
    <3>4. drained' \in 0..i /\ drainedClosed' \in BOOLEAN
      BY <3>1, <3>2, <3>3
    <3> QED BY <2>3, <3>2, <3>4
  <2> HIDE DEF l, new
  <2> QED BY <2>3, <2>7, <2>8, <2>9 DEF Bounds
<1> QED BY <1>1, <1>2, <1>3, <1>4, <1>5, <1>7, <1>8 DEF Next

\* At first no counter has moved.
LEMMA InitBounds == Init => Bounds
<1> SUFFICES ASSUME Init PROVE Bounds
  OBVIOUS
<1>1. MaxGen \in Nat \ {0} /\ MaxFences \in Nat
  BY DetailAssumption DEF DetailAssumption
<1>2. LoadBounded(NoRun)
  <2>1. NoRun.gen = 0 /\ NoRun.fence = 0 /\ NoRun.until = 0 /\ NoRun.size = 0
    BY DEF NoRun
  <2>2. 0 \in 0..MaxGen /\ 0 \in Fences /\ 0 \in LoadSizes
    BY <1>1 DEF Fences, LoadSizes
  <2> QED BY <2>1, <2>2 DEF LoadBounded
<1>3. \A i \in Runs : LoadBounded(run[i])
  BY <1>2 DEF Init
<1>4. \A r \in Readers : reader[r].fence \in Fences
  <2>1. NoReader.fence = 0 /\ 0 \in Fences
    BY <1>1 DEF NoReader, Fences
  <2>2. \A r \in Readers : reader[r] = NoReader
    BY DEF Init
  <2> QED BY <2>1, <2>2
<1>5. 0 \in Fences
  BY <1>1 DEF Fences
<1>6. /\ generation = 1 /\ fence = 0 /\ stale = FALSE /\ parentDone = FALSE /\ drained = 0 /\ made = 0
      /\ drainedClosed = TRUE /\ closer.gen = 0 /\ closer.chan = 0
  BY DEF Init
<1>7. generation \in 1..MaxGen /\ drained \in 0..made /\ closer.gen \in 0..MaxGen /\ closer.chan \in 0..made
  BY <1>1, <1>6
<1>8. stale \in BOOLEAN /\ parentDone \in BOOLEAN /\ drainedClosed \in BOOLEAN
  BY <1>6
<1> QED BY <1>3, <1>4, <1>5, <1>6, <1>7, <1>8 DEF Bounds

\* However requests, loads, evictions and fences interleave, one load per coverage runs for
\* the fence in force, entries are current, and map, list and byte count of the cache agree
\* and stay within its bytes (detailStore.acquire, settle, evictLocked, touchLocked).
THEOREM DetailsAreConsistent == Spec => []CacheConsistent
<1>1. Init => ListInv /\ Bounds
  BY InitList, InitBounds
<1>2. DInv /\ ListInv /\ Bounds /\ [Next]_vars => (ListInv /\ Bounds)'
  BY NextList, NextBounds
<1>3. Spec => [](ListInv /\ Bounds)
  BY <1>1, <1>2, DetailInvariant, PTL DEF Spec
<1>4. DInv /\ ListInv /\ Bounds => CacheConsistent
  BY TypesFollow DEF CacheConsistent, ListInv, DInv, EntriesFenced, OneLoadPerCoverage, InFlight, Unsettled
<1> QED BY <1>3, <1>4, DetailInvariant, PTL

=============================================================================
