----------------------------- MODULE DetailStore -----------------------------
(***************************************************************************)
(* The detail store of one metadata store (metadata/details.go): one load  *)
(* per coverage however many readers ask, a fence per generation, and a    *)
(* byte bound kept by dropping the least recently used entries.            *)
(*                                                                         *)
(* An entry and the goroutine that loads it are one number, in order of    *)
(* creation.  The lock mu makes acquire's look-up, settle, the fences and  *)
(* runnerFinished atomic; taking a permit, the native load, closing ready  *)
(* and waking up are steps of their own.  A generation context is dead     *)
(* once a later fence was raised or the store's context ended; permits     *)
(* themselves are the subject of module MetadataBudget.                    *)
(***************************************************************************)
EXTENDS Naturals, Sequences, Functions, FiniteSets

CONSTANTS
  Readers,      \* goroutines in Lease.Detail
  Coverages,    \* what a detail is loaded and kept for
  Volatile,     \* the coverages whose plans are volatile
  MaxBytes,     \* retained bytes the store may hold
  Weights,      \* the sizes a loaded detail of a coverage can have
  MaxRuns,      \* bound: loads ever started
  MaxGen,       \* bound: generations
  MaxFences     \* bound: fences raised before the finalizer's own

ASSUME DetailAssumption ==
  /\ Coverages # {} /\ Volatile \subseteq Coverages /\ Weights \in [Coverages -> SUBSET Nat]
  /\ MaxBytes \in Nat \ {0} /\ MaxRuns \in Nat \ {0} /\ MaxGen \in Nat \ {0} /\ MaxFences \in Nat

Runs == 1..MaxRuns

VARIABLES
  generation, stale,
  fence,            \* history: fences raised
  parentDone,       \* the store's context has ended
  entries,          \* coverage -> entry, 0 when there is none
  lru,              \* the entries, most recently used first
  totalBytes,
  run, made,        \* each entry with its load, and how many there have been
  active,           \* loads counted
  drained, drainedClosed,   \* the number of the drained channel, and whether it is closed
  reader,
  closer            \* the finalizer in markStale and wait

fenceVars == <<generation, stale, fence, parentDone>>
cacheVars == <<entries, lru, totalBytes>>
runVars   == <<run, made, active, drained, drainedClosed>>
vars == <<fenceVars, cacheVars, runVars, reader, closer>>

NoRun == [at |-> "none", coverage |-> CHOOSE c \in Coverages : TRUE, gen |-> 0, fence |-> 0,
          until |-> 0, out |-> "none", size |-> 0, settled |-> FALSE]
NoReader == [at |-> "idle", run |-> 0, out |-> "none", fence |-> 0]
RunAt == {"none", "permit", "load", "settle", "wake", "finish", "done"}
Outcomes == {"none", "value", "stale", "failed", "limit"}

TypeOK ==
  /\ generation \in 1..MaxGen /\ fence \in 0..(MaxFences + 1)
  /\ stale \in BOOLEAN /\ parentDone \in BOOLEAN
  /\ entries \in [Coverages -> 0..MaxRuns] /\ lru \in Seq(Runs) /\ totalBytes \in 0..MaxBytes
  /\ run \in [Runs -> [at : RunAt, coverage : Coverages, gen : 0..MaxGen, fence : 0..(MaxFences + 1),
                       until : 0..(MaxFences + 1), out : Outcomes, size : {0} \union UNION Range(Weights), settled : BOOLEAN]]
  /\ made \in 0..MaxRuns /\ active \in 0..MaxRuns /\ drained \in 0..MaxRuns /\ drainedClosed \in BOOLEAN
  /\ reader \in [Readers -> [at : {"idle", "waiting", "answered"}, run : 0..MaxRuns,
                             out : Outcomes, fence : 0..(MaxFences + 1)]]
  /\ closer \in [at : {"idle", "wait", "waiting", "done"}, chan : 0..MaxRuns, gen : 0..MaxGen,
                 pending : SUBSET Runs]

Init ==
  /\ generation = 1 /\ stale = FALSE /\ fence = 0 /\ parentDone = FALSE
  /\ entries = [c \in Coverages |-> 0] /\ lru = <<>> /\ totalBytes = 0
  /\ run = [i \in Runs |-> NoRun] /\ made = 0 /\ active = 0 /\ drained = 0 /\ drainedClosed = TRUE
  /\ reader = [r \in Readers |-> NoReader]
  /\ closer = [at |-> "idle", chan |-> 0, gen |-> 0, pending |-> {}]

GenCtxDone(i) == run[i].fence # fence \/ parentDone

-----------------------------------------------------------------------------
(* The list and its bytes.                                                 *)

\* The list without the entries gone, in the order it has.
Without(list, gone) ==
  LET kept[n \in 0..Len(list)] ==
        IF n = 0 THEN <<>>
        ELSE IF list[n] \in gone THEN kept[n - 1] ELSE Append(kept[n - 1], list[n])
  IN  kept[Len(list)]

\* The sum of a weight of each load.
Total(weight) ==
  LET upTo[n \in 0..MaxRuns] == IF n = 0 THEN 0 ELSE upTo[n - 1] + weight[n]
  IN  upTo[MaxRuns]

BytesOf(loads) == Total([i \in Runs |-> IF i \in loads THEN run[i].size ELSE 0])

Settled == {i \in Runs : run[i].settled}

-----------------------------------------------------------------------------
(* The fences.                                                             *)

\* Slip: the entries of the superseded generation stay.
ClearNothing == UNCHANGED cacheVars

Clear == entries' = [c \in Coverages |-> 0] /\ lru' = <<>> /\ totalBytes' = 0

BeginGeneration ==
  /\ generation < MaxGen /\ fence < MaxFences
  /\ generation' = generation + 1 /\ stale' = FALSE /\ fence' = fence + 1
  /\ Clear
  /\ UNCHANGED <<parentDone, runVars, reader, closer>>

MarkStale ==
  /\ fence < MaxFences
  /\ stale' = TRUE /\ fence' = fence + 1
  /\ Clear
  /\ UNCHANGED <<generation, parentDone, runVars, reader, closer>>

ParentEnds ==
  /\ ~parentDone /\ parentDone' = TRUE
  /\ UNCHANGED <<generation, stale, fence, cacheVars, runVars, reader, closer>>

-----------------------------------------------------------------------------
(* acquire.                                                                *)

CanAsk(r) == reader[r].at # "waiting"
Refused(g) == stale \/ g # generation
Awaits(r, i) ==
  reader' = [reader EXCEPT ![r] = [at |-> "waiting", run |-> i, out |-> "none", fence |-> fence]]

AcquireStale(r, g) ==
  /\ CanAsk(r) /\ Refused(g)
  /\ reader' = [reader EXCEPT ![r] = [NoReader EXCEPT !.at = "answered", !.out = "stale"]]
  /\ UNCHANGED <<fenceVars, cacheVars, runVars, closer>>

\* The entry becomes the most recently used one.
Touch(i) == <<i>> \o Without(lru, {i})

\* An entry for this coverage exists: its load is joined, or its value reused.
AcquireJoins(r, c, g) ==
  /\ CanAsk(r) /\ ~Refused(g) /\ entries[c] # 0
  /\ lru' = Touch(entries[c])
  /\ Awaits(r, entries[c])
  /\ UNCHANGED <<fenceVars, entries, totalBytes, runVars, closer>>

\* Slip: the entry is put into the map when its load has returned.
InsertLater(c, i) == UNCHANGED <<entries, lru>>

\* The entry is visible before its load has started.
Insert(c, i) == entries' = [entries EXCEPT ![c] = i] /\ lru' = <<i>> \o lru

\* Slip: a drained channel that is closed already is not replaced.
DrainedKept == UNCHANGED <<drained, drainedClosed>>

\* The first load of a burst opens a drained channel of its own.
DrainedOpens ==
  IF active = 0 THEN drained' = drained + 1 /\ drainedClosed' = FALSE
                ELSE UNCHANGED <<drained, drainedClosed>>

AcquireLaunches(r, c, g) ==
  LET i == made + 1 IN
  /\ CanAsk(r) /\ ~Refused(g) /\ entries[c] = 0 /\ made < MaxRuns
  /\ Insert(c, i)
  /\ made' = i /\ active' = active + 1 /\ DrainedOpens
  /\ run' = [run EXCEPT ![i] = [NoRun EXCEPT !.at = "permit", !.coverage = c, !.gen = g, !.fence = fence]]
  /\ Awaits(r, i)
  /\ UNCHANGED <<fenceVars, totalBytes, closer>>

\* ready is closed: the outcome of the entry this reader asked for.
ReaderReturns(r) ==
  LET i == reader[r].run IN
  /\ reader[r].at = "waiting" /\ run[i].at \in {"finish", "done"}
  /\ reader' = [reader EXCEPT ![r].at = "answered", ![r].out = run[i].out,
                             ![r].run = IF run[i].out = "value" THEN i ELSE 0]
  /\ UNCHANGED <<fenceVars, cacheVars, runVars, closer>>

\* The reader's own context ends: the load goes on without it.
ReaderWithdraws(r) ==
  /\ reader[r].at = "waiting"
  /\ reader' = [reader EXCEPT ![r] = NoReader]
  /\ UNCHANGED <<fenceVars, cacheVars, runVars, closer>>

-----------------------------------------------------------------------------
(* run, settle, runnerFinished.                                            *)

PermitGranted(i) ==
  /\ run[i].at = "permit"
  /\ run' = [run EXCEPT ![i].at = "load"]
  /\ UNCHANGED <<fenceVars, cacheVars, made, active, drained, drainedClosed, reader, closer>>

PermitRefused(i) ==
  /\ run[i].at = "permit" /\ GenCtxDone(i)
  /\ run' = [run EXCEPT ![i].at = "settle", ![i].out = "failed"]
  /\ UNCHANGED <<fenceVars, cacheVars, made, active, drained, drainedClosed, reader, closer>>

\* The native load returns, whatever has become of its context.
LoadReturns(i) ==
  /\ run[i].at = "load"
  /\ \/ run' = [run EXCEPT ![i].at = "settle", ![i].out = "failed"]
     \/ \E w \in Weights[run[i].coverage] : run' = [run EXCEPT ![i].at = "settle", ![i].out = "value", ![i].size = w]
  /\ UNCHANGED <<fenceVars, cacheVars, made, active, drained, drainedClosed, reader, closer>>

\* Slip: a result is taken unless the store is stale at this moment.
ValidUnlessStale(i) == ~stale

\* The entry is still the one its coverage maps to, under the same generation.
Valid(i) == entries[run[i].coverage] = i /\ ~stale /\ run[i].gen = generation

Forget(i) ==
  /\ entries' = IF entries[run[i].coverage] = i THEN [entries EXCEPT ![run[i].coverage] = 0] ELSE entries
  /\ lru' = Without(lru, {i})

\* evictLocked, from the tail: the settled entries, the newest one i included, that
\* do not fit together with everything used more recently.
Evicted(i) ==
  LET counted == Settled \union {i}
      UpTo(n) == {lru[m] : m \in 1..n} \intersect counted
  IN  {lru[n] : n \in {m \in DOMAIN lru : lru[m] \in counted /\ BytesOf(UpTo(m)) > MaxBytes}}

\* Slip: what is evicted is counted all the same.
CountAll(i, gone) == totalBytes' = totalBytes + run[i].size

Count(i, gone) == totalBytes' = totalBytes + run[i].size - BytesOf(gone)

\* The settled entry counts, and older ones make room for it, or it goes itself.
Keep(i) ==
  LET gone == Evicted(i) IN
  /\ entries' = [c \in Coverages |-> IF entries[c] \in gone THEN 0 ELSE entries[c]]
  /\ lru' = Without(lru, gone)
  /\ Count(i, gone)

Keeps(i) == run[i].coverage \notin Volatile

Settle(i) ==
  /\ run[i].at = "settle"
  /\ LET out == IF ~Valid(i) THEN "stale"
                ELSE IF run[i].out = "value" /\ run[i].size > MaxBytes THEN "limit" ELSE run[i].out
         kept == out = "value" /\ Keeps(i)
     IN  /\ run' = [run EXCEPT ![i].at = "wake", ![i].out = out, ![i].until = fence, ![i].settled = kept]
         /\ IF kept THEN Keep(i) ELSE Forget(i) /\ UNCHANGED totalBytes
  /\ UNCHANGED <<fenceVars, made, active, drained, drainedClosed, reader, closer>>

\* Slip: an entry that was fenced off wakes nobody.
CloseReadyMapped(i) ==
  /\ run[i].at = "wake" /\ run[i].out # "stale"
  /\ run' = [run EXCEPT ![i].at = "finish"]
  /\ UNCHANGED <<fenceVars, cacheVars, made, active, drained, drainedClosed, reader, closer>>

CloseReady(i) ==
  /\ run[i].at = "wake"
  /\ run' = [run EXCEPT ![i].at = "finish"]
  /\ UNCHANGED <<fenceVars, cacheVars, made, active, drained, drainedClosed, reader, closer>>

\* The runner is counted down; the last of a burst closes its channel.
CountDown == active' = active - 1 /\ drainedClosed' = (active = 1)

RunnerFinished(i) ==
  /\ run[i].at = "finish"
  /\ run' = [run EXCEPT ![i].at = "done"]
  /\ CountDown
  /\ UNCHANGED <<fenceVars, cacheVars, made, drained, reader, closer>>

-----------------------------------------------------------------------------
(* The finalizer of the store: markStale, then wait.                       *)

CloserFences ==
  /\ closer.at = "idle" /\ parentDone
  /\ stale' = TRUE /\ fence' = fence + 1
  /\ Clear
  /\ closer' = [closer EXCEPT !.at = "wait", !.gen = generation]
  /\ UNCHANGED <<generation, parentDone, runVars, reader>>

InFlight == {i \in Runs : run[i].at \notin {"none", "done"}}

CloserCaptures ==
  /\ closer.at = "wait"
  /\ closer' = [closer EXCEPT !.at = "waiting", !.chan = drained, !.pending = InFlight]
  /\ UNCHANGED <<fenceVars, cacheVars, runVars, reader>>

\* The captured channel is closed: the burst it belongs to has ended.
CloserReturns ==
  /\ closer.at = "waiting" /\ (drainedClosed \/ closer.chan # drained)
  /\ closer' = [closer EXCEPT !.at = "done"]
  /\ UNCHANGED <<fenceVars, cacheVars, runVars, reader>>

-----------------------------------------------------------------------------
RunStep(i) ==
  PermitGranted(i) \/ PermitRefused(i) \/ LoadReturns(i) \/ Settle(i) \/ CloseReady(i) \/ RunnerFinished(i)

Next ==
  \/ BeginGeneration \/ MarkStale \/ ParentEnds
  \/ \E r \in Readers, g \in 1..MaxGen : AcquireStale(r, g)
  \/ \E r \in Readers, c \in Coverages, g \in 1..MaxGen : AcquireJoins(r, c, g) \/ AcquireLaunches(r, c, g)
  \/ \E r \in Readers : ReaderReturns(r) \/ ReaderWithdraws(r)
  \/ \E i \in Runs : RunStep(i)
  \/ CloserFences \/ CloserCaptures \/ CloserReturns

Spec == Init /\ [][Next]_vars

-----------------------------------------------------------------------------
(* Properties.                                                             *)

\* However many readers ask, at most one load per coverage runs for the fence in
\* force: a second one is joined, never started (acquire inserts the entry before
\* its load, eviction spares unsettled entries).
OneLoadPerCoverage ==
  \A i, j \in InFlight :
    run[i].coverage = run[j].coverage /\ run[i].fence = fence /\ run[j].fence = fence
    /\ run[i].at \in {"permit", "load", "settle"} /\ run[j].at \in {"permit", "load", "settle"} => i = j

\* An entry is of its coverage and of the fence in force, and what is volatile is
\* loaded again by the next request.
EntriesAreCurrent ==
  /\ \A c \in Coverages : entries[c] # 0 => /\ run[entries[c]].coverage = c
                                            /\ run[entries[c]].fence = fence
  /\ \A c \in Volatile : entries[c] # 0 => run[entries[c]].at \in {"permit", "load", "settle"}

\* The map and the list hold the same entries, and totalBytes is the weight of those
\* that have settled; it is within the bound.
ListFollowsMap ==
  /\ Range(lru) = Range(entries) \ {0}
  /\ \A m, n \in DOMAIN lru : lru[m] = lru[n] => m = n
  /\ totalBytes = BytesOf(Range(lru) \intersect Settled) /\ totalBytes <= MaxBytes

\* Loads are shared, and map, list and byte count stay together through joins,
\* evictions and fences.
CacheConsistent == TypeOK /\ OneLoadPerCoverage /\ EntriesAreCurrent /\ ListFollowsMap

\* wait returns only when every load that was in flight when it was called has
\* returned and, as long as no generation was begun since markStale, no load runs.
WaitDrains ==
  closer.at = "done" => /\ closer.pending \intersect InFlight = {}
                        /\ generation = closer.gen => InFlight = {}

\* What goes on by itself: permits are granted, native loads return, goroutines run.
AtRest == ~ENABLED \/ \E i \in Runs : RunStep(i)
                   \/ \E r \in Readers : ReaderReturns(r)
                   \/ CloserCaptures \/ CloserReturns

\* When everything has come to rest no reader waits on an entry, although others
\* withdrew and fences took it out of the map, and the finalizer is past its wait.
NobodyIsStranded ==
  AtRest => (\A r \in Readers : reader[r].at # "waiting") /\ closer.at \in {"idle", "done"}

\* The detailed store keeps the promise of module DetailPromise: an answer is a
\* value loaded for the reader's coverage since the fence its request saw, and
\* ErrStale is given only to a request that a fence overtook.
AnswerOf(r) ==
  LET i == reader[r].run IN
  CASE reader[r].at = "idle" -> [at |-> "idle"]
    [] reader[r].at = "waiting" ->
         [at |-> "waiting", coverage |-> run[i].coverage, fence |-> reader[r].fence]
    [] reader[r].at = "answered" ->
         [at |-> "answered",
          answer |-> IF reader[r].out = "value"
                     THEN [out |-> "value", coverage |-> run[i].coverage,
                           from |-> run[i].fence, until |-> run[i].until]
                     ELSE [out |-> reader[r].out]]

Promise == INSTANCE DetailPromise WITH request <- [r \in Readers |-> AnswerOf(r)],
                                       MaxFences <- MaxFences + 1

KeepsPromise == Promise!Spec
=============================================================================
