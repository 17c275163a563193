---------------------------- MODULE MetadataStore ----------------------------
(***************************************************************************)
(* One store (metadata/registry.go: track) after its creation, under       *)
(* everything that replaces or retires what it publishes: Refresh,         *)
(* RefreshInBackground and Maintain, serialized by refreshMu;              *)
(* Invalidate, which takes only t.mu; detail readers, which take neither;  *)
(* and the finalizer.                                                      *)
(*                                                                         *)
(* A loader is a number, in order of creation, and is seen through what    *)
(* this code reads of it: generation, Stale, stopped, the state of its     *)
(* load and the native work that still runs for it (module MetadataLoader  *)
(* has the inside).  The detail store is its generation fence (module      *)
(* DetailStore has the inside).  The schema of the database is a version   *)
(* that only grows; covers[l] is the version all of whose changes the      *)
(* cache of loader l is certain to contain.                                *)
(***************************************************************************)
EXTENDS Naturals, Sequences

CONSTANTS
  Ops,             \* the replacing operations the consumers use
  Readers,         \* goroutines in Lease.Detail
  MaxGen,          \* bound: generations published or attempted
  MaxSchema,       \* bound: versions of the database schema
  MaxInvalidations \* bound: calls of Invalidate

ASSUME StoreAssumption ==
  /\ Ops \subseteq {"refresh", "background", "maintain"}
  /\ MaxGen \in Nat \ {0} /\ MaxSchema \in Nat \ {0} /\ MaxInvalidations \in Nat

Gens == 1..MaxGen
Loaders == 1..MaxGen
Nothing == 0

VARIABLES
  loader, staging,    \* track.loader and track.staging
  retired, ctxDone,   \* track.closed and the end of track.ctx
  invalidations,
  baseline,           \* track.baseline: fp is 0 when there is none
  maintaining,        \* maintenanceDone is registered and open
  made,               \* loaders created so far
  gen, stale, stopped, load, native,  \* of each loader
  since, covers,
  dgen, dstale,       \* the generation fence of the detail store
  op,                 \* the operation that holds refreshMu
  inv,                \* Invalidate, which holds t.mu between its two halves
  reader,
  fin, owned,         \* the finalizer, and the loaders it still has to stop
  providerClosed,
  schema

trackVars  == <<loader, staging, retired, ctxDone, baseline, maintaining>>
loaderVars == <<made, gen, stale, stopped, load, native, since, covers>>
fenceVars  == <<dgen, dstale>>
finVars    == <<fin, owned, providerClosed>>
vars == <<trackVars, invalidations, loaderVars, fenceVars, op, inv, reader, finVars, schema>>

NoBaseline == [fp |-> 0, gen |-> 0, epoch |-> 0]
NoOp == [at |-> "idle", cur |-> Nothing, new |-> Nothing, gen |-> 0, epoch |-> 0,
         base |-> NoBaseline, cand |-> 0, low |-> 0, full |-> FALSE, mark |-> FALSE]
ReadingAt == {"scan", "changes", "full"}
OpAt == {"idle", "begin", "renew", "reset", "restart", "register", "launch", "settle", "swap", "fence",
         "stopOld", "markNew", "markDetails", "discard", "await", "wait", "unchanged", "publish", "retire",
         "leave"} \union ReadingAt
FinAt == {"none", "cancel", "collect", "await", "stop", "drain", "fence", "details", "close", "done"}

TypeOK ==
  /\ loader \in Loaders /\ staging \in 0..MaxGen
  /\ retired \in BOOLEAN /\ ctxDone \in BOOLEAN /\ maintaining \in BOOLEAN
  /\ invalidations \in 0..MaxInvalidations
  /\ baseline \in [fp : 0..MaxSchema, gen : 0..MaxGen, epoch : 0..MaxInvalidations]
  /\ made \in Loaders
  /\ gen \in [Loaders -> 0..MaxGen]
  /\ stale \in [Loaders -> BOOLEAN] /\ stopped \in [Loaders -> BOOLEAN]
  /\ load \in [Loaders -> {"none", "loading", "ready", "failed", "cancelled"}]
  /\ native \in [Loaders -> SUBSET Gens]
  /\ since \in [Loaders -> 0..MaxInvalidations] /\ covers \in [Loaders -> 0..MaxSchema]
  /\ dgen \in Gens /\ dstale \in BOOLEAN
  /\ op.at \in OpAt
  /\ inv \in {"idle", "asked", "details"}
  /\ reader \in [Readers -> [at : {"idle", "open", "bound", "refused", "acquire", "loading"},
                             loader : 0..MaxGen, gen : 0..MaxGen]]
  /\ fin \in FinAt /\ owned \in Seq(Loaders) /\ providerClosed \in BOOLEAN
  /\ schema \in 1..MaxSchema

\* createTrack has started generation 1 and closed ready.
Init ==
  /\ loader = 1 /\ staging = Nothing /\ retired = FALSE /\ ctxDone = FALSE
  /\ invalidations = 0 /\ baseline = NoBaseline /\ maintaining = FALSE
  /\ made = 1
  /\ gen = [l \in Loaders |-> IF l = 1 THEN 1 ELSE 0]
  /\ stale = [l \in Loaders |-> FALSE] /\ stopped = [l \in Loaders |-> FALSE]
  /\ load = [l \in Loaders |-> IF l = 1 THEN "loading" ELSE "none"]
  /\ native = [l \in Loaders |-> IF l = 1 THEN {1} ELSE {}]
  /\ since = [l \in Loaders |-> 0] /\ covers = [l \in Loaders |-> IF l = 1 THEN 1 ELSE 0]
  /\ dgen = 1 /\ dstale = FALSE
  /\ op = NoOp /\ inv = "idle"
  /\ reader = [r \in Readers |-> [at |-> "idle", loader |-> Nothing, gen |-> 0]]
  /\ fin = "none" /\ owned = <<>> /\ providerClosed = FALSE /\ schema = 1

TrackFree == inv # "details"   \* t.mu is not held between two steps of another actor
Goto(at) == op' = [op EXCEPT !.at = at]
Halted(l) == [load EXCEPT ![l] = IF @ = "loading" THEN "cancelled" ELSE @]

-----------------------------------------------------------------------------
(* Loaders and the database.                                               *)

\* Loader.Start of the generation in force; a dead context settles it at once.
Start(l, g) ==
  /\ load' = [load EXCEPT ![l] = IF ctxDone THEN "cancelled" ELSE "loading"]
  /\ native' = [native EXCEPT ![l] = IF ctxDone THEN @ ELSE @ \union {g}]
  /\ since' = [since EXCEPT ![l] = invalidations]
  /\ covers' = [covers EXCEPT ![l] = schema]

LoadSettles(l) ==
  /\ load[l] = "loading" /\ gen[l] \in native[l]
  /\ \E s \in {"ready", "failed"} : load' = [load EXCEPT ![l] = s]
  /\ native' = [native EXCEPT ![l] = @ \ {gen[l]}]
  /\ UNCHANGED <<trackVars, invalidations, made, gen, stale, stopped, since, covers, fenceVars, op, inv,
                 reader, finVars, schema>>

\* A cancelled load settles before its native calls return.
LoadCancelled(l) ==
  /\ load[l] = "loading" /\ ctxDone
  /\ load' = Halted(l)
  /\ UNCHANGED <<trackVars, invalidations, made, gen, stale, stopped, native, since, covers, fenceVars,
                 op, inv, reader, finVars, schema>>

NativeDrains(l, g) ==
  /\ g \in native[l] /\ (load[l] # "loading" \/ g # gen[l])
  /\ native' = [native EXCEPT ![l] = @ \ {g}]
  /\ UNCHANGED <<trackVars, invalidations, made, gen, stale, stopped, load, since, covers, fenceVars,
                 op, inv, reader, finVars, schema>>

\* Somebody changes the schema, known to this process or not.
SchemaChanges ==
  /\ schema < MaxSchema
  /\ schema' = schema + 1
  /\ UNCHANGED <<trackVars, invalidations, loaderVars, fenceVars, op, inv, reader, finVars>>

-----------------------------------------------------------------------------
(* Invalidate.                                                             *)

\* The check of track.closed, before t.mu is taken.
InvalidateBegins ==
  /\ inv = "idle" /\ ~retired /\ invalidations < MaxInvalidations
  /\ inv' = "asked"
  /\ UNCHANGED <<trackVars, invalidations, loaderVars, fenceVars, op, reader, finVars, schema>>

\* Under t.mu: the counter, then the loader.
InvalidateLoader ==
  /\ inv = "asked"
  /\ invalidations' = invalidations + 1
  /\ IF stopped[loader]
     THEN UNCHANGED <<stale, load>>
     ELSE stale' = [stale EXCEPT ![loader] = TRUE] /\ load' = Halted(loader)
  /\ inv' = "details"
  /\ UNCHANGED <<trackVars, made, gen, stopped, native, since, covers, fenceVars, op, reader, finVars, schema>>

\* Still under t.mu: the detail store.
InvalidateDetails ==
  /\ inv = "details"
  /\ dstale' = TRUE /\ inv' = "idle"
  /\ UNCHANGED <<trackVars, invalidations, loaderVars, dgen, op, reader, finVars, schema>>

-----------------------------------------------------------------------------
(* Refresh.                                                                *)

\* The check of track.closed, which nothing holds until the store is used.
RefreshBegins ==
  /\ "refresh" \in Ops /\ op.at = "idle" /\ ~retired /\ gen[loader] < MaxGen
  /\ Goto("begin")
  /\ UNCHANGED <<trackVars, invalidations, loaderVars, fenceVars, inv, reader, finVars, schema>>

\* The critical sections of t.mu: the store to refresh, and its baseline dropped.
RefreshDropsBaseline ==
  /\ op.at = "begin" /\ TrackFree
  /\ baseline' = NoBaseline
  /\ op' = [NoOp EXCEPT !.at = "renew", !.cur = loader, !.gen = gen[loader] + 1]
  /\ UNCHANGED <<loader, staging, retired, ctxDone, maintaining, invalidations, loaderVars, fenceVars, inv,
                 reader, finVars, schema>>

\* Slip: the detail store is left to the generation that is being replaced.
RefreshFencesNothing ==
  /\ op.at = "renew" /\ Goto("reset")
  /\ UNCHANGED <<trackVars, invalidations, loaderVars, fenceVars, inv, reader, finVars, schema>>

\* details.beginGeneration, which takes no lock of the store.
RefreshFences ==
  /\ op.at = "renew" /\ Goto("reset")
  /\ dgen' = op.gen /\ dstale' = FALSE
  /\ UNCHANGED <<trackVars, invalidations, loaderVars, inv, reader, finVars, schema>>

RefreshResets ==
  /\ op.at = "reset" /\ Goto("restart")
  /\ IF stopped[op.cur]
     THEN UNCHANGED loaderVars
     ELSE /\ gen' = [gen EXCEPT ![op.cur] = op.gen]
          /\ stale' = [stale EXCEPT ![op.cur] = FALSE]
          /\ load' = [load EXCEPT ![op.cur] = "none"]
          /\ UNCHANGED <<made, stopped, native, since, covers>>
  /\ UNCHANGED <<trackVars, invalidations, fenceVars, inv, reader, finVars, schema>>

RefreshStarts ==
  /\ op.at = "restart" /\ op' = NoOp
  /\ IF stopped[op.cur]
     THEN UNCHANGED <<load, native, since, covers>>
     ELSE Start(op.cur, op.gen)
  /\ UNCHANGED <<trackVars, invalidations, made, gen, stale, stopped, fenceVars, inv, reader, finVars, schema>>

-----------------------------------------------------------------------------
(* RefreshInBackground.                                                    *)

BackgroundBegins ==
  /\ "background" \in Ops /\ op.at = "idle" /\ TrackFree /\ ~retired
  /\ gen[loader] < MaxGen /\ made < MaxGen
  /\ op' = [NoOp EXCEPT !.at = "register", !.cur = loader]
  /\ UNCHANGED <<trackVars, invalidations, loaderVars, fenceVars, inv, reader, finVars, schema>>

\* The wait of the operation is cut short by its caller's context.
GiveUp ==
  /\ op.at \in {"register", "wait"} \union ReadingAt
  /\ op' = IF op.at = "register" THEN NoOp ELSE [op EXCEPT !.at = "leave"]
  /\ UNCHANGED <<trackVars, invalidations, loaderVars, fenceVars, inv, reader, finVars, schema>>

\* current.Wait has returned; staging is registered under t.mu, or refused.
RegisterStaging ==
  LET l == made + 1 IN
  /\ op.at = "register" /\ native[op.cur] = {} /\ load[op.cur] # "loading" /\ TrackFree
  /\ IF retired \/ ctxDone
     THEN op' = NoOp /\ UNCHANGED <<staging, baseline, made, gen>>
     ELSE /\ op' = [op EXCEPT !.at = "launch", !.new = l, !.gen = gen[op.cur] + 1, !.epoch = invalidations]
          /\ staging' = l /\ baseline' = NoBaseline
          /\ made' = l /\ gen' = [gen EXCEPT ![l] = gen[op.cur] + 1]
  /\ UNCHANGED <<loader, retired, ctxDone, maintaining, invalidations, stale, stopped, load, native,
                 since, covers, fenceVars, inv, reader, finVars, schema>>

LaunchStaging ==
  /\ op.at = "launch"
  /\ IF stopped[op.new]
     THEN Goto("discard") /\ UNCHANGED <<load, native, since, covers>>
     ELSE Goto("settle") /\ Start(op.new, op.gen)
  /\ UNCHANGED <<trackVars, invalidations, made, gen, stale, stopped, fenceVars, inv, reader, finVars, schema>>

\* Done closed, or the caller's context ended; a generation that lost a
\* category is discarded.
StagingSettles ==
  /\ op.at = "settle"
  /\ \/ /\ load[op.new] # "loading"
        /\ Goto(IF ~ctxDone /\ (load[op.new] = "ready" \/ load[op.cur] # "ready") THEN "swap" ELSE "discard")
     \/ Goto("discard")
  /\ UNCHANGED <<trackVars, invalidations, loaderVars, fenceVars, inv, reader, finVars, schema>>

\* The swap, under t.mu: whether an Invalidate overtook the load is decided here.
SwapLoader ==
  /\ op.at = "swap" /\ TrackFree
  /\ IF retired \/ ctxDone
     THEN Goto("discard") /\ UNCHANGED <<loader, staging>>
     ELSE /\ loader' = op.new /\ staging' = Nothing
          /\ op' = [op EXCEPT !.at = "fence", !.mark = invalidations # op.epoch]
  /\ UNCHANGED <<retired, ctxDone, baseline, maintaining, invalidations, loaderVars, fenceVars, inv,
                 reader, finVars, schema>>

\* details.beginGeneration, after t.mu was unlocked.
FenceAfterSwap ==
  /\ op.at = "fence" /\ Goto("stopOld")
  /\ dgen' = op.gen /\ dstale' = FALSE
  /\ UNCHANGED <<trackVars, invalidations, loaderVars, inv, reader, finVars, schema>>

\* current.Stop
StopOld ==
  /\ op.at = "stopOld"
  /\ stopped' = [stopped EXCEPT ![op.cur] = TRUE] /\ load' = Halted(op.cur)
  /\ op' = IF op.mark THEN [op EXCEPT !.at = "markNew"] ELSE NoOp
  /\ UNCHANGED <<trackVars, invalidations, made, gen, stale, native, since, covers, fenceVars, inv,
                 reader, finVars, schema>>

\* The trailing MarkStale of a load that an Invalidate overtook.
MarkNewStale ==
  /\ op.at = "markNew" /\ Goto("markDetails")
  /\ IF stopped[op.new]
     THEN UNCHANGED <<stale, load>>
     ELSE stale' = [stale EXCEPT ![op.new] = TRUE] /\ load' = Halted(op.new)
  /\ UNCHANGED <<trackVars, invalidations, made, gen, stopped, native, since, covers, fenceVars, inv,
                 reader, finVars, schema>>

MarkDetailsStale ==
  /\ op.at = "markDetails" /\ op' = NoOp
  /\ dstale' = TRUE
  /\ UNCHANGED <<trackVars, invalidations, loaderVars, dgen, inv, reader, finVars, schema>>

\* discard: Stop and Wait, then the staging loader is forgotten.
DiscardStops ==
  /\ op.at = "discard" /\ Goto("await")
  /\ stopped' = [stopped EXCEPT ![op.new] = TRUE] /\ load' = Halted(op.new)
  /\ UNCHANGED <<trackVars, invalidations, made, gen, stale, native, since, covers, fenceVars, inv,
                 reader, finVars, schema>>

DiscardForgets ==
  /\ op.at = "await" /\ native[op.new] = {} /\ TrackFree
  /\ op' = NoOp /\ staging' = Nothing
  /\ UNCHANGED <<loader, retired, ctxDone, baseline, maintaining, invalidations, loaderVars, fenceVars,
                 inv, reader, finVars, schema>>

-----------------------------------------------------------------------------
(* Maintain.                                                               *)

\* Under t.mu: retirement, then the epoch and the baseline; from here on the
\* finalizer waits for the attempt.
MaintainBegins(check) ==
  /\ "maintain" \in Ops /\ op.at = "idle" /\ TrackFree /\ ~retired /\ ~ctxDone
  /\ gen[loader] < MaxGen /\ made < MaxGen
  /\ op' = [NoOp EXCEPT !.at = "wait", !.cur = loader, !.epoch = invalidations, !.base = baseline, !.full = ~check]
  /\ maintaining' = TRUE
  /\ UNCHANGED <<loader, staging, retired, ctxDone, baseline, invalidations, loaderVars, fenceVars, inv,
                 reader, finVars, schema>>

BaselineValid == op.base.fp # 0 /\ op.base.gen = op.gen /\ op.base.epoch = op.epoch

\* current.Wait has returned: the previous snapshot, whether the baseline holds,
\* and whether an uncertain one may be read at all.
MaintainWaited(scan, explicit) ==
  /\ op.at = "wait" /\ native[op.cur] = {} /\ load[op.cur] # "loading"
  /\ op.full \/ scan
  /\ op' = LET g == gen[op.cur] IN
           IF stale[op.cur] /\ ~(op.full /\ explicit) THEN [op EXCEPT !.at = "leave"]
           ELSE IF scan THEN [op EXCEPT !.at = "scan", !.gen = g]
           ELSE [op EXCEPT !.at = "full", !.gen = g, !.low = schema]
  /\ UNCHANGED <<trackVars, invalidations, loaderVars, fenceVars, inv, reader, finVars, schema>>

\* ReadFingerprint returns; a scan over the limit leaves a full read unwatched.
ScanReturns ==
  /\ op.at = "scan"
  /\ \/ Goto("leave")
     \/ op.full /\ op' = [op EXCEPT !.at = "full", !.low = schema]
     \/ op' = [op EXCEPT !.cand = schema, !.low = schema,
                 !.at = IF op.full \/ ~BaselineValid THEN "full"
                        ELSE IF op.base.fp = schema THEN "unchanged" ELSE "changes"]
  /\ UNCHANGED <<trackVars, invalidations, loaderVars, fenceVars, inv, reader, finVars, schema>>

\* ReadChanges and MergeObjects: what changed since the baseline is replaced in
\* the previous cache, or the delta asks for a full read.
ChangesReturn ==
  /\ op.at = "changes"
  /\ \/ Goto("leave")
     \/ op' = [op EXCEPT !.at = "full", !.low = schema]
     \/ /\ load[op.cur] = "ready"
        /\ op' = [op EXCEPT !.at = "publish",
                    !.low = IF covers[op.cur] >= op.base.fp THEN op.cand ELSE covers[op.cur]]
  /\ UNCHANGED <<trackVars, invalidations, loaderVars, fenceVars, inv, reader, finVars, schema>>

\* Slip: the fingerprint that goes with the cache is the one read after it.
FullReturnsRescanned ==
  /\ op.at = "full"
  /\ \/ Goto("leave")
     \/ op' = [op EXCEPT !.at = "publish", !.cand = IF @ = 0 THEN 0 ELSE schema]
  /\ UNCHANGED <<trackVars, invalidations, loaderVars, fenceVars, inv, reader, finVars, schema>>

\* ReadFull returns a complete cache, or nothing that may be published.
FullReturns ==
  /\ op.at = "full"
  /\ Goto("leave") \/ Goto("publish")
  /\ UNCHANGED <<trackVars, invalidations, loaderVars, fenceVars, inv, reader, finVars, schema>>

\* Slip: an Invalidate during the attempt is not compared.
FenceWithoutEpoch == ~ctxDone /\ ~retired /\ loader = op.cur /\ gen[op.cur] = op.gen

\* maintenanceFence
Fence == ~ctxDone /\ ~retired /\ loader = op.cur /\ gen[op.cur] = op.gen /\ invalidations = op.epoch

MaintainUnchanged ==
  /\ op.at = "unchanged" /\ TrackFree
  /\ Goto("leave")
  /\ UNCHANGED <<trackVars, invalidations, loaderVars, fenceVars, inv, reader, finVars, schema>>

\* The generation of the replacement.
Generation == op.gen + 1

\* Publication under t.mu and details.mu: a settled loader, the detail fence and
\* the baseline change together, or nothing does.
MaintainPublishes ==
  LET l == made + 1 IN
  /\ op.at = "publish" /\ TrackFree /\ Fence
  /\ op' = [op EXCEPT !.at = "retire"]
  /\ loader' = l /\ made' = l
  /\ gen' = [gen EXCEPT ![l] = Generation]
  /\ load' = [load EXCEPT ![l] = "ready"]
  /\ since' = [since EXCEPT ![l] = op.epoch]
  /\ covers' = [covers EXCEPT ![l] = op.low]
  /\ baseline' = IF op.cand = 0 THEN NoBaseline
                 ELSE [fp |-> op.cand, gen |-> Generation, epoch |-> op.epoch]
  /\ dgen' = Generation /\ dstale' = FALSE
  /\ UNCHANGED <<staging, retired, ctxDone, maintaining, invalidations, stale, stopped, native, inv,
                 reader, finVars, schema>>

\* The fence fails, or the attempt's deadline has passed.
MaintainAbandons ==
  /\ op.at = "publish" /\ TrackFree
  /\ Goto("leave")
  /\ UNCHANGED <<trackVars, invalidations, loaderVars, fenceVars, inv, reader, finVars, schema>>

MaintainRetiresOld ==
  /\ op.at = "retire" /\ Goto("leave")
  /\ stopped' = [stopped EXCEPT ![op.cur] = TRUE] /\ load' = Halted(op.cur)
  /\ UNCHANGED <<trackVars, invalidations, made, gen, stale, native, since, covers, fenceVars, inv,
                 reader, finVars, schema>>

\* Slip: the attempt ends without closing maintenanceDone.
MaintainLeavesOpen ==
  /\ op.at = "leave" /\ TrackFree
  /\ op' = NoOp
  /\ UNCHANGED <<trackVars, invalidations, loaderVars, fenceVars, inv, reader, finVars, schema>>

\* The deferred end of the attempt, under t.mu.
MaintainLeaves ==
  /\ op.at = "leave" /\ TrackFree
  /\ op' = NoOp /\ maintaining' = FALSE
  /\ UNCHANGED <<loader, staging, retired, ctxDone, baseline, invalidations, loaderVars, fenceVars, inv,
                 reader, finVars, schema>>

-----------------------------------------------------------------------------
(* Lease.Detail.                                                           *)

Read(r, at, l, g) == reader' = [reader EXCEPT ![r] = [at |-> at, loader |-> l, gen |-> g]]

DetailBegins(r) ==
  /\ reader[r].at = "idle" /\ ~retired
  /\ Read(r, "open", Nothing, 0)
  /\ UNCHANGED <<trackVars, invalidations, loaderVars, fenceVars, op, inv, finVars, schema>>

DetailBinds(r) ==
  /\ reader[r].at = "open" /\ TrackFree
  /\ Read(r, "bound", loader, 0)
  /\ UNCHANGED <<trackVars, invalidations, loaderVars, fenceVars, op, inv, finVars, schema>>

\* waitForCategories and requireCategoriesReady, on one snapshot: stale, or
\* settled without being ready, or the generation to ask the detail store for.
DetailChecks(r) ==
  LET l == reader[r].loader IN
  /\ reader[r].at = "bound" /\ load[l] # "loading"
  /\ IF stale[l] THEN Read(r, "idle", Nothing, 0)
     ELSE IF load[l] = "ready" THEN Read(r, "acquire", l, gen[l])
     ELSE Read(r, "refused", l, gen[l])
  /\ UNCHANGED <<trackVars, invalidations, loaderVars, fenceVars, op, inv, finVars, schema>>

\* Slip: only the generation is fenced.
AcquireUnfenced(r) == reader[r].gen = dgen

\* detailStore.acquire admits the generation in force.
Acquirable(r) == ~dstale /\ reader[r].gen = dgen

DetailAcquires(r) ==
  /\ reader[r].at = "acquire"
  /\ IF Acquirable(r) THEN Read(r, "loading", reader[r].loader, dgen) ELSE Read(r, "idle", Nothing, 0)
  /\ UNCHANGED <<trackVars, invalidations, loaderVars, fenceVars, op, inv, finVars, schema>>

\* The native load returns, or the refusal is handed out.
DetailReturns(r) ==
  /\ reader[r].at \in {"loading", "refused"}
  /\ Read(r, "idle", Nothing, 0)
  /\ UNCHANGED <<trackVars, invalidations, loaderVars, fenceVars, op, inv, finVars, schema>>

DetailWithdraws(r) ==
  /\ reader[r].at = "bound" /\ load[reader[r].loader] = "loading"
  /\ Read(r, "idle", Nothing, 0)
  /\ UNCHANGED <<trackVars, invalidations, loaderVars, fenceVars, op, inv, finVars, schema>>

-----------------------------------------------------------------------------
(* Retirement and the finalizer.                                           *)

\* The last reference, or Registry.Close.
Retire ==
  /\ ~retired
  /\ retired' = TRUE /\ fin' = "cancel"
  /\ UNCHANGED <<loader, staging, ctxDone, baseline, maintaining, invalidations, loaderVars, fenceVars,
                 op, inv, reader, owned, providerClosed, schema>>

FinGoes(from, to) == fin = from /\ fin' = to

FinCancels ==
  /\ FinGoes("cancel", "collect") /\ TrackFree
  /\ ctxDone' = TRUE
  /\ UNCHANGED <<loader, staging, retired, baseline, maintaining, invalidations, loaderVars, fenceVars,
                 op, inv, reader, owned, providerClosed, schema>>

\* Under t.mu, once the context is dead: the loaders to stop.
FinCollects ==
  /\ FinGoes("collect", "await") /\ TrackFree
  /\ owned' = IF staging = Nothing THEN <<loader>> ELSE <<loader, staging>>
  /\ UNCHANGED <<trackVars, invalidations, loaderVars, fenceVars, op, inv, reader, providerClosed, schema>>

\* Slip: a registered maintenance attempt is not waited for.
FinAwaitsNothing ==
  /\ FinGoes("await", "stop")
  /\ UNCHANGED <<trackVars, invalidations, loaderVars, fenceVars, op, inv, reader, owned, providerClosed, schema>>

\* maintenanceDone: none was registered, or it is closed.
FinAwaits ==
  /\ FinGoes("await", "stop") /\ ~maintaining
  /\ UNCHANGED <<trackVars, invalidations, loaderVars, fenceVars, op, inv, reader, owned, providerClosed, schema>>

\* Stop and Wait, loader by loader.
FinStops ==
  /\ FinGoes("stop", "drain")
  /\ stopped' = [stopped EXCEPT ![Head(owned)] = TRUE] /\ load' = Halted(Head(owned))
  /\ UNCHANGED <<trackVars, invalidations, made, gen, stale, native, since, covers, fenceVars, op, inv,
                 reader, owned, providerClosed, schema>>

FinDrains ==
  /\ FinGoes("drain", IF Len(owned) = 1 THEN "fence" ELSE "stop")
  /\ native[Head(owned)] = {}
  /\ owned' = Tail(owned)
  /\ UNCHANGED <<trackVars, invalidations, loaderVars, fenceVars, op, inv, reader, providerClosed, schema>>

FinFences ==
  /\ FinGoes("fence", "details") /\ dstale' = TRUE
  /\ UNCHANGED <<trackVars, invalidations, loaderVars, dgen, op, inv, reader, owned, providerClosed, schema>>

FinDetails ==
  /\ FinGoes("details", "close") /\ \A r \in Readers : reader[r].at # "loading"
  /\ UNCHANGED <<trackVars, invalidations, loaderVars, fenceVars, op, inv, reader, owned, providerClosed, schema>>

FinCloses ==
  /\ FinGoes("close", "done") /\ providerClosed' = TRUE
  /\ UNCHANGED <<trackVars, invalidations, loaderVars, fenceVars, op, inv, reader, owned, schema>>

-----------------------------------------------------------------------------
Loading(l) == LoadSettles(l) \/ LoadCancelled(l) \/ \E g \in Gens : NativeDrains(l, g)

RefreshStep == RefreshDropsBaseline \/ RefreshFences \/ RefreshResets \/ RefreshStarts
BackgroundStep ==
  \/ RegisterStaging \/ LaunchStaging \/ StagingSettles \/ SwapLoader \/ FenceAfterSwap \/ StopOld
  \/ MarkNewStale \/ MarkDetailsStale \/ DiscardStops \/ DiscardForgets
MaintainStep ==
  \/ \E scan, explicit \in BOOLEAN : MaintainWaited(scan, explicit)
  \/ ScanReturns \/ ChangesReturn \/ FullReturns \/ MaintainUnchanged \/ MaintainPublishes
  \/ MaintainAbandons \/ MaintainRetiresOld \/ MaintainLeaves
OpStep == RefreshStep \/ BackgroundStep \/ MaintainStep
DetailStep(r) == DetailBinds(r) \/ DetailChecks(r) \/ DetailAcquires(r) \/ DetailReturns(r)
Finalizer ==
  \/ FinCancels \/ FinCollects \/ FinAwaits \/ FinStops \/ FinDrains \/ FinFences \/ FinDetails \/ FinCloses

Next ==
  \/ \E l \in Loaders : Loading(l)
  \/ SchemaChanges \/ InvalidateBegins \/ InvalidateLoader \/ InvalidateDetails
  \/ RefreshBegins \/ BackgroundBegins \/ (\E check \in BOOLEAN : MaintainBegins(check))
  \/ OpStep \/ GiveUp
  \/ \E r \in Readers : DetailBegins(r) \/ DetailStep(r) \/ DetailWithdraws(r)
  \/ Retire \/ Finalizer

Spec == Init /\ [][Next]_vars

\* Goroutines run and native calls return: the loads, the reads of a maintenance
\* attempt and the detail loads.  Nobody is obliged to begin anything.
FairSpec ==
  /\ Spec
  /\ \A l \in Loaders : WF_vars(Loading(l))
  /\ WF_vars(InvalidateLoader) /\ WF_vars(InvalidateDetails)
  /\ WF_vars(OpStep) /\ WF_vars(Finalizer)
  /\ \A r \in Readers : WF_vars(DetailStep(r))

-----------------------------------------------------------------------------
(* Properties.                                                             *)

Quiet == op.at = "idle" /\ inv # "details" /\ ~retired

\* What the store publishes as fresh was read after every Invalidate: the epoch
\* that Maintain fences and the mark that follows a background swap are enough.
FreshMeansReadAfterInvalidate ==
  Quiet /\ ~stale[loader] /\ load[loader] \in {"loading", "ready"} => since[loader] = invalidations

\* A baseline that will be trusted describes a schema all of whose changes are in
\* the published cache, so a check that finds the same fingerprint again, or
\* reads only what differs from it, misses no change (Maintain scans first).
BaselineCovered ==
  /\ baseline.fp # 0 /\ baseline.gen = gen[loader] /\ baseline.epoch = invalidations => baseline.fp <= covers[loader]
  /\ op.at = "unchanged" => op.cand <= covers[op.cur]

\* What is published as fresh was read after every Invalidate (Maintain's epoch
\* fence, the mark after a background swap), and a baseline that will be trusted
\* describes a schema all of whose changes are in the published cache.
FreshAndCovered == FreshMeansReadAfterInvalidate /\ BaselineCovered

\* The detail store follows the published generation, whichever operation
\* replaced it (Refresh, RefreshInBackground, Maintain): no detail is fenced by a
\* generation nobody can ask for.
DetailsFollow == Quiet => dgen = gen[loader]

Native == \/ \E l \in Loaders : native[l] # {}
          \/ op.at \in ReadingAt

\* The provider is closed under no category job and no maintenance read: whatever
\* replaces the loader while the finalizer runs is stopped, drained or refused.
DrainBeforeClose == providerClosed => ~Native

\* No detail load runs on a closed provider (finalizeTrack, Registry.Close) when
\* Refresh and Maintain are what replaces the loader; a RefreshInBackground that has
\* swapped before the retirement can reopen the detail store after its drain.
NoDetailAfterClose == providerClosed => \A r \in DOMAIN reader : reader[r].at # "loading"

\* Nothing native outlives the provider, and no detail load does where the server's
\* operations are the only ones (finalizeTrack, detailStore.wait).
Drained == DrainBeforeClose /\ ("background" \notin Ops => NoDetailAfterClose)

\* A retired store is finalized, whatever operation it interrupts.
RetiredIsFinalized == retired ~> providerClosed

=============================================================================
