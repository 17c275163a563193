------------------------- MODULE MetadataStore_proofs -------------------------
(***************************************************************************)
(* Proofs about one store, for any generations, versions of the schema,    *)
(* invalidations and readers, whichever replacing operations are used:     *)
(* what is published as fresh was read after every Invalidate, a trusted   *)
(* baseline misses nothing, details follow the generation, and nothing     *)
(* native outlives the provider.                                           *)
(***************************************************************************)
EXTENDS MetadataStore, SequenceTheorems, TLAPS

-----------------------------------------------------------------------------
(* The inductive invariant.                                                *)

Baselines == [fp : 0..MaxSchema, gen : 0..MaxGen, epoch : 0..MaxInvalidations]
Operations == [at : OpAt, cur : 0..MaxGen, new : 0..MaxGen, gen : 0..MaxGen, epoch : 0..MaxInvalidations,
               base : Baselines, cand : 0..MaxSchema, low : 0..MaxSchema, full : BOOLEAN, mark : BOOLEAN]

\* Where an operation stands: with the published loader, with a staging one beside it,
\* after the swap, or reading for a replacement.
Staged == {"launch", "settle", "swap", "discard", "await"}
Swapped == {"fence", "stopOld", "markNew", "markDetails"}
Watching == {"scan", "changes", "full", "unchanged", "publish"}
Current == {"renew", "reset", "restart", "register", "wait"} \union Staged \union Watching
Maintaining == {"wait", "retire", "leave"} \union Watching

\* The retirement goes with the finalizer, and the registration of a maintenance attempt
\* with the attempt: none begins on a dead context.
FinPast == {"stop", "drain", "fence", "details", "close", "done"}
Retirement ==
  /\ fin = "none" <=> ~retired
  /\ ctxDone <=> fin \notin {"none", "cancel"}
  /\ providerClosed <=> fin = "done"
  /\ maintaining <=> op.at \in Maintaining
  /\ fin \in FinPast => ~maintaining
  /\ inv = "asked" => invalidations < MaxInvalidations

\* Which loaders an operation works on; only the operation that holds refreshMu moves
\* them and their generations.
Places ==
  /\ loader <= made /\ staging <= made /\ gen[loader] # 0
  /\ \A l \in Loaders : l > made => native[l] = {} /\ ~stopped[l]
  /\ op.at # "idle" /\ op.at # "begin" => op.cur # 0
  /\ op.at \in Current => op.cur = loader
  /\ op.at \in Staged => staging = op.new /\ op.new # 0 /\ op.new # loader /\ gen[op.new] = op.gen
  /\ op.at \notin Staged => staging = 0
  /\ op.at \in Swapped => loader = op.new /\ op.cur # loader /\ gen[loader] = op.gen
  /\ op.at \in Staged \union Swapped => op.gen # 0
  /\ op.at = "retire" => op.cur # loader
  /\ op.at \in Swapped \union {"retire"} => op.cur <= made
  /\ op.at = "begin" => gen[loader] < MaxGen
  /\ op.at \in {"renew", "reset"} => op.gen = gen[op.cur] + 1
  /\ op.at = "restart" => stopped[op.cur] \/ op.gen = gen[op.cur]
  /\ op.at \in {"register", "wait"} \union Watching => gen[op.cur] < MaxGen /\ made < MaxGen
  /\ op.at \in Watching => op.gen = gen[op.cur]

\* Native work runs for the published loader and the staging one only: who replaces a
\* loader has waited for it.  Only a retired store's published loader is stopped.
Running ==
  /\ \A l \in Loaders : native[l] # {} => l = loader \/ l = staging
  /\ op.at \in {"launch", "settle", "swap"} \union Watching => native[op.cur] = {}
  /\ stopped[loader] => retired
  /\ op.at \in {"launch", "settle", "swap"} /\ stopped[op.new] => retired

\* The finalizer holds every loader that may still have native work.
Held(l) == \E n \in 1..Len(owned) : owned[n] = l
Finalizing ==
  /\ fin \in {"await", "stop", "drain"} => Len(owned) \in 1..2 /\ (stopped[loader] \/ Held(loader))
  /\ fin \in {"await", "stop", "drain"} => \A n \in 1..Len(owned) : owned[n] <= made
  /\ fin = "drain" => stopped[owned[1]]
  /\ fin \in {"await", "stop", "drain"} => \A l \in Loaders : native[l] # {} => Held(l)
  /\ fin \in {"fence", "details", "close", "done"} => stopped[loader] /\ \A l \in Loaders : native[l] = {}

\* What is not marked stale was read after the last Invalidate, but for the time between
\* a swap and its trailing mark.
MarkFollows == op.at \in {"fence", "stopOld", "markNew"} /\ op.mark
Fresh ==
  /\ \A l \in Loaders : since[l] <= invalidations
  /\ ~retired /\ ~stale[loader] /\ load[loader] \in {"loading", "ready"} /\ ~MarkFollows => since[loader] = invalidations
  /\ op.at = "restart" /\ ~retired => load[loader] \notin {"loading", "ready"}
  /\ op.epoch <= invalidations
  /\ op.at \in {"settle", "swap"} => op.epoch <= since[op.new]

\* A fingerprint is never ahead of what the cache it goes with was read from.
Covered ==
  /\ \A l \in Loaders : covers[l] <= schema
  /\ baseline.fp <= covers[loader]
  /\ op.at \in {"renew", "reset", "restart"} \union Staged => baseline = NoBaseline
  /\ op.at \in {"wait"} \union Watching => op.base = baseline
  /\ op.cand <= schema /\ op.low <= schema
  /\ op.at \in {"full", "publish"} => op.cand <= op.low
  /\ op.at = "unchanged" => op.cand <= covers[op.cur]

\* The fence of the details is the generation published, but between two steps of the
\* operation that replaces it.
DetailFence ==
  ~retired => /\ op.at \notin {"reset", "fence"} => dgen = gen[loader]
              /\ op.at = "reset" => dgen = op.gen

\* Without RefreshInBackground nothing reopens the detail store of a finalized store: a
\* Refresh that the retirement interrupted leaves it at a generation nobody has seen.
Unseen ==
  /\ \A r \in Readers : reader[r].at = "bound" => reader[r].loader # 0
  /\ "background" \notin Ops =>
       /\ op.at \notin {"register"} \union Staged \union Swapped
       /\ \A l \in Loaders : gen[l] <= gen[loader]
       /\ \A r \in Readers : reader[r].gen <= gen[loader]
       /\ fin \in {"details", "close", "done"} => dstale \/ gen[loader] < dgen
       /\ fin \in {"close", "done"} => \A r \in Readers : reader[r].at # "loading"

SInv ==
  /\ TypeOK /\ op \in Operations
  /\ Retirement /\ Places /\ Running /\ Finalizing /\ Fresh /\ Covered /\ DetailFence /\ Unseen

-----------------------------------------------------------------------------
(* Types.                                                                  *)

\* An operation goes on without changing what it works on.
LEMMA OpMoves ==
  ASSUME NEW o \in Operations, NEW at \in OpAt
  PROVE  /\ [o EXCEPT !.at = at] \in Operations
         /\ [o EXCEPT !.at = at].at = at /\ [o EXCEPT !.at = at].cur = o.cur /\ [o EXCEPT !.at = at].new = o.new
         /\ [o EXCEPT !.at = at].gen = o.gen /\ [o EXCEPT !.at = at].epoch = o.epoch /\ [o EXCEPT !.at = at].base = o.base
         /\ [o EXCEPT !.at = at].cand = o.cand /\ [o EXCEPT !.at = at].low = o.low /\ [o EXCEPT !.at = at].full = o.full
         /\ [o EXCEPT !.at = at].mark = o.mark
  BY DEF Operations

\* What an operation that only moves on leaves as it is.
SameWork == /\ op'.cur = op.cur /\ op'.new = op.new /\ op'.gen = op.gen /\ op'.epoch = op.epoch /\ op'.base = op.base
            /\ op'.cand = op.cand /\ op'.low = op.low /\ op'.full = op.full /\ op'.mark = op.mark

\* Goto is such a move.
LEMMA GotoMoves ==
  ASSUME op \in Operations, NEW at \in OpAt, Goto(at)
  PROVE  op' \in Operations /\ op'.at = at /\ SameWork
  BY OpMoves DEF Goto, SameWork

\* An operation that has ended, or not begun, works on nothing.
LEMMA NoOpTyped ==
  /\ NoOp \in Operations /\ NoOp.at = "idle" /\ NoOp.cur = 0 /\ NoOp.new = 0 /\ NoOp.gen = 0 /\ NoOp.epoch = 0
  /\ NoOp.base = NoBaseline /\ NoOp.cand = 0 /\ NoOp.low = 0 /\ NoOp.full = FALSE /\ NoOp.mark = FALSE
  /\ NoBaseline \in Baselines /\ NoBaseline.fp = 0
<1>1. MaxGen \in Nat /\ MaxSchema \in Nat /\ MaxInvalidations \in Nat
  BY StoreAssumption
<1>2. NoBaseline \in Baselines /\ NoBaseline.fp = 0
  BY <1>1 DEF NoBaseline, Baselines
<1>3. "idle" \in OpAt
  BY DEF OpAt
<1> QED
  BY <1>1, <1>2, <1>3 DEF NoOp, Operations, Nothing

\* What is what.
LEMMA StoreTyped ==
  ASSUME TypeOK, op \in Operations
  PROVE  /\ MaxGen \in Nat \ {0} /\ MaxSchema \in Nat \ {0} /\ MaxInvalidations \in Nat /\ Loaders = 1..MaxGen
         /\ loader \in Loaders /\ staging \in 0..MaxGen /\ made \in Loaders
         /\ gen \in [Loaders -> 0..MaxGen] /\ native \in [Loaders -> SUBSET Gens]
         /\ since \in [Loaders -> 0..MaxInvalidations] /\ covers \in [Loaders -> 0..MaxSchema]
         /\ stale \in [Loaders -> BOOLEAN] /\ stopped \in [Loaders -> BOOLEAN]
         /\ load \in [Loaders -> {"none", "loading", "ready", "failed", "cancelled"}]
         /\ baseline \in Baselines /\ baseline.fp \in 0..MaxSchema
         /\ invalidations \in 0..MaxInvalidations /\ schema \in 1..MaxSchema /\ dgen \in Gens
         /\ op.at \in OpAt /\ op.cur \in 0..MaxGen /\ op.new \in 0..MaxGen /\ op.gen \in 0..MaxGen
         /\ op.epoch \in 0..MaxInvalidations /\ op.cand \in 0..MaxSchema /\ op.low \in 0..MaxSchema
         /\ op.base \in Baselines /\ op.base.fp \in 0..MaxSchema /\ op.full \in BOOLEAN /\ op.mark \in BOOLEAN
<1>1. op.base \in Baselines /\ op.at \in OpAt /\ op.cur \in 0..MaxGen /\ op.new \in 0..MaxGen /\ op.gen \in 0..MaxGen
      /\ op.epoch \in 0..MaxInvalidations /\ op.cand \in 0..MaxSchema /\ op.low \in 0..MaxSchema
      /\ op.full \in BOOLEAN /\ op.mark \in BOOLEAN
  BY DEF Operations
<1>2. baseline \in Baselines
  BY DEF TypeOK, Baselines
<1>3. op.base.fp \in 0..MaxSchema /\ baseline.fp \in 0..MaxSchema
  BY <1>1, <1>2 DEF Baselines
<1> QED
  BY <1>1, <1>2, <1>3, StoreAssumption DEF TypeOK, Loaders

\* A load that is halted is not loading; the others stay as they are.
LEMMA HaltedLoads ==
  ASSUME TypeOK, NEW l \in Loaders
  PROVE  /\ Halted(l) \in [Loaders -> {"none", "loading", "ready", "failed", "cancelled"}]
         /\ \A k \in Loaders : Halted(l)[k] \in {"loading", "ready"} => load[k] = Halted(l)[k]
  BY DEF TypeOK, Halted

-----------------------------------------------------------------------------
(* A store begins with a load of its first generation.                     *)

\* Nothing has replaced the first loader.
LEMMA InitInv == Init => SInv
<1> SUFFICES ASSUME Init PROVE SInv
  OBVIOUS
<1>0. MaxGen \in Nat \ {0} /\ MaxSchema \in Nat \ {0} /\ MaxInvalidations \in Nat /\ 1 \in Loaders /\ 1 \in Gens /\ Loaders = 1..MaxGen
  BY StoreAssumption DEF Loaders, Gens
<1>1. gen \in [Loaders -> 0..MaxGen] /\ stale \in [Loaders -> BOOLEAN] /\ stopped \in [Loaders -> BOOLEAN]
      /\ load \in [Loaders -> {"none", "loading", "ready", "failed", "cancelled"}]
      /\ native \in [Loaders -> SUBSET Gens]
      /\ since \in [Loaders -> 0..MaxInvalidations] /\ covers \in [Loaders -> 0..MaxSchema]
  BY <1>0 DEF Init
<1>2. reader \in [Readers -> [at : {"idle", "open", "bound", "refused", "acquire", "loading"}, loader : 0..MaxGen, gen : 0..MaxGen]]
  BY <1>0 DEF Init, Nothing
<1>3. op \in Operations /\ op.at = "idle" /\ op.at \in OpAt /\ baseline \in Baselines /\ baseline.fp = 0 /\ op = NoOp
  BY NoOpTyped DEF Init, OpAt
<1>4. retired \in BOOLEAN /\ ctxDone \in BOOLEAN /\ maintaining \in BOOLEAN /\ dstale \in BOOLEAN /\ providerClosed \in BOOLEAN
  BY DEF Init
<1>5. owned \in Seq(Loaders) /\ fin \in FinAt
  BY DEF Init, FinAt
<1>6. TypeOK
  BY <1>0, <1>1, <1>2, <1>3, <1>4, <1>5 DEF Init, TypeOK, Baselines, Nothing
<1>7. Retirement
  BY <1>3 DEF Init, Retirement, FinPast, Maintaining, Watching
<1>8. Places
  BY <1>0, <1>3 DEF Init, Places, Current, Staged, Swapped, Watching, Nothing
<1>9. Running /\ Finalizing
  BY <1>0, <1>3 DEF Init, Running, Watching, Finalizing
<1>10. Fresh /\ Covered
  BY <1>0, <1>3, NoOpTyped DEF Init, Fresh, MarkFollows, Covered, Staged, Watching
<1>11. DetailFence /\ Unseen
  BY <1>0, <1>3 DEF Init, DetailFence, Unseen, Staged, Swapped
<1> QED
  BY <1>3, <1>6, <1>7, <1>8, <1>9, <1>10, <1>11 DEF SInv

-----------------------------------------------------------------------------
(* Loads, the database and Invalidate.                                     *)

\* A step that leaves the operation and the loaders' identities alone, lets loads end,
\* and makes nothing fresh that was stale, keeps the invariant.
LEMMA FadingInv ==
  ASSUME SInv,
         UNCHANGED <<trackVars, invalidations, made, gen, stopped, since, covers, dgen, op, reader, finVars>>,
         native' \in [Loaders -> SUBSET Gens], \A l \in Loaders : native'[l] \subseteq native[l],
         load' \in [Loaders -> {"none", "loading", "ready", "failed", "cancelled"}],
         \A l \in Loaders : load'[l] \in {"loading", "ready"} => load[l] \in {"loading", "ready"},
         stale' = stale, dstale' \in BOOLEAN, dstale => dstale',
         inv' \in {"idle", "asked", "details"}, inv' = "asked" => invalidations < MaxInvalidations,
         schema' \in 1..MaxSchema, schema' >= schema
  PROVE  SInv'
<1>1. UNCHANGED <<loader, staging, retired, ctxDone, baseline, maintaining, fin, owned, providerClosed>>
  BY DEF trackVars, finVars
<1>2. TypeOK' /\ (op \in Operations)'
  BY <1>1 DEF SInv, TypeOK
<1>3. Retirement' /\ Places'
  BY <1>1 DEF SInv, Retirement, Places, TypeOK
<1>0. TypeOK /\ op \in Operations
  BY DEF SInv
<1>4. Running' /\ Finalizing'
  <2>1. op.cur \in 0..MaxGen /\ (op.at # "idle" /\ op.at # "begin" => op.cur # 0) /\ Loaders = 1..MaxGen /\ MaxGen \in Nat
    BY <1>0, StoreTyped DEF SInv, Places
  <2>2. op.at \in {"launch", "settle", "swap"} \union Watching => op.cur \in Loaders
    BY <2>1 DEF Watching
  <2>3. \A l \in Loaders : native'[l] # {} => native[l] # {}
    OBVIOUS
  <2>4. \A l \in Loaders : native[l] = {} => native'[l] = {}
    OBVIOUS
  <2>5. Running'
    BY <1>1, <2>2, <2>3, <2>4 DEF SInv, Running
  <2>6. Finalizing'
    BY <1>1, <2>3, <2>4 DEF SInv, Finalizing, Held
  <2> QED
    BY <2>5, <2>6
<1>5. Fresh'
  BY <1>1 DEF SInv, Fresh, MarkFollows, TypeOK
<1>6. Covered'
  <2>0. /\ schema \in Nat /\ schema' \in Nat /\ op.cand \in Nat /\ op.low \in Nat /\ schema <= schema'
        /\ \A l \in Loaders : covers[l] \in Nat
    <3>1. MaxSchema \in Nat /\ schema \in 1..MaxSchema /\ op.cand \in 0..MaxSchema /\ op.low \in 0..MaxSchema
      BY <1>0, StoreTyped
    <3>2. \A l \in Loaders : covers[l] \in 0..MaxSchema
      BY <1>0, StoreTyped
    <3> QED
      BY <3>1, <3>2
  <2>1. \A l \in Loaders : covers[l] <= schema'
    BY <2>0 DEF SInv, Covered
  <2>2. op.cand <= schema' /\ op.low <= schema'
    BY <2>0 DEF SInv, Covered
  <2> QED
    BY <1>1, <2>1, <2>2 DEF SInv, Covered
<1>7. DetailFence' /\ Unseen'
  BY <1>1 DEF SInv, DetailFence, Unseen
<1> QED
  BY <1>2, <1>3, <1>4, <1>5, <1>6, <1>7 DEF SInv

\* Loads settle, are cancelled and drain.
LEMMA LoadingInv ==
  ASSUME SInv, NEW l \in Loaders, Loading(l)
  PROVE  SInv'
<1>1. UNCHANGED <<trackVars, invalidations, made, gen, stale, stopped, since, covers, dgen, dstale, op, inv, reader, finVars, schema>>
  BY DEF Loading, LoadSettles, LoadCancelled, NativeDrains, fenceVars
<1>2. TypeOK /\ op \in Operations /\ load \in [Loaders -> {"none", "loading", "ready", "failed", "cancelled"}]
      /\ native \in [Loaders -> SUBSET Gens]
  BY DEF SInv, TypeOK
<1>3. /\ native' \in [Loaders -> SUBSET Gens] /\ \A k \in Loaders : native'[k] \subseteq native[k]
  BY <1>2 DEF Loading, LoadSettles, LoadCancelled, NativeDrains
<1>4. /\ load' \in [Loaders -> {"none", "loading", "ready", "failed", "cancelled"}]
      /\ \A k \in Loaders : load'[k] \in {"loading", "ready"} => load[k] \in {"loading", "ready"}
  BY <1>2, HaltedLoads DEF Loading, LoadSettles, LoadCancelled, NativeDrains
<1>5. schema' \in 1..MaxSchema /\ schema' >= schema /\ dstale' \in BOOLEAN /\ inv' \in {"idle", "asked", "details"}
      /\ (inv' = "asked" => invalidations < MaxInvalidations) /\ (dstale => dstale')
  BY <1>1, <1>2, StoreTyped DEF SInv, TypeOK, Retirement
<1> QED
  BY <1>1, <1>3, <1>4, <1>5, FadingInv

\* The schema changes; Invalidate is asked for, and ends at the detail store.
LEMMA OutsideInv ==
  ASSUME SInv, SchemaChanges \/ InvalidateBegins \/ InvalidateDetails
  PROVE  SInv'
<1>1. UNCHANGED <<trackVars, invalidations, made, gen, stale, stopped, load, native, since, covers, dgen, op, reader, finVars>>
  BY DEF SchemaChanges, InvalidateBegins, InvalidateDetails, fenceVars, loaderVars
<1>2. TypeOK /\ op \in Operations /\ load \in [Loaders -> {"none", "loading", "ready", "failed", "cancelled"}]
      /\ native \in [Loaders -> SUBSET Gens] /\ dstale \in BOOLEAN
  BY DEF SInv, TypeOK
<1>3. dstale' \in BOOLEAN /\ (dstale => dstale')
  BY <1>2 DEF SchemaChanges, InvalidateBegins, InvalidateDetails, fenceVars
<1>4. inv' \in {"idle", "asked", "details"} /\ (inv' = "asked" => invalidations < MaxInvalidations)
  BY DEF SchemaChanges, InvalidateBegins, InvalidateDetails, SInv, TypeOK, Retirement
<1>5. schema' \in 1..MaxSchema /\ schema' >= schema
  <2>1. schema \in 1..MaxSchema /\ MaxSchema \in Nat
    BY <1>2, StoreTyped
  <2>2. schema' = schema \/ (schema < MaxSchema /\ schema' = schema + 1)
    BY DEF SchemaChanges, InvalidateBegins, InvalidateDetails
  <2> QED
    BY <2>1, <2>2
<1> QED
  BY <1>1, <1>2, <1>3, <1>4, <1>5, FadingInv

\* Invalidate marks the published loader stale with the counter, under t.mu.
LEMMA InvalidateLoaderInv ==
  ASSUME SInv, InvalidateLoader
  PROVE  SInv'
<1>1. /\ UNCHANGED <<loader, staging, retired, ctxDone, baseline, maintaining, made, gen, stopped, native, since, covers,
                     dgen, dstale, op, reader, fin, owned, providerClosed, schema>>
      /\ inv = "asked" /\ inv' = "details" /\ invalidations' = invalidations + 1
  BY DEF InvalidateLoader, trackVars, fenceVars, finVars
<1>2. TypeOK /\ op \in Operations
  BY DEF SInv
<1>3. \/ stopped[loader] /\ UNCHANGED <<stale, load>>
      \/ ~stopped[loader] /\ stale' = [stale EXCEPT ![loader] = TRUE] /\ load' = Halted(loader)
  BY DEF InvalidateLoader
<1>4. /\ stale' \in [Loaders -> BOOLEAN] /\ load' \in [Loaders -> {"none", "loading", "ready", "failed", "cancelled"}]
      /\ ~retired => stale'[loader]
      /\ load'[loader] \in {"loading", "ready"} => load[loader] \in {"loading", "ready"}
  <2>1. CASE stopped[loader] /\ UNCHANGED <<stale, load>>
    BY <1>2, <2>1 DEF SInv, Running, TypeOK
  <2>2. CASE stale' = [stale EXCEPT ![loader] = TRUE] /\ load' = Halted(loader)
    <3>1. stale' \in [Loaders -> BOOLEAN] /\ stale'[loader]
      BY <1>2, <2>2, StoreTyped
    <3> QED
      BY <1>2, <2>2, <3>1, StoreTyped, HaltedLoads
  <2> QED
    BY <1>3, <2>1, <2>2
<1>5. invalidations' \in 0..MaxInvalidations
  <2>1. invalidations \in 0..MaxInvalidations /\ MaxInvalidations \in Nat
    BY <1>2, StoreTyped
  <2>2. invalidations < MaxInvalidations
    BY <1>1 DEF SInv, Retirement
  <2> QED
    BY <1>1, <2>1, <2>2
<1>6. TypeOK' /\ (op \in Operations)'
  BY <1>1, <1>4, <1>5 DEF SInv, TypeOK
<1>7. Retirement' /\ Places'
  BY <1>1 DEF SInv, Retirement, Places
<1>8. Running' /\ Finalizing'
  BY <1>1 DEF SInv, Running, Finalizing, Held
<1>9. Fresh'
  <2>1. /\ invalidations \in 0..MaxInvalidations /\ op.epoch \in 0..MaxInvalidations /\ MaxInvalidations \in Nat
        /\ \A l \in Loaders : since[l] \in 0..MaxInvalidations
    BY <1>2, StoreTyped
  <2>2. op.epoch <= invalidations /\ \A l \in Loaders : since[l] <= invalidations
    BY DEF SInv, Fresh
  <2>3. \A l \in Loaders : since[l] <= invalidations'
    BY <1>1, <2>1, <2>2
  <2>4. op.epoch <= invalidations'
    BY <1>1, <2>1, <2>2
  <2> QED
    BY <1>1, <1>4, <2>3, <2>4 DEF SInv, Fresh
<1>10. Covered' /\ DetailFence' /\ Unseen'
  BY <1>1 DEF SInv, Covered, DetailFence, Unseen
<1> QED
  BY <1>6, <1>7, <1>8, <1>9, <1>10 DEF SInv

-----------------------------------------------------------------------------
(* Steps that change nothing but the operation.                            *)

\* What the invariant asks of an operation, given the rest of the store.
FitsRetirement(o) == maintaining <=> o.at \in Maintaining
FitsPlaces(o) ==
  /\ o.at # "idle" /\ o.at # "begin" => o.cur # 0
  /\ o.at \in Current => o.cur = loader
  /\ o.at \in Staged => staging = o.new /\ o.new # 0 /\ o.new # loader /\ gen[o.new] = o.gen
  /\ o.at \notin Staged => staging = 0
  /\ o.at \in Swapped => loader = o.new /\ o.cur # loader /\ gen[loader] = o.gen
  /\ o.at \in Staged \union Swapped => o.gen # 0
  /\ o.at = "retire" => o.cur # loader
  /\ o.at \in Swapped \union {"retire"} => o.cur <= made
  /\ o.at = "begin" => gen[loader] < MaxGen
  /\ o.at \in {"renew", "reset"} => o.gen = gen[o.cur] + 1
  /\ o.at = "restart" => stopped[o.cur] \/ o.gen = gen[o.cur]
  /\ o.at \in {"register", "wait"} \union Watching => gen[o.cur] < MaxGen /\ made < MaxGen
  /\ o.at \in Watching => o.gen = gen[o.cur]
FitsRunning(o) ==
  /\ o.at \in {"launch", "settle", "swap"} \union Watching => native[o.cur] = {}
  /\ o.at \in {"launch", "settle", "swap"} /\ stopped[o.new] => retired
FitsFresh(o) ==
  /\ ~retired /\ ~stale[loader] /\ load[loader] \in {"loading", "ready"} /\ ~(o.at \in {"fence", "stopOld", "markNew"} /\ o.mark)
       => since[loader] = invalidations
  /\ o.at = "restart" /\ ~retired => load[loader] \notin {"loading", "ready"}
  /\ o.epoch <= invalidations
  /\ o.at \in {"settle", "swap"} => o.epoch <= since[o.new]
FitsCovered(o) ==
  /\ o.at \in {"renew", "reset", "restart"} \union Staged => baseline = NoBaseline
  /\ o.at \in {"wait"} \union Watching => o.base = baseline
  /\ o.cand <= schema /\ o.low <= schema
  /\ o.at \in {"full", "publish"} => o.cand <= o.low
  /\ o.at = "unchanged" => o.cand <= covers[o.cur]
FitsFence(o) ==
  /\ ~retired => /\ o.at \notin {"reset", "fence"} => dgen = gen[loader]
                 /\ o.at = "reset" => dgen = o.gen
  /\ "background" \notin Ops => o.at \notin {"register"} \union Staged \union Swapped

\* A store whose operation becomes one that fits keeps the invariant.
LEMMA OpOnly ==
  ASSUME SInv, UNCHANGED <<trackVars, invalidations, loaderVars, fenceVars, inv, reader, finVars, schema>>,
         NEW o \in Operations, op' = o,
         FitsRetirement(o), FitsPlaces(o), FitsRunning(o), FitsFresh(o), FitsCovered(o), FitsFence(o)
  PROVE  SInv'
<1>1. UNCHANGED <<loader, staging, retired, ctxDone, baseline, maintaining, invalidations, made, gen, stale, stopped,
                  load, native, since, covers, dgen, dstale, inv, reader, fin, owned, providerClosed, schema>>
  BY DEF trackVars, loaderVars, fenceVars, finVars
<1>2. TypeOK' /\ (op \in Operations)'
  BY <1>1 DEF SInv, TypeOK, Operations
<1>3. Retirement'
  BY <1>1 DEF SInv, Retirement, FitsRetirement
<1>4. Places'
  BY <1>1 DEF SInv, Places, FitsPlaces
<1>5. Running'
  BY <1>1 DEF SInv, Running, FitsRunning
<1>6. Finalizing'
  BY <1>1 DEF SInv, Finalizing, Held
<1>7. Fresh'
  BY <1>1 DEF SInv, Fresh, MarkFollows, FitsFresh
<1>8. Covered'
  BY <1>1 DEF SInv, Covered, FitsCovered
<1>9. DetailFence' /\ Unseen'
  BY <1>1 DEF SInv, DetailFence, Unseen, FitsFence
<1> QED
  BY <1>2, <1>3, <1>4, <1>5, <1>6, <1>7, <1>8, <1>9 DEF SInv

\* An operation that has ended, beside no staging loader and outside its critical
\* stretches, fits.
LEMMA NoOpFits ==
  ASSUME SInv, op.at \notin Staged, op.at \notin Maintaining, op.at \notin {"reset", "fence", "stopOld", "markNew"}
  PROVE  /\ NoOp \in Operations /\ FitsRetirement(NoOp) /\ FitsPlaces(NoOp) /\ FitsRunning(NoOp)
         /\ FitsFresh(NoOp) /\ FitsCovered(NoOp) /\ FitsFence(NoOp)
<1>1. NoOp \in Operations /\ NoOp.at = "idle" /\ NoOp.epoch = 0 /\ NoOp.cand = 0 /\ NoOp.low = 0 /\ NoOp.mark = FALSE
  BY NoOpTyped
<1>2. "idle" \notin Maintaining /\ "idle" \notin Staged /\ "idle" \notin Swapped /\ "idle" \notin Watching /\ "idle" \notin Current
  BY DEF Maintaining, Staged, Swapped, Watching, Current
<1>3. FitsRetirement(NoOp)
  BY <1>1, <1>2 DEF SInv, Retirement, FitsRetirement
<1>4. FitsPlaces(NoOp)
  BY <1>1, <1>2 DEF SInv, Places, FitsPlaces
<1>5. FitsRunning(NoOp)
  BY <1>1, <1>2 DEF FitsRunning
<1>6. invalidations \in 0..MaxInvalidations /\ schema \in 1..MaxSchema /\ MaxInvalidations \in Nat /\ MaxSchema \in Nat
  BY StoreTyped DEF SInv
<1>7. 0 <= invalidations /\ 0 <= schema
  BY <1>6
<1>8. FitsFresh(NoOp)
  BY <1>1, <1>7 DEF SInv, Fresh, MarkFollows, FitsFresh
<1>9. FitsCovered(NoOp)
  BY <1>1, <1>2, <1>7 DEF FitsCovered
<1>10. FitsFence(NoOp)
  BY <1>1, <1>2 DEF SInv, DetailFence, FitsFence
<1> QED
  BY <1>1, <1>3, <1>4, <1>5, <1>8, <1>9, <1>10

\* Refresh begins where a generation is left.
LEMMA RefreshBeginsInv ==
  ASSUME SInv, RefreshBegins
  PROVE  SInv'
<1>1. TypeOK /\ op \in Operations /\ op.at = "idle" /\ gen[loader] < MaxGen
  BY DEF SInv, RefreshBegins
<1>2. PICK o : o = op'
  OBVIOUS
<1>3. o \in Operations /\ o.at = "begin" /\ o.epoch = op.epoch /\ o.cand = op.cand /\ o.low = op.low /\ o.mark = op.mark
  BY <1>1, <1>2, GotoMoves DEF RefreshBegins, SameWork, OpAt
<1>4. "begin" \notin Maintaining /\ "begin" \notin Staged /\ "begin" \notin Swapped /\ "begin" \notin Watching /\ "begin" \notin Current
  BY DEF Maintaining, Staged, Swapped, Watching, Current
<1>5. op.at \notin Maintaining /\ op.at \notin Staged
  BY <1>1 DEF Maintaining, Staged, Watching
<1>6. FitsRetirement(o)
  BY <1>3, <1>4, <1>5 DEF SInv, Retirement, FitsRetirement
<1>7. FitsPlaces(o)
  BY <1>1, <1>3, <1>4, <1>5 DEF SInv, Places, FitsPlaces
<1>8. FitsRunning(o) /\ FitsCovered(o)
  BY <1>3, <1>4 DEF SInv, FitsRunning, Covered, FitsCovered
<1>9. FitsFresh(o) /\ FitsFence(o)
  BY <1>1, <1>3, <1>4 DEF SInv, Fresh, MarkFollows, FitsFresh, DetailFence, FitsFence
<1> QED
  BY <1>2, <1>3, <1>6, <1>7, <1>8, <1>9, OpOnly DEF RefreshBegins

\* RefreshInBackground begins with the published loader.
LEMMA BackgroundBeginsInv ==
  ASSUME SInv, BackgroundBegins
  PROVE  SInv'
<1>1. TypeOK /\ op \in Operations /\ op.at = "idle" /\ gen[loader] < MaxGen /\ made < MaxGen /\ "background" \in Ops
  BY DEF SInv, BackgroundBegins
<1>2. PICK o : o = op'
  OBVIOUS
<1>3. loader \in 1..MaxGen /\ MaxGen \in Nat
  BY <1>1, StoreTyped
<1>4. o \in Operations /\ o.at = "register" /\ o.cur = loader /\ o.epoch = 0 /\ o.cand = 0 /\ o.low = 0 /\ o.mark = FALSE
  <2>1. loader \in 0..MaxGen /\ "register" \in OpAt
    BY <1>3 DEF OpAt
  <2>2. o = [NoOp EXCEPT !.at = "register", !.cur = loader]
    BY <1>2 DEF BackgroundBegins
  <2> QED
    BY <2>1, <2>2, NoOpTyped DEF Operations
<1>5. "register" \notin Maintaining /\ "register" \notin Staged /\ "register" \notin Swapped /\ "register" \notin Watching
  BY DEF Maintaining, Staged, Swapped, Watching
<1>6. op.at \notin Maintaining /\ op.at \notin Staged
  BY <1>1 DEF Maintaining, Staged, Watching
<1>7. FitsRetirement(o)
  BY <1>4, <1>5, <1>6 DEF SInv, Retirement, FitsRetirement
<1>8. FitsPlaces(o)
  BY <1>1, <1>3, <1>4, <1>5, <1>6 DEF SInv, Places, FitsPlaces
<1>9. invalidations \in 0..MaxInvalidations /\ schema \in 1..MaxSchema /\ MaxInvalidations \in Nat /\ MaxSchema \in Nat
  BY StoreTyped DEF SInv
<1>10. 0 <= invalidations /\ 0 <= schema
  BY <1>9
<1>11. FitsRunning(o) /\ FitsCovered(o)
  BY <1>4, <1>5, <1>10 DEF FitsRunning, FitsCovered
<1>12. FitsFresh(o) /\ FitsFence(o)
  BY <1>1, <1>4, <1>5, <1>10 DEF SInv, Fresh, MarkFollows, FitsFresh, DetailFence, FitsFence
<1> QED
  BY <1>2, <1>4, <1>7, <1>8, <1>11, <1>12, OpOnly DEF BackgroundBegins

\* A maintenance attempt may end from wherever it is.
LEMMA LeaveFits ==
  ASSUME SInv, op.at \in Maintaining, NEW o, o = [op EXCEPT !.at = "leave"]
  PROVE  /\ o \in Operations /\ FitsRetirement(o) /\ FitsPlaces(o) /\ FitsRunning(o)
         /\ FitsFresh(o) /\ FitsCovered(o) /\ FitsFence(o)
<1>1. TypeOK /\ op \in Operations
  BY DEF SInv
<1>2. o \in Operations /\ o.at = "leave" /\ o.cur = op.cur /\ o.epoch = op.epoch /\ o.cand = op.cand /\ o.low = op.low
  BY <1>1, OpMoves DEF OpAt
<1>3. /\ "leave" \in Maintaining /\ "leave" \notin Staged /\ "leave" \notin Swapped /\ "leave" \notin Watching
      /\ "leave" \notin Current
  BY DEF Maintaining, Staged, Swapped, Watching, Current
<1>4. /\ op.at \notin Staged /\ op.at \notin Swapped
      /\ op.at \notin {"idle", "begin", "reset", "fence", "stopOld", "markNew"}
  BY DEF Maintaining, Staged, Swapped, Watching
<1>5. FitsRetirement(o)
  BY <1>2, <1>3 DEF SInv, Retirement, FitsRetirement
<1>6. FitsPlaces(o)
  BY <1>2, <1>3, <1>4 DEF SInv, Places, FitsPlaces
<1>7. FitsRunning(o) /\ FitsCovered(o)
  BY <1>2, <1>3 DEF SInv, FitsRunning, Covered, FitsCovered
<1>8. FitsFresh(o) /\ FitsFence(o)
  BY <1>2, <1>3, <1>4 DEF SInv, Fresh, MarkFollows, FitsFresh, DetailFence, FitsFence
<1> QED
  BY <1>2, <1>5, <1>6, <1>7, <1>8

\* The operation gives up its wait.
LEMMA GiveUpInv ==
  ASSUME SInv, GiveUp
  PROVE  SInv'
<1>1. PICK o : o = op'
  OBVIOUS
<1>2. CASE op.at = "register"
  <2>1. o = NoOp
    BY <1>1, <1>2 DEF GiveUp
  <2>2. op.at \notin Staged /\ op.at \notin Maintaining /\ op.at \notin {"reset", "fence", "stopOld", "markNew"}
    BY <1>2 DEF Staged, Maintaining, Watching
  <2> QED
    BY <1>1, <2>1, <2>2, NoOpFits, OpOnly DEF GiveUp
<1>3. CASE op.at # "register"
  <2>1. o = [op EXCEPT !.at = "leave"]
    BY <1>1, <1>3 DEF GiveUp
  <2>2. op.at \in Maintaining
    BY <1>3 DEF GiveUp, ReadingAt, Maintaining, Watching
  <2> QED
    BY <1>1, <2>1, <2>2, LeaveFits, OpOnly DEF GiveUp
<1> QED
  BY <1>2, <1>3

\* The attempt gives up, or its publication is refused.
LEMMA MaintainGivesUpInv ==
  ASSUME SInv, op.at \in Maintaining, Goto("leave"),
         UNCHANGED <<trackVars, invalidations, loaderVars, fenceVars, inv, reader, finVars, schema>>
  PROVE  SInv'
<1>1. PICK o : o = op'
  OBVIOUS
<1>2. o = [op EXCEPT !.at = "leave"]
  BY <1>1 DEF Goto
<1> QED
  BY <1>1, <1>2, LeaveFits, OpOnly

\* The staging load is over, or its caller's context is.
LEMMA StagingSettlesInv ==
  ASSUME SInv, StagingSettles
  PROVE  SInv'
<1>1. TypeOK /\ op \in Operations /\ op.at = "settle"
  BY DEF SInv, StagingSettles
<1>2. PICK o : o = op'
  OBVIOUS
<1>3. Goto("swap") \/ Goto("discard")
  BY DEF StagingSettles
<1>4. /\ o \in Operations /\ o.at \in {"swap", "discard"} /\ o.cur = op.cur /\ o.new = op.new /\ o.gen = op.gen
      /\ o.epoch = op.epoch /\ o.cand = op.cand /\ o.low = op.low /\ o.mark = op.mark
  BY <1>1, <1>2, <1>3, GotoMoves DEF SameWork, OpAt
<1>5. /\ o.at \in Staged /\ o.at \in Current /\ o.at \notin Maintaining /\ o.at \notin Swapped /\ o.at \notin Watching
      /\ o.at \notin {"idle", "begin", "renew", "reset", "restart", "register", "wait", "retire", "settle", "full", "publish", "unchanged", "fence", "launch", "stopOld", "markNew"}
  BY <1>4 DEF Maintaining, Staged, Swapped, Watching, Current
<1>6. op.at \in Staged /\ op.at \in Current /\ op.at \notin Maintaining
  BY <1>1 DEF Maintaining, Staged, Current, Watching
<1>7. FitsRetirement(o)
  BY <1>5, <1>6 DEF SInv, Retirement, FitsRetirement
<1>8. FitsPlaces(o)
  BY <1>1, <1>4, <1>5, <1>6 DEF SInv, Places, FitsPlaces
<1>9. FitsRunning(o)
  BY <1>1, <1>4, <1>5, <1>6 DEF SInv, Running, FitsRunning
<1>10. FitsCovered(o)
  BY <1>1, <1>4, <1>5, <1>6 DEF SInv, Covered, FitsCovered
<1>11. FitsFresh(o)
  BY <1>1, <1>4, <1>5, <1>6 DEF SInv, Fresh, MarkFollows, FitsFresh
<1>12. FitsFence(o)
  BY <1>1, <1>5, <1>6 DEF SInv, DetailFence, Unseen, FitsFence
<1> QED
  BY <1>2, <1>4, <1>7, <1>8, <1>9, <1>10, <1>11, <1>12, OpOnly DEF StagingSettles

\* A maintenance attempt reads on, with the loader it began with: what it has read
\* fits where it now stands.
LEMMA ReadsOn ==
  ASSUME SInv, UNCHANGED <<trackVars, invalidations, loaderVars, fenceVars, inv, reader, finVars, schema>>,
         op.at \in {"wait"} \union Watching, native[op.cur] = {},
         NEW o \in Operations, op' = o, o.at \in Watching, o.cur = op.cur, o.gen = gen[op.cur],
         o.epoch = op.epoch, o.base = op.base, o.cand <= schema, o.low <= schema,
         o.at \in {"full", "publish"} => o.cand <= o.low,
         o.at = "unchanged" => o.cand <= covers[o.cur]
  PROVE  SInv'
<1>1. /\ o.at \in Maintaining /\ o.at \in Current /\ o.at \notin Staged /\ o.at \notin Swapped
      /\ o.at \notin {"idle", "begin", "renew", "reset", "restart", "register", "wait", "retire", "launch", "settle", "swap", "fence", "stopOld", "markNew"}
  BY DEF Maintaining, Staged, Swapped, Watching, Current
<1>2. /\ op.at \in Maintaining /\ op.at \in Current /\ op.at \notin Staged /\ op.at \notin {"fence", "stopOld", "markNew", "idle", "begin", "reset"}
  BY DEF Maintaining, Staged, Watching, Current
<1>3. FitsRetirement(o)
  BY <1>1, <1>2 DEF SInv, Retirement, FitsRetirement
<1>4. FitsPlaces(o)
  BY <1>1, <1>2 DEF SInv, Places, FitsPlaces
<1>5. FitsRunning(o)
  BY <1>1 DEF FitsRunning
<1>6. FitsCovered(o)
  BY <1>1, <1>2 DEF SInv, Covered, FitsCovered
<1>7. FitsFresh(o)
  BY <1>1, <1>2 DEF SInv, Fresh, MarkFollows, FitsFresh
<1>8. FitsFence(o)
  BY <1>1, <1>2 DEF SInv, DetailFence, FitsFence
<1> QED
  BY <1>3, <1>4, <1>5, <1>6, <1>7, <1>8, OpOnly

\* The previous snapshot is taken, and decides how the attempt reads.
LEMMA MaintainWaitedInv ==
  ASSUME SInv, NEW scan \in BOOLEAN, NEW explicit \in BOOLEAN, MaintainWaited(scan, explicit)
  PROVE  SInv'
<1>1. TypeOK /\ op \in Operations /\ op.at = "wait" /\ native[op.cur] = {} /\ op.at \in Maintaining
      /\ op.at \in {"wait"} \union Watching
  BY DEF SInv, MaintainWaited, Maintaining
<1>2. UNCHANGED <<trackVars, invalidations, loaderVars, fenceVars, inv, reader, finVars, schema>>
  BY DEF MaintainWaited
<1>3. op.cur \in Loaders /\ gen[op.cur] \in 0..MaxGen /\ op.cand <= schema /\ op.low <= schema
      /\ op.cand \in 0..MaxSchema /\ op.low \in 0..MaxSchema /\ schema \in 0..MaxSchema /\ schema <= schema
  <2>1. op.cur \in 0..MaxGen /\ op.cur # 0 /\ MaxGen \in Nat /\ MaxSchema \in Nat /\ Loaders = 1..MaxGen /\ schema \in 1..MaxSchema
    BY <1>1, StoreTyped DEF SInv, Places
  <2>2. op.cur \in Loaders /\ schema \in 0..MaxSchema /\ schema <= schema
    BY <2>1
  <2>3. gen[op.cur] \in 0..MaxGen /\ op.cand \in 0..MaxSchema /\ op.low \in 0..MaxSchema
    BY <1>1, <2>2, StoreTyped
  <2> QED
    BY <2>2, <2>3 DEF SInv, Covered
<1>4. \/ op' = [op EXCEPT !.at = "leave"]
      \/ op' = [op EXCEPT !.at = "scan", !.gen = gen[op.cur]]
      \/ op' = [op EXCEPT !.at = "full", !.gen = gen[op.cur], !.low = schema]
  BY DEF MaintainWaited
<1>5. CASE op' = [op EXCEPT !.at = "leave"]
  BY <1>1, <1>2, <1>5, MaintainGivesUpInv DEF Goto
<1>6. CASE op' = [op EXCEPT !.at = "scan", !.gen = gen[op.cur]]
  <2>1. PICK o : o = op'
    OBVIOUS
  <2>2. PICK g \in 0..MaxGen : g = gen[op.cur]
    BY <1>3
  <2>3. o = [op EXCEPT !.at = "scan", !.gen = g, !.cand = op.cand, !.low = op.low]
    BY <1>1, <1>6, <2>1, <2>2 DEF Operations
  <2>4. o \in Operations /\ o.at = "scan" /\ o.cur = op.cur /\ o.gen = g /\ o.epoch = op.epoch /\ o.base = op.base /\ o.cand = op.cand /\ o.low = op.low
    <3>1. op \in Operations /\ "scan" \in OpAt /\ g \in 0..MaxGen /\ op.cand \in 0..MaxSchema /\ op.low \in 0..MaxSchema
      BY <1>1, <1>3 DEF OpAt, ReadingAt
    <3> QED
      BY <2>3, <3>1 DEF Operations
  <2>5. o.at \in Watching /\ o.at \notin {"full", "publish", "unchanged"}
    BY <2>4 DEF Watching
  <2> QED
    BY <1>1, <1>2, <1>3, <2>1, <2>2, <2>4, <2>5, ReadsOn
<1>7. CASE op' = [op EXCEPT !.at = "full", !.gen = gen[op.cur], !.low = schema]
  <2>1. PICK o : o = op'
    OBVIOUS
  <2>2. PICK g \in 0..MaxGen : g = gen[op.cur]
    BY <1>3
  <2>3. PICK s \in 0..MaxSchema : s = schema
    BY <1>3
  <2>4. o = [op EXCEPT !.at = "full", !.gen = g, !.cand = op.cand, !.low = s]
    BY <1>1, <1>7, <2>1, <2>2, <2>3 DEF Operations
  <2>5. o \in Operations /\ o.at = "full" /\ o.cur = op.cur /\ o.gen = g /\ o.epoch = op.epoch /\ o.base = op.base /\ o.cand = op.cand /\ o.low = s
    <3>1. op \in Operations /\ "full" \in OpAt /\ g \in 0..MaxGen /\ op.cand \in 0..MaxSchema /\ s \in 0..MaxSchema
      BY <1>1, <1>3 DEF OpAt, ReadingAt
    <3> QED
      BY <2>4, <3>1 DEF Operations
  <2>6. o.at \in Watching /\ o.at # "unchanged"
    BY <2>5 DEF Watching
  <2> QED
    BY <1>1, <1>2, <1>3, <2>1, <2>2, <2>3, <2>5, <2>6, ReadsOn
<1> QED
  BY <1>4, <1>5, <1>6, <1>7

\* What a reading attempt stands on.
LEMMA ReadingStands ==
  ASSUME SInv, op.at \in Watching
  PROVE  /\ TypeOK /\ op \in Operations /\ op.at \in Maintaining /\ op.at \in {"wait"} \union Watching
         /\ op.cur = loader /\ op.cur \in Loaders /\ native[op.cur] = {} /\ op.gen = gen[op.cur] /\ op.gen \in 0..MaxGen
         /\ op.base = baseline /\ op.base.fp <= covers[op.cur]
         /\ op.cand <= schema /\ op.low <= schema /\ schema <= schema
         /\ op.cand \in 0..MaxSchema /\ op.low \in 0..MaxSchema /\ schema \in 0..MaxSchema
<1>1. TypeOK /\ op \in Operations
  BY DEF SInv
<1>2. op.at \in Maintaining /\ op.at \in Current /\ op.at \in {"wait"} \union Watching
  BY DEF Maintaining, Current
<1>3. op.cur = loader /\ native[op.cur] = {} /\ op.gen = gen[op.cur] /\ op.cur \in Loaders
  BY <1>1, <1>2, StoreTyped DEF SInv, Places, Running
<1>4. op.base = baseline /\ op.base.fp <= covers[op.cur] /\ op.cand <= schema /\ op.low <= schema
  BY <1>2, <1>3 DEF SInv, Covered
<1>5. op.cand \in 0..MaxSchema /\ op.low \in 0..MaxSchema /\ op.gen \in 0..MaxGen /\ schema \in 1..MaxSchema /\ MaxSchema \in Nat
  BY <1>1, StoreTyped
<1>6. schema \in 0..MaxSchema /\ schema <= schema
  BY <1>5
<1> QED
  BY <1>1, <1>2, <1>3, <1>4, <1>5, <1>6

\* The fingerprint read is of a schema no newer than what the rest of the attempt reads.
LEMMA ScanReturnsInv ==
  ASSUME SInv, ScanReturns
  PROVE  SInv'
<1>1. op.at \in Watching /\ UNCHANGED <<trackVars, invalidations, loaderVars, fenceVars, inv, reader, finVars, schema>>
  BY DEF ScanReturns, Watching
<1>2. PICK o : o = op'
  OBVIOUS
<1>3. PICK s \in 0..MaxSchema : s = schema
  BY <1>1, ReadingStands
<1>4. \/ Goto("leave")
      \/ op' = [op EXCEPT !.at = "full", !.low = s]
      \/ \E at \in {"full", "unchanged", "changes"} :
           op' = [op EXCEPT !.cand = s, !.low = s, !.at = at] /\ (at = "unchanged" => op.base.fp = s)
  BY <1>3 DEF ScanReturns
<1>5. CASE Goto("leave")
  BY <1>1, <1>5, ReadingStands, MaintainGivesUpInv
<1>6. CASE op' = [op EXCEPT !.at = "full", !.low = s]
  <2>1. o = [op EXCEPT !.at = "full", !.gen = op.gen, !.cand = op.cand, !.low = s]
    BY <1>1, <1>2, <1>6, ReadingStands DEF Operations
  <2>2. o \in Operations /\ o.at = "full" /\ o.cur = op.cur /\ o.gen = op.gen /\ o.epoch = op.epoch /\ o.base = op.base /\ o.cand = op.cand /\ o.low = s
    <3>1. op \in Operations /\ "full" \in OpAt /\ op.gen \in 0..MaxGen /\ op.cand \in 0..MaxSchema /\ s \in 0..MaxSchema
      BY <1>1, <1>3, ReadingStands DEF OpAt, ReadingAt
    <3> QED
      BY <2>1, <3>1 DEF Operations
  <2>3. o.at \in Watching /\ o.at # "unchanged"
    BY <2>2 DEF Watching
  <2> QED
    BY <1>1, <1>2, <1>3, <2>2, <2>3, ReadingStands, ReadsOn
<1>7. ASSUME NEW at \in {"full", "unchanged", "changes"},
             op' = [op EXCEPT !.cand = s, !.low = s, !.at = at], at = "unchanged" => op.base.fp = s
      PROVE  SInv'
  <2>1. o = [op EXCEPT !.at = at, !.gen = op.gen, !.cand = s, !.low = s]
    BY <1>1, <1>2, <1>7, ReadingStands DEF Operations
  <2>2. o \in Operations /\ o.at = at /\ o.cur = op.cur /\ o.gen = op.gen /\ o.epoch = op.epoch /\ o.base = op.base /\ o.cand = s /\ o.low = s
    <3>1. op \in Operations /\ at \in OpAt /\ op.gen \in 0..MaxGen /\ s \in 0..MaxSchema /\ s \in 0..MaxSchema
      BY <1>1, <1>3, ReadingStands DEF OpAt, ReadingAt
    <3> QED
      BY <2>1, <3>1 DEF Operations
  <2>3. o.at \in Watching
    BY <2>2 DEF Watching
  <2>4. o.at = "unchanged" => o.cand <= covers[o.cur]
    BY <1>1, <1>3, <1>7, <2>2, ReadingStands
  <2> QED
    BY <1>1, <1>2, <1>3, <2>2, <2>3, <2>4, ReadingStands, ReadsOn
<1> QED
  BY <1>4, <1>5, <1>6, <1>7

\* The delta is applied to a cache that covers the baseline it starts from, so the result
\* covers the fingerprint.
LEMMA ChangesReturnInv ==
  ASSUME SInv, ChangesReturn
  PROVE  SInv'
<1>1. op.at \in Watching /\ UNCHANGED <<trackVars, invalidations, loaderVars, fenceVars, inv, reader, finVars, schema>>
  BY DEF ChangesReturn, Watching
<1>2. PICK o : o = op'
  OBVIOUS
<1>3. PICK s \in 0..MaxSchema : s = schema
  BY <1>1, ReadingStands
<1>4. \A l \in Loaders : covers[l] \in 0..MaxSchema
  BY <1>1, ReadingStands, StoreTyped
<1>5. covers[op.cur] >= op.base.fp
  <2>1. op.base.fp \in 0..MaxSchema /\ covers[op.cur] \in 0..MaxSchema /\ op.base.fp <= covers[op.cur] /\ MaxSchema \in Nat
    BY <1>1, <1>4, ReadingStands, StoreTyped
  <2> QED
    BY <2>1
<1>6. \/ Goto("leave")
      \/ op' = [op EXCEPT !.at = "full", !.low = s]
      \/ op' = [op EXCEPT !.at = "publish", !.low = op.cand]
  BY <1>3, <1>5 DEF ChangesReturn
<1>7. CASE Goto("leave")
  BY <1>1, <1>7, ReadingStands, MaintainGivesUpInv
<1>8. CASE op' = [op EXCEPT !.at = "full", !.low = s]
  <2>1. o = [op EXCEPT !.at = "full", !.gen = op.gen, !.cand = op.cand, !.low = s]
    BY <1>1, <1>2, <1>8, ReadingStands DEF Operations
  <2>2. o \in Operations /\ o.at = "full" /\ o.cur = op.cur /\ o.gen = op.gen /\ o.epoch = op.epoch /\ o.base = op.base /\ o.cand = op.cand /\ o.low = s
    <3>1. op \in Operations /\ "full" \in OpAt /\ op.gen \in 0..MaxGen /\ op.cand \in 0..MaxSchema /\ s \in 0..MaxSchema
      BY <1>1, <1>3, ReadingStands DEF OpAt, ReadingAt
    <3> QED
      BY <2>1, <3>1 DEF Operations
  <2>3. o.at \in Watching /\ o.at # "unchanged"
    BY <2>2 DEF Watching
  <2> QED
    BY <1>1, <1>2, <1>3, <2>2, <2>3, ReadingStands, ReadsOn
<1>9. CASE op' = [op EXCEPT !.at = "publish", !.low = op.cand]
  <2>1. o = [op EXCEPT !.at = "publish", !.gen = op.gen, !.cand = op.cand, !.low = op.cand]
    BY <1>1, <1>2, <1>9, ReadingStands DEF Operations
  <2>2. o \in Operations /\ o.at = "publish" /\ o.cur = op.cur /\ o.gen = op.gen /\ o.epoch = op.epoch /\ o.base = op.base /\ o.cand = op.cand /\ o.low = op.cand
    <3>1. op \in Operations /\ "publish" \in OpAt /\ op.gen \in 0..MaxGen /\ op.cand \in 0..MaxSchema /\ op.cand \in 0..MaxSchema
      BY <1>1, ReadingStands DEF OpAt, ReadingAt
    <3> QED
      BY <2>1, <3>1 DEF Operations
  <2>3. o.at \in Watching /\ o.at # "unchanged"
    BY <2>2 DEF Watching
  <2>4. o.cand <= o.low
    <3>1. op.cand \in 0..MaxSchema /\ MaxSchema \in Nat
      BY <1>1, ReadingStands, StoreTyped
    <3> QED
      BY <2>2, <3>1
  <2> QED
    BY <1>1, <1>2, <2>2, <2>3, <2>4, ReadingStands, ReadsOn
<1> QED
  BY <1>6, <1>7, <1>8, <1>9

\* A full read leaves the fingerprint taken before it.
LEMMA FullReturnsInv ==
  ASSUME SInv, FullReturns
  PROVE  SInv'
<1>1. op.at \in Watching /\ op.at = "full" /\ UNCHANGED <<trackVars, invalidations, loaderVars, fenceVars, inv, reader, finVars, schema>>
  BY DEF FullReturns, Watching
<1>2. CASE Goto("leave")
  BY <1>1, <1>2, ReadingStands, MaintainGivesUpInv
<1>3. CASE Goto("publish")
  <2>1. PICK o : o = op'
    OBVIOUS
  <2>2. /\ o \in Operations /\ o.at = "publish" /\ o.cur = op.cur /\ o.gen = op.gen /\ o.epoch = op.epoch /\ o.base = op.base
        /\ o.cand = op.cand /\ o.low = op.low
    BY <1>1, <1>3, <2>1, ReadingStands, GotoMoves DEF SameWork, OpAt
  <2>3. o.at \in Watching /\ o.at # "unchanged" /\ o.cand <= o.low
    BY <1>1, <2>2 DEF Watching, SInv, Covered
  <2> QED
    BY <1>1, <2>1, <2>2, <2>3, ReadingStands, ReadsOn
<1> QED
  BY <1>2, <1>3 DEF FullReturns

\* An unchanged schema, or a fence that fails, ends the attempt.
LEMMA MaintainEndsInv ==
  ASSUME SInv, MaintainUnchanged \/ MaintainAbandons
  PROVE  SInv'
<1>1. /\ op.at \in Maintaining /\ Goto("leave")
      /\ UNCHANGED <<trackVars, invalidations, loaderVars, fenceVars, inv, reader, finVars, schema>>
  BY DEF MaintainUnchanged, MaintainAbandons, Maintaining, Watching
<1> QED
  BY <1>1, MaintainGivesUpInv

-----------------------------------------------------------------------------
(* Refresh.                                                                *)

\* The baseline is dropped before the loader is renewed.
LEMMA RefreshDropsBaselineInv ==
  ASSUME SInv, RefreshDropsBaseline
  PROVE  SInv'
<1>1. /\ UNCHANGED <<loader, staging, retired, ctxDone, maintaining, invalidations, made, gen, stale, stopped,
                     load, native, since, covers, dgen, dstale, inv, reader, fin, owned, providerClosed, schema>>
      /\ baseline' = NoBaseline /\ op.at = "begin"
      /\ op' = [NoOp EXCEPT !.at = "renew", !.cur = loader, !.gen = gen[loader] + 1]
  BY DEF RefreshDropsBaseline, loaderVars, fenceVars, finVars
<1>2. TypeOK /\ op \in Operations
  BY DEF SInv
<1>3. loader \in 1..MaxGen /\ MaxGen \in Nat /\ gen[loader] \in 0..MaxGen /\ gen[loader] < MaxGen
  BY <1>1, <1>2, StoreTyped DEF SInv, Places
<1>4. loader \in 0..MaxGen /\ gen[loader] + 1 \in 0..MaxGen /\ "renew" \in OpAt
  BY <1>3 DEF OpAt
<1>5. /\ op' \in Operations /\ op'.at = "renew" /\ op'.cur = loader /\ op'.gen = gen[loader] + 1
      /\ op'.epoch = 0 /\ op'.cand = 0 /\ op'.low = 0 /\ op'.mark = FALSE
  BY <1>1, <1>4, NoOpTyped DEF Operations
<1>6. /\ "renew" \notin Maintaining /\ "renew" \notin Staged /\ "renew" \notin Swapped /\ "renew" \notin Watching
      /\ "begin" \notin Maintaining /\ "begin" \notin Staged
  BY DEF Maintaining, Staged, Swapped, Watching
<1>7. /\ invalidations \in Nat /\ schema \in Nat /\ NoBaseline \in Baselines /\ NoBaseline.fp = 0
      /\ covers[loader] \in Nat
  <2>1. invalidations \in 0..MaxInvalidations /\ schema \in 1..MaxSchema /\ MaxInvalidations \in Nat /\ MaxSchema \in Nat
        /\ covers[loader] \in 0..MaxSchema
    BY <1>2, StoreTyped
  <2> QED
    BY <2>1, NoOpTyped
<1>8. 0 <= invalidations /\ 0 <= schema /\ 0 <= covers[loader]
  BY <1>7
<1>9. TypeOK' /\ (op \in Operations)'
  BY <1>1, <1>4, <1>5, <1>7 DEF SInv, TypeOK, Operations, Baselines
<1>10. Retirement'
  BY <1>1, <1>5, <1>6 DEF SInv, Retirement
<1>11. Places'
  BY <1>1, <1>3, <1>5, <1>6 DEF SInv, Places
<1>12. Running' /\ Finalizing'
  BY <1>1, <1>5, <1>6 DEF SInv, Running, Finalizing, Held
<1>13. Fresh'
  BY <1>1, <1>5, <1>8 DEF SInv, Fresh, MarkFollows
<1>14. Covered'
  BY <1>1, <1>5, <1>6, <1>7, <1>8 DEF SInv, Covered
<1>15. DetailFence' /\ Unseen'
  BY <1>1, <1>5, <1>6 DEF SInv, DetailFence, Unseen
<1> QED
  BY <1>9, <1>10, <1>11, <1>12, <1>13, <1>14, <1>15 DEF SInv

\* The details are fenced by a generation that nobody has seen yet.
LEMMA RefreshFencesInv ==
  ASSUME SInv, RefreshFences
  PROVE  SInv'
<1>1. /\ UNCHANGED <<loader, staging, retired, ctxDone, baseline, maintaining, invalidations, made, gen, stale, stopped,
                     load, native, since, covers, inv, reader, fin, owned, providerClosed, schema>>
      /\ dgen' = op.gen /\ dstale' = FALSE /\ op.at = "renew" /\ Goto("reset")
  BY DEF RefreshFences, trackVars, loaderVars, finVars
<1>2. TypeOK /\ op \in Operations
  BY DEF SInv
<1>3. op' \in Operations /\ op'.at = "reset" /\ SameWork
  BY <1>1, <1>2, GotoMoves DEF OpAt
<1>4. /\ "reset" \notin Maintaining /\ "reset" \notin Staged /\ "reset" \notin Swapped /\ "reset" \notin Watching
      /\ "renew" \notin Maintaining /\ "renew" \notin Staged /\ "renew" \in Current
  BY DEF Maintaining, Staged, Swapped, Watching, Current
<1>5. op.cur = loader /\ op.gen = gen[loader] + 1 /\ baseline = NoBaseline
  BY <1>1, <1>4 DEF SInv, Places, Covered
<1>6. loader \in 1..MaxGen /\ MaxGen \in Nat /\ gen[loader] \in 0..MaxGen /\ op.gen \in 0..MaxGen
  BY <1>1, <1>2, StoreTyped
<1>7. op.gen \in Gens /\ gen[loader] < op.gen
  BY <1>5, <1>6 DEF Gens
<1>8. TypeOK' /\ (op \in Operations)'
  BY <1>1, <1>3, <1>7 DEF SInv, TypeOK, Operations
<1>9. Retirement'
  BY <1>1, <1>3, <1>4 DEF SInv, Retirement
<1>10. Places'
  BY <1>1, <1>3, <1>4, <1>5 DEF SInv, Places, SameWork
<1>11. Running' /\ Finalizing'
  BY <1>1, <1>3, <1>4 DEF SInv, Running, Finalizing, Held
<1>12. Fresh'
  BY <1>1, <1>3 DEF SInv, Fresh, MarkFollows, SameWork
<1>13. Covered'
  BY <1>1, <1>3, <1>4, <1>5 DEF SInv, Covered, SameWork
<1>14. DetailFence' /\ Unseen'
  BY <1>1, <1>3, <1>4, <1>5, <1>7 DEF SInv, DetailFence, Unseen, SameWork
<1> QED
  BY <1>8, <1>9, <1>10, <1>11, <1>12, <1>13, <1>14 DEF SInv

\* The loader takes the generation, unless the finalizer has stopped it.
LEMMA RefreshResetsInv ==
  ASSUME SInv, RefreshResets
  PROVE  SInv'
<1>1. /\ UNCHANGED <<loader, staging, retired, ctxDone, baseline, maintaining, invalidations, made, stopped,
                     native, since, covers, dgen, dstale, inv, reader, fin, owned, providerClosed, schema>>
      /\ op.at = "reset" /\ Goto("restart")
  BY DEF RefreshResets, trackVars, loaderVars, fenceVars, finVars
<1>2. TypeOK /\ op \in Operations
  BY DEF SInv
<1>3. op' \in Operations /\ op'.at = "restart" /\ SameWork
  BY <1>1, <1>2, GotoMoves DEF OpAt
<1>4. /\ "restart" \notin Maintaining /\ "restart" \notin Staged /\ "restart" \notin Swapped /\ "restart" \notin Watching
      /\ "reset" \notin Maintaining /\ "reset" \notin Staged /\ "reset" \in Current
  BY DEF Maintaining, Staged, Swapped, Watching, Current
<1>5. op.cur = loader /\ op.gen = gen[loader] + 1 /\ baseline = NoBaseline /\ staging = 0
  BY <1>1, <1>4 DEF SInv, Places, Covered
<1>6. loader \in Loaders /\ MaxGen \in Nat /\ gen[loader] \in 0..MaxGen /\ op.gen \in 0..MaxGen
  BY <1>1, <1>2, StoreTyped
<1>7. op.gen # 0 /\ gen[loader] < op.gen
  BY <1>5, <1>6
<1>8. \/ stopped[loader] /\ UNCHANGED <<gen, stale, load>>
      \/ ~stopped[loader] /\ gen' = [gen EXCEPT ![loader] = op.gen] /\ stale' = [stale EXCEPT ![loader] = FALSE]
           /\ load' = [load EXCEPT ![loader] = "none"]
  BY <1>5 DEF RefreshResets, loaderVars
<1>9. /\ gen' \in [Loaders -> 0..MaxGen] /\ stale' \in [Loaders -> BOOLEAN]
      /\ load' \in [Loaders -> {"none", "loading", "ready", "failed", "cancelled"}]
      /\ \A l \in Loaders : l # loader => gen'[l] = gen[l]
      /\ \/ stopped[loader] /\ gen'[loader] = gen[loader]
         \/ ~stopped[loader] /\ gen'[loader] = op.gen /\ load'[loader] = "none"
  <2>1. CASE stopped[loader] /\ UNCHANGED <<gen, stale, load>>
    BY <1>2, <2>1, StoreTyped
  <2>2. CASE ~stopped[loader] /\ gen' = [gen EXCEPT ![loader] = op.gen] /\ stale' = [stale EXCEPT ![loader] = FALSE]
               /\ load' = [load EXCEPT ![loader] = "none"]
    BY <1>2, <1>6, <2>2, StoreTyped
  <2> QED
    BY <1>8, <2>1, <2>2
<1>10. TypeOK' /\ (op \in Operations)'
  BY <1>1, <1>3, <1>9 DEF SInv, TypeOK, Operations
<1>11. Retirement'
  BY <1>1, <1>3, <1>4 DEF SInv, Retirement
<1>12. Places'
  BY <1>1, <1>3, <1>4, <1>5, <1>7, <1>9 DEF SInv, Places, SameWork
<1>13. Running' /\ Finalizing'
  BY <1>1, <1>3, <1>4 DEF SInv, Running, Finalizing, Held
<1>14. stopped[loader] => retired
  BY DEF SInv, Running
<1>15. Fresh'
  BY <1>1, <1>3, <1>5, <1>9, <1>14 DEF SInv, Fresh, MarkFollows, SameWork
<1>16. Covered'
  BY <1>1, <1>3, <1>4, <1>5 DEF SInv, Covered, SameWork
<1>17. DetailFence'
  BY <1>1, <1>3, <1>5, <1>9, <1>14 DEF SInv, DetailFence
<1>18. gen[loader] <= gen'[loader]
  BY <1>6, <1>7, <1>9
<1>19. "background" \notin Ops => \A l \in Loaders : gen'[l] <= gen'[loader]
  <2>1. SUFFICES ASSUME "background" \notin Ops, NEW l \in Loaders PROVE gen'[l] <= gen'[loader]
    OBVIOUS
  <2>2. gen[l] <= gen[loader] /\ gen[l] \in Nat /\ gen[loader] \in Nat /\ gen'[loader] \in Nat
    <3>1. gen[l] \in 0..MaxGen /\ gen'[loader] \in 0..MaxGen
      BY <1>2, <1>6, <1>9, StoreTyped
    <3> QED
      BY <1>6, <2>1, <3>1 DEF SInv, Unseen
  <2> QED
    BY <1>6, <1>9, <1>18, <2>2
<1>20. "background" \notin Ops => \A r \in Readers : reader[r].gen <= gen'[loader]
  <2>1. SUFFICES ASSUME "background" \notin Ops, NEW r \in Readers PROVE reader[r].gen <= gen'[loader]
    OBVIOUS
  <2>2. reader[r].gen <= gen[loader] /\ reader[r].gen \in 0..MaxGen /\ gen'[loader] \in 0..MaxGen
    BY <1>2, <1>6, <1>9, <2>1 DEF SInv, Unseen, TypeOK
  <2> QED
    BY <1>6, <1>18, <2>2
<1>21. fin \in {"details", "close", "done"} => gen'[loader] = gen[loader]
  BY <1>9 DEF SInv, Finalizing
<1>22. Unseen'
  BY <1>1, <1>3, <1>4, <1>19, <1>20, <1>21 DEF SInv, Unseen
<1> QED
  BY <1>10, <1>11, <1>12, <1>13, <1>15, <1>16, <1>17, <1>22 DEF SInv

\* The generation starts; on a dead context it runs nothing.
LEMMA RefreshStartsInv ==
  ASSUME SInv, RefreshStarts
  PROVE  SInv'
<1>1. /\ UNCHANGED <<loader, staging, retired, ctxDone, baseline, maintaining, invalidations, made, gen, stale, stopped,
                     dgen, dstale, inv, reader, fin, owned, providerClosed, schema>>
      /\ op.at = "restart" /\ op' = NoOp
  BY DEF RefreshStarts, trackVars, fenceVars, finVars
<1>2. TypeOK /\ op \in Operations
  BY DEF SInv
<1>3. /\ op' \in Operations /\ op'.at = "idle" /\ op'.cand = 0 /\ op'.low = 0 /\ op'.epoch = 0
  BY <1>1, NoOpTyped
<1>4. /\ "restart" \notin Maintaining /\ "restart" \notin Staged /\ "restart" \in Current
      /\ "idle" \notin Maintaining /\ "idle" \notin Staged /\ "idle" \notin Swapped /\ "idle" \notin Watching /\ "idle" \notin Current
      /\ "idle" \in OpAt
  BY DEF Maintaining, Staged, Swapped, Watching, Current, OpAt
<1>5. op.cur = loader /\ baseline = NoBaseline /\ NoBaseline.fp = 0 /\ staging = 0 /\ gen[loader] # 0 /\ (stopped[loader] \/ op.gen = gen[loader])
  BY <1>1, <1>4, NoOpTyped DEF SInv, Places, Covered
<1>6. loader \in Loaders /\ MaxGen \in Nat /\ gen[loader] \in 0..MaxGen /\ op.gen \in 0..MaxGen
      /\ invalidations \in 0..MaxInvalidations /\ schema \in 0..MaxSchema
  <2>1. schema \in 1..MaxSchema /\ MaxSchema \in Nat
    BY <1>2, StoreTyped
  <2> QED
    BY <1>2, <2>1, StoreTyped
<1>7. \/ stopped[loader] /\ UNCHANGED <<load, native, since, covers>>
      \/ ~stopped[loader] /\ op.gen = gen[loader] /\ Start(loader, op.gen)
  BY <1>5 DEF RefreshStarts
<1>8. op.gen = gen[loader] => op.gen \in Gens
  BY <1>5, <1>6 DEF Gens
<1>9. /\ load' \in [Loaders -> {"none", "loading", "ready", "failed", "cancelled"}] /\ native' \in [Loaders -> SUBSET Gens]
      /\ since' \in [Loaders -> 0..MaxInvalidations] /\ covers' \in [Loaders -> 0..MaxSchema]
      /\ \A l \in Loaders : l # loader => native'[l] = native[l] /\ since'[l] = since[l] /\ covers'[l] = covers[l] /\ load'[l] = load[l]
      /\ ctxDone => native' = native
      /\ \/ stopped[loader] /\ UNCHANGED <<load, native, since, covers>>
         \/ ~stopped[loader] /\ since'[loader] = invalidations /\ covers'[loader] = schema
  <2>1. CASE stopped[loader] /\ UNCHANGED <<load, native, since, covers>>
    BY <1>2, <2>1, StoreTyped
  <2>2. CASE ~stopped[loader] /\ op.gen = gen[loader] /\ Start(loader, op.gen)
    <3>1. load' \in [Loaders -> {"none", "loading", "ready", "failed", "cancelled"}] /\ \A l \in Loaders : l # loader => load'[l] = load[l]
      BY <1>2, <1>6, <2>2, StoreTyped DEF Start
    <3>2. native' \in [Loaders -> SUBSET Gens] /\ (ctxDone => native' = native) /\ \A l \in Loaders : l # loader => native'[l] = native[l]
      BY <1>2, <1>6, <1>8, <2>2, StoreTyped DEF Start
    <3>3. /\ since' \in [Loaders -> 0..MaxInvalidations] /\ covers' \in [Loaders -> 0..MaxSchema]
          /\ since'[loader] = invalidations /\ covers'[loader] = schema
          /\ \A l \in Loaders : l # loader => since'[l] = since[l] /\ covers'[l] = covers[l]
      BY <1>2, <1>6, <2>2, StoreTyped DEF Start
    <3> QED
      BY <2>2, <3>1, <3>2, <3>3
  <2> QED
    BY <1>7, <2>1, <2>2
<1>10. TypeOK' /\ (op \in Operations)'
  BY <1>1, <1>3, <1>4, <1>9 DEF SInv, TypeOK
<1>11. Retirement'
  BY <1>1, <1>3, <1>4 DEF SInv, Retirement
<1>12. Places'
  <2>1. \A l \in Loaders : l > made => native'[l] = {}
    <3>1. loader <= made /\ loader \in Nat /\ made \in Nat /\ Loaders = 1..MaxGen
      <4>1. loader \in 1..MaxGen /\ made \in 1..MaxGen /\ Loaders = 1..MaxGen
        BY <1>2, StoreTyped
      <4> QED
        BY <1>6, <4>1 DEF SInv, Places
    <3>2. \A l \in Loaders : l > made => l # loader
      BY <1>6, <3>1
    <3> QED
      BY <1>9, <3>2 DEF SInv, Places
  <2> QED
    BY <1>1, <1>3, <1>4, <1>5, <2>1 DEF SInv, Places
<1>13. Running'
  BY <1>1, <1>3, <1>4, <1>5, <1>9 DEF SInv, Running
<1>14. fin \notin {"none", "cancel"} => native' = native
  BY <1>9 DEF SInv, Retirement
<1>15. Finalizing'
  BY <1>1, <1>14 DEF SInv, Finalizing, Held
<1>16. stopped[loader] => retired
  BY DEF SInv, Running
<1>17. Fresh'
  <2>1. invalidations \in Nat
    BY <1>6, StoreAssumption
  <2>2. \A l \in Loaders : since'[l] <= invalidations
    BY <1>9, <2>1 DEF SInv, Fresh
  <2>3. 0 <= invalidations
    BY <2>1
  <2> QED
    BY <1>1, <1>3, <1>9, <1>16, <2>2, <2>3 DEF SInv, Fresh, MarkFollows
<1>18. Covered'
  <2>1. schema \in Nat /\ covers'[loader] \in Nat
    BY <1>6, <1>9, StoreAssumption
  <2>2. \A l \in Loaders : covers'[l] <= schema
    BY <1>9, <2>1 DEF SInv, Covered
  <2>3. 0 <= schema /\ 0 <= covers'[loader]
    BY <2>1
  <2> QED
    BY <1>1, <1>3, <1>4, <1>5, <2>2, <2>3 DEF SInv, Covered
<1>19. DetailFence' /\ Unseen'
  BY <1>1, <1>3, <1>4 DEF SInv, DetailFence, Unseen
<1> QED
  BY <1>10, <1>11, <1>12, <1>13, <1>15, <1>17, <1>18, <1>19 DEF SInv

-----------------------------------------------------------------------------
(* RefreshInBackground.                                                    *)

\* What stands while a load is staged, or has just been swapped in.
LEMMA BackgroundStands ==
  ASSUME SInv, op.at \in {"register"} \union Staged \union Swapped
  PROVE  /\ TypeOK /\ op \in Operations /\ MaxGen \in Nat /\ MaxSchema \in Nat /\ MaxInvalidations \in Nat
         /\ "background" \in Ops /\ op.at \notin Maintaining
         /\ loader \in Loaders /\ made \in Loaders /\ Loaders = 1..MaxGen /\ loader <= made
         /\ op.cur \in Loaders /\ op.gen \in 0..MaxGen /\ op.new \in 0..MaxGen
         /\ op.at \in {"register"} \union Staged => op.cur = loader
         /\ op.at \in Staged => staging = op.new /\ op.new \in Loaders /\ op.new # loader /\ op.new <= made
                                /\ gen[op.new] = op.gen /\ op.gen \in Gens /\ baseline = NoBaseline
         /\ op.at \in Swapped => loader = op.new /\ op.new \in Loaders /\ op.cur # loader /\ gen[loader] = op.gen /\ op.gen \in Gens
                                 /\ op.cur <= made /\ staging = 0
<1>1. TypeOK /\ op \in Operations
  BY DEF SInv
<1>2. MaxGen \in Nat /\ MaxSchema \in Nat /\ MaxInvalidations \in Nat /\ loader \in Loaders /\ made \in Loaders /\ Loaders = 1..MaxGen
      /\ op.cur \in 0..MaxGen /\ op.gen \in 0..MaxGen /\ op.new \in 0..MaxGen
  BY <1>1, StoreTyped
<1>3. "background" \in Ops
  BY DEF SInv, Unseen
<1>4. op.at \notin Maintaining /\ op.at # "idle" /\ op.at # "begin" /\ (op.at \in {"register"} \union Staged => op.at \in Current)
      /\ (op.at \in Swapped => op.at \notin Staged)
  BY DEF Maintaining, Staged, Swapped, Watching, Current
<1>5. op.cur # 0 /\ loader <= made
  BY <1>4 DEF SInv, Places
<1>6. op.cur \in Loaders
  BY <1>2, <1>5
<1>7. op.at \in Staged \union Swapped => op.gen \in Gens
  <2>1. op.at \in Staged \union Swapped => op.gen # 0
    BY DEF SInv, Places
  <2> QED
    BY <1>2, <2>1 DEF Gens
<1>8. op.at \in Staged => staging = op.new /\ op.new # 0 /\ op.new # loader /\ staging <= made /\ gen[op.new] = op.gen /\ baseline = NoBaseline
  BY DEF SInv, Places, Covered
<1>9. op.at \in Staged => op.new \in Loaders
  BY <1>2, <1>8
<1>10. op.at \in Swapped => loader = op.new /\ op.cur # loader /\ gen[loader] = op.gen /\ op.cur <= made /\ staging = 0
  BY <1>4 DEF SInv, Places
<1> QED
  BY <1>1, <1>2, <1>3, <1>4, <1>5, <1>6, <1>7, <1>8, <1>9, <1>10 DEF SInv, Places

\* A staging loader is registered beside the published one, or refused.
LEMMA RegisterStagingInv ==
  ASSUME SInv, RegisterStaging
  PROVE  SInv'
<1>1. op.at = "register" /\ native[op.cur] = {} /\ op.at \in {"register"} \union Staged \union Swapped
  BY DEF RegisterStaging
<1>2. /\ UNCHANGED <<loader, retired, ctxDone, maintaining, invalidations, stale, stopped,
                     load, native, since, covers, dgen, dstale, inv, reader, fin, owned, providerClosed, schema>>
  BY DEF RegisterStaging, fenceVars, finVars
<1>3. CASE retired \/ ctxDone
  <2>1. UNCHANGED <<trackVars, invalidations, loaderVars, fenceVars, inv, reader, finVars, schema>>
    BY <1>2, <1>3 DEF RegisterStaging, trackVars, loaderVars, fenceVars, finVars
  <2>2. op.at \notin Staged /\ op.at \notin Maintaining /\ op.at \notin {"reset", "fence", "stopOld", "markNew"}
    BY <1>1 DEF Staged, Maintaining, Watching
  <2>3. PICK o : o = NoOp
    OBVIOUS
  <2>4. op' = o
    BY <1>3, <2>3 DEF RegisterStaging
  <2> QED
    BY <2>1, <2>2, <2>3, <2>4, NoOpFits, OpOnly
<1>4. CASE ~retired /\ ~ctxDone
  <2>1. PICK l : l = made + 1
    OBVIOUS
  <2>2. /\ op' = [op EXCEPT !.at = "launch", !.new = l, !.gen = gen[op.cur] + 1, !.epoch = invalidations]
        /\ staging' = l /\ baseline' = NoBaseline /\ made' = l /\ gen' = [gen EXCEPT ![l] = gen[op.cur] + 1]
    BY <1>4, <2>1 DEF RegisterStaging
  <2>3. /\ TypeOK /\ op \in Operations /\ MaxGen \in Nat /\ loader \in 1..MaxGen /\ made \in 1..MaxGen /\ Loaders = 1..MaxGen
        /\ loader <= made /\ op.cur = loader /\ gen[loader] \in 0..MaxGen /\ gen \in [Loaders -> 0..MaxGen]
        /\ invalidations \in 0..MaxInvalidations /\ MaxInvalidations \in Nat
    BY <1>1, BackgroundStands, StoreTyped
  <2>4. gen[loader] < MaxGen /\ made < MaxGen /\ gen[loader] # 0
    BY <1>1, <2>3 DEF SInv, Places
  <2>5. l \in Loaders /\ l \in 0..MaxGen /\ l # loader /\ l # 0 /\ l > made /\ loader <= l /\ l <= l
        /\ gen[loader] + 1 \in 0..MaxGen /\ gen[loader] + 1 # 0 /\ (\A k \in Loaders : k > l => k > made)
    BY <2>1, <2>3, <2>4
  <2>6. gen' \in [Loaders -> 0..MaxGen] /\ gen'[l] = gen[loader] + 1 /\ \A k \in Loaders : k # l => gen'[k] = gen[k]
    BY <2>2, <2>3, <2>5
  <2>7. /\ op' \in Operations /\ op'.at = "launch" /\ op'.cur = loader /\ op'.new = l /\ op'.gen = gen[loader] + 1
        /\ op'.epoch = invalidations /\ op'.cand = op.cand /\ op'.low = op.low
    <3>1. "launch" \in OpAt
      BY DEF OpAt
    <3> QED
      BY <2>2, <2>3, <2>5, <3>1 DEF Operations
  <2>8. /\ "launch" \notin Maintaining /\ "launch" \in Staged /\ "launch" \notin Swapped /\ "launch" \notin Watching /\ "launch" \in Current
        /\ "register" \notin Maintaining /\ "register" \notin Staged
    BY DEF Maintaining, Staged, Swapped, Watching, Current
  <2>9. TypeOK' /\ (op \in Operations)'
    BY <1>2, <2>2, <2>5, <2>6, <2>7, NoOpTyped DEF SInv, TypeOK, Operations, Baselines
  <2>10. Retirement'
    BY <1>1, <1>2, <2>7, <2>8 DEF SInv, Retirement
  <2>11. Places'
    <3>1. loader' <= made' /\ staging' <= made' /\ gen'[loader'] # 0
      BY <1>2, <2>2, <2>3, <2>4, <2>5, <2>6
    <3>2. \A k \in Loaders : k > made' => native'[k] = {} /\ ~stopped'[k]
      BY <1>2, <2>2, <2>5 DEF SInv, Places
    <3> QED
      BY <1>2, <2>2, <2>3, <2>5, <2>6, <2>7, <2>8, <3>1, <3>2 DEF Places
  <2>12. ~stopped[l] /\ staging = 0
    BY <1>1, <2>5, <2>8 DEF SInv, Places
  <2>13. Running'
    <3>1. \A k \in Loaders : native'[k] # {} => k = loader'
      BY <1>2, <2>5, <2>12, <2>3 DEF SInv, Running
    <3> QED
      BY <1>1, <1>2, <2>2, <2>3, <2>7, <2>8, <2>12, <3>1 DEF SInv, Running
  <2>14. Finalizing'
    <3>1. fin = "none"
      BY <1>4 DEF SInv, Retirement
    <3> QED
      BY <1>2, <3>1 DEF Finalizing
  <2>15. Fresh'
    <3>1. invalidations <= invalidations
      BY <2>3
    <3> QED
      BY <1>1, <1>2, <2>7, <3>1 DEF SInv, Fresh, MarkFollows
  <2>16. Covered'
    <3>1. covers[loader] \in 0..MaxSchema /\ MaxSchema \in Nat
      BY <2>3, StoreTyped
    <3>2. 0 <= covers[loader]
      BY <3>1
    <3> QED
      BY <1>2, <2>2, <2>7, <2>8, <3>2, NoOpTyped DEF SInv, Covered
  <2>17. DetailFence'
    BY <1>1, <1>2, <2>3, <2>5, <2>6, <2>7 DEF SInv, DetailFence
  <2>18. Unseen'
    BY <1>1, <1>2, BackgroundStands DEF SInv, Unseen
  <2> QED
    BY <2>9, <2>10, <2>11, <2>13, <2>14, <2>15, <2>16, <2>17, <2>18 DEF SInv
<1> QED
  BY <1>3, <1>4

\* An operation with a staging loader goes on to discard it, or moves on with it.
LEMMA StagedMoves ==
  ASSUME SInv, UNCHANGED <<trackVars, invalidations, loaderVars, fenceVars, inv, reader, finVars, schema>>,
         op.at \in Staged, Goto("discard")
  PROVE  SInv'
<1>1. PICK o : o = op'
  OBVIOUS
<1>2. TypeOK /\ op \in Operations
  BY DEF SInv
<1>3. /\ o \in Operations /\ o.at = "discard" /\ o.cur = op.cur /\ o.new = op.new /\ o.gen = op.gen
      /\ o.epoch = op.epoch /\ o.cand = op.cand /\ o.low = op.low /\ o.mark = op.mark
  BY <1>1, <1>2, GotoMoves DEF SameWork, OpAt
<1>4. /\ "discard" \in Staged /\ "discard" \in Current /\ "discard" \notin Maintaining /\ "discard" \notin Swapped /\ "discard" \notin Watching
      /\ op.at \in Current /\ op.at \notin Maintaining /\ op.at \notin {"idle", "begin", "reset", "fence", "stopOld", "markNew"}
  BY DEF Maintaining, Staged, Swapped, Watching, Current
<1>5. FitsRetirement(o)
  BY <1>3, <1>4 DEF SInv, Retirement, FitsRetirement
<1>6. FitsPlaces(o)
  BY <1>3, <1>4 DEF SInv, Places, FitsPlaces
<1>7. FitsRunning(o) /\ FitsCovered(o)
  BY <1>3, <1>4 DEF SInv, FitsRunning, Covered, FitsCovered
<1>8. FitsFresh(o)
  BY <1>3, <1>4 DEF SInv, Fresh, MarkFollows, FitsFresh
<1>9. FitsFence(o)
  BY <1>3, <1>4 DEF SInv, DetailFence, Unseen, FitsFence
<1> QED
  BY <1>1, <1>3, <1>5, <1>6, <1>7, <1>8, <1>9, OpOnly

\* The staging loader reads after every Invalidate there has been since its epoch.
LEMMA LaunchStagingInv ==
  ASSUME SInv, LaunchStaging
  PROVE  SInv'
<1>1. op.at = "launch" /\ op.at \in {"register"} \union Staged \union Swapped /\ op.at \in Staged /\ op.at \in Current
  BY DEF LaunchStaging, Staged, Current
<1>2. /\ UNCHANGED <<loader, staging, retired, ctxDone, baseline, maintaining, invalidations, made, gen, stale, stopped,
                     dgen, dstale, inv, reader, fin, owned, providerClosed, schema>>
  BY DEF LaunchStaging, trackVars, fenceVars, finVars
<1>3. CASE stopped[op.new]
  <2>1. Goto("discard") /\ UNCHANGED <<load, native, since, covers>>
    BY <1>3 DEF LaunchStaging
  <2>2. UNCHANGED <<trackVars, invalidations, loaderVars, fenceVars, inv, reader, finVars, schema>>
    BY <1>2, <2>1 DEF trackVars, loaderVars, fenceVars, finVars
  <2> QED
    BY <1>1, <2>1, <2>2, StagedMoves
<1>4. CASE ~stopped[op.new]
  <2>1. Goto("settle") /\ Start(op.new, op.gen)
    BY <1>4 DEF LaunchStaging
  <2>2. /\ TypeOK /\ op \in Operations /\ MaxGen \in Nat /\ loader \in Loaders /\ Loaders = 1..MaxGen /\ made \in Loaders
        /\ op.cur = loader /\ op.new = staging /\ op.new \in Loaders /\ op.new # loader /\ op.new <= made
        /\ op.gen \in Gens /\ baseline = NoBaseline /\ MaxSchema \in Nat /\ MaxInvalidations \in Nat
    BY <1>1, BackgroundStands
  <2>3. invalidations \in 0..MaxInvalidations /\ schema \in 1..MaxSchema
    BY <2>2, StoreTyped
  <2>4. invalidations \in Nat /\ invalidations <= invalidations /\ schema \in 0..MaxSchema /\ schema <= schema
    BY <2>2, <2>3
  <2>5. PICK n \in Loaders : n = op.new
    BY <2>2
  <2>6. load' \in [Loaders -> {"none", "loading", "ready", "failed", "cancelled"}] /\ \A l \in Loaders : l # n => load'[l] = load[l]
    BY <2>1, <2>2, <2>5, StoreTyped DEF Start
  <2>7. native' \in [Loaders -> SUBSET Gens] /\ (ctxDone => native' = native) /\ \A l \in Loaders : l # n => native'[l] = native[l]
    BY <2>1, <2>2, <2>5, StoreTyped DEF Start
  <2>8. /\ since' \in [Loaders -> 0..MaxInvalidations] /\ covers' \in [Loaders -> 0..MaxSchema]
        /\ since'[n] = invalidations /\ covers'[n] = schema
        /\ \A l \in Loaders : l # n => since'[l] = since[l] /\ covers'[l] = covers[l]
    BY <2>1, <2>2, <2>3, <2>4, <2>5, StoreTyped DEF Start
  <2>9. op' \in Operations /\ op'.at = "settle" /\ SameWork
    BY <2>1, <2>2, GotoMoves DEF OpAt
  <2>10. /\ "settle" \notin Maintaining /\ "settle" \in Staged /\ "settle" \notin Swapped /\ "settle" \notin Watching /\ "settle" \in Current
         /\ "launch" \notin Maintaining
    BY DEF Maintaining, Staged, Swapped, Watching, Current
  <2>11. TypeOK' /\ (op \in Operations)'
    BY <1>2, <2>6, <2>7, <2>8, <2>9 DEF SInv, TypeOK, Operations
  <2>12. Retirement'
    BY <1>1, <1>2, <2>9, <2>10 DEF SInv, Retirement
  <2>13. Places'
    <3>1. \A l \in Loaders : l > made => native'[l] = {}
      <4>1. n \in Nat /\ made \in Nat /\ n <= made
        <5>1. n \in 1..MaxGen /\ made \in 1..MaxGen
          BY <2>2, <2>5
        <5> QED
          BY <2>2, <2>5, <5>1
      <4>2. \A l \in Loaders : l > made => l # n
        BY <4>1
      <4> QED
        BY <2>7, <4>2 DEF SInv, Places
    <3> QED
      BY <1>1, <1>2, <2>2, <2>9, <2>10, <3>1 DEF SInv, Places, SameWork
  <2>14. Running'
    BY <1>1, <1>2, <1>4, <2>2, <2>5, <2>7, <2>9, <2>10 DEF SInv, Running, SameWork
  <2>15. fin \notin {"none", "cancel"} => native' = native
    BY <2>7 DEF SInv, Retirement
  <2>16. Finalizing'
    BY <1>2, <2>15 DEF SInv, Finalizing, Held
  <2>17. Fresh'
    <3>1. \A l \in Loaders : since'[l] <= invalidations
      BY <2>4, <2>8 DEF SInv, Fresh
    <3>2. op'.epoch <= since'[n]
      BY <2>8, <2>9 DEF SInv, Fresh, SameWork
    <3> QED
      BY <1>1, <1>2, <2>2, <2>5, <2>6, <2>8, <2>9, <3>1, <3>2 DEF SInv, Fresh, MarkFollows, SameWork
  <2>18. Covered'
    <3>1. \A l \in Loaders : covers'[l] <= schema
      BY <2>4, <2>8 DEF SInv, Covered
    <3> QED
      BY <1>2, <2>2, <2>5, <2>8, <2>9, <2>10, <3>1 DEF SInv, Covered, SameWork
  <2>19. DetailFence' /\ Unseen'
    BY <1>1, <1>2, <2>9, <2>10, BackgroundStands DEF SInv, DetailFence, Unseen
  <2> QED
    BY <2>11, <2>12, <2>13, <2>14, <2>16, <2>17, <2>18, <2>19 DEF SInv
<1> QED
  BY <1>3, <1>4

\* The swap: an Invalidate that overtook the load leaves a mark to follow.
LEMMA SwapLoaderInv ==
  ASSUME SInv, SwapLoader
  PROVE  SInv'
<1>1. op.at = "swap" /\ op.at \in {"register"} \union Staged \union Swapped /\ op.at \in Staged /\ op.at \in Current
  BY DEF SwapLoader, Staged, Current
<1>2. /\ UNCHANGED <<retired, ctxDone, baseline, maintaining, invalidations, made, gen, stale, stopped, load, native, since, covers,
                     dgen, dstale, inv, reader, fin, owned, providerClosed, schema>>
  BY DEF SwapLoader, loaderVars, fenceVars, finVars
<1>3. CASE retired \/ ctxDone
  <2>1. Goto("discard") /\ UNCHANGED <<loader, staging>>
    BY <1>3 DEF SwapLoader
  <2>2. UNCHANGED <<trackVars, invalidations, loaderVars, fenceVars, inv, reader, finVars, schema>>
    BY <1>2, <2>1 DEF trackVars, loaderVars, fenceVars, finVars
  <2> QED
    BY <1>1, <2>1, <2>2, StagedMoves
<1>4. CASE ~retired /\ ~ctxDone
  <2>1. /\ loader' = op.new /\ staging' = 0 /\ op' = [op EXCEPT !.at = "fence", !.mark = invalidations # op.epoch]
    BY <1>4 DEF SwapLoader, Nothing
  <2>2. /\ TypeOK /\ op \in Operations /\ MaxGen \in Nat /\ loader \in Loaders /\ Loaders = 1..MaxGen /\ made \in Loaders
        /\ op.cur = loader /\ op.new = staging /\ op.new \in Loaders /\ op.new # loader /\ op.new <= made /\ loader <= made
        /\ gen[op.new] = op.gen /\ op.gen \in Gens /\ baseline = NoBaseline
    BY <1>1, BackgroundStands
  <2>3. op.gen # 0 /\ 0 <= made /\ op.new # 0 /\ 0 \in 0..MaxGen
    <3>1. op.gen \in 1..MaxGen /\ made \in 1..MaxGen /\ op.new \in 1..MaxGen
      BY <2>2 DEF Gens
    <3> QED
      BY <2>2, <3>1
  <2>4. /\ op' \in Operations /\ op'.at = "fence" /\ op'.cur = op.cur /\ op'.new = op.new /\ op'.gen = op.gen /\ op'.epoch = op.epoch
        /\ op'.base = op.base /\ op'.cand = op.cand /\ op'.low = op.low
        /\ op'.mark = (invalidations # op.epoch)
    <3>1. "fence" \in OpAt /\ (invalidations # op.epoch) \in BOOLEAN
      BY DEF OpAt
    <3>2. PICK m \in BOOLEAN : m = (invalidations # op.epoch)
      BY <3>1
    <3>3. op' = [op EXCEPT !.at = "fence", !.mark = m]
      BY <2>1, <3>2
    <3>4. /\ op' \in Operations /\ op'.at = "fence" /\ op'.cur = op.cur /\ op'.new = op.new /\ op'.gen = op.gen /\ op'.epoch = op.epoch
          /\ op'.base = op.base /\ op'.cand = op.cand /\ op'.low = op.low /\ op'.mark = m
      BY <2>2, <3>1, <3>3 DEF Operations
    <3> QED
      BY <3>2, <3>4
  <2>5. /\ "fence" \notin Maintaining /\ "fence" \notin Staged /\ "fence" \in Swapped /\ "fence" \notin Watching /\ "fence" \notin Current
        /\ "swap" \notin Maintaining
    BY DEF Maintaining, Staged, Swapped, Watching, Current
  <2>6. TypeOK' /\ (op \in Operations)'
    BY <1>2, <2>1, <2>2, <2>3, <2>4 DEF SInv, TypeOK, Operations
  <2>7. Retirement'
    BY <1>1, <1>2, <2>4, <2>5 DEF SInv, Retirement
  <2>8. Places'
    BY <1>1, <1>2, <2>1, <2>2, <2>3, <2>4, <2>5 DEF SInv, Places
  <2>9. Running'
    BY <1>1, <1>2, <2>1, <2>2, <2>4, <2>5 DEF SInv, Running
  <2>10. Finalizing'
    <3>1. fin = "none"
      BY <1>4 DEF SInv, Retirement
    <3> QED
      BY <1>2, <3>1 DEF Finalizing
  <2>11. Fresh'
    <3>1. invalidations \in Nat /\ since[op.new] \in Nat /\ op.epoch \in Nat
      <4>1. /\ invalidations \in 0..MaxInvalidations /\ since[op.new] \in 0..MaxInvalidations /\ op.epoch \in 0..MaxInvalidations
            /\ MaxInvalidations \in Nat
        BY <2>2, StoreTyped
      <4> QED
        BY <4>1
    <3>2. since[op.new] <= invalidations /\ op.epoch <= since[op.new]
      BY <1>1, <2>2 DEF SInv, Fresh
    <3>3. invalidations = op.epoch => since[op.new] = invalidations
      BY <3>1, <3>2
    <3>4. ~op'.mark => since[loader'] = invalidations
      BY <2>1, <2>4, <3>3
    <3> QED
      BY <1>2, <2>4, <3>4 DEF SInv, Fresh, MarkFollows
  <2>12. Covered'
    <3>1. covers[op.new] \in 0..MaxSchema /\ MaxSchema \in Nat
      BY <2>2, StoreTyped
    <3>2. 0 <= covers[op.new]
      BY <3>1
    <3> QED
      BY <1>2, <2>1, <2>2, <2>4, <2>5, <3>2, NoOpTyped DEF SInv, Covered
  <2>13. DetailFence'
    BY <2>4 DEF DetailFence
  <2>14. Unseen'
    BY <1>1, <1>2, BackgroundStands DEF SInv, Unseen
  <2> QED
    BY <2>6, <2>7, <2>8, <2>9, <2>10, <2>11, <2>12, <2>13, <2>14 DEF SInv
<1> QED
  BY <1>3, <1>4

\* The details follow the generation swapped in.
LEMMA FenceAfterSwapInv ==
  ASSUME SInv, FenceAfterSwap
  PROVE  SInv'
<1>1. /\ op.at = "fence" /\ op.at \in {"register"} \union Staged \union Swapped /\ Goto("stopOld") /\ dgen' = op.gen /\ dstale' = FALSE
      /\ op.at \in Swapped
  BY DEF FenceAfterSwap, Swapped
<1>2. /\ UNCHANGED <<loader, staging, retired, ctxDone, baseline, maintaining, invalidations, made, gen, stale, stopped, load, native,
                     since, covers, inv, reader, fin, owned, providerClosed, schema>>
  BY DEF FenceAfterSwap, trackVars, loaderVars, finVars
<1>3. TypeOK /\ op \in Operations /\ loader = op.new /\ gen[loader] = op.gen /\ op.gen \in Gens /\ "background" \in Ops
      /\ staging = 0 /\ op.cur # loader /\ op.cur <= made
  BY <1>1, BackgroundStands
<1>4. op' \in Operations /\ op'.at = "stopOld" /\ SameWork
  BY <1>1, <1>3, GotoMoves DEF OpAt
<1>5. /\ "stopOld" \notin Maintaining /\ "stopOld" \notin Staged /\ "stopOld" \in Swapped /\ "stopOld" \notin Watching /\ "stopOld" \notin Current
      /\ op.at \notin Maintaining
  BY <1>1 DEF Maintaining, Staged, Swapped, Watching, Current
<1>6. TypeOK' /\ (op \in Operations)'
  BY <1>1, <1>2, <1>3, <1>4 DEF SInv, TypeOK, Operations
<1>7. Retirement'
  BY <1>2, <1>4, <1>5 DEF SInv, Retirement
<1>8. Places'
  BY <1>1, <1>2, <1>3, <1>4, <1>5 DEF SInv, Places, SameWork
<1>9. Running' /\ Finalizing'
  BY <1>2, <1>4, <1>5 DEF SInv, Running, Finalizing, Held
<1>10. Fresh'
  BY <1>1, <1>2, <1>4 DEF SInv, Fresh, MarkFollows, SameWork
<1>11. Covered'
  BY <1>2, <1>4, <1>5 DEF SInv, Covered, SameWork
<1>12. DetailFence' /\ Unseen'
  BY <1>1, <1>2, <1>3, <1>4 DEF SInv, DetailFence, Unseen
<1> QED
  BY <1>6, <1>7, <1>8, <1>9, <1>10, <1>11, <1>12 DEF SInv

\* What stopping a loader that is not the published one leaves true.
LEMMA StopsOther ==
  ASSUME TypeOK, op \in Operations, NEW k \in Loaders, k # loader, stopped' = [stopped EXCEPT ![k] = TRUE], load' = Halted(k)
  PROVE  /\ stopped' \in [Loaders -> BOOLEAN] /\ load' \in [Loaders -> {"none", "loading", "ready", "failed", "cancelled"}]
         /\ stopped'[loader] = stopped[loader] /\ load'[loader] = load[loader]
         /\ \A l \in Loaders : stopped[l] => stopped'[l]
         /\ \A l \in Loaders : l # k => stopped'[l] = stopped[l]
<1>1. stopped \in [Loaders -> BOOLEAN] /\ load \in [Loaders -> {"none", "loading", "ready", "failed", "cancelled"}] /\ loader \in Loaders
  BY StoreTyped
<1>2. stopped' \in [Loaders -> BOOLEAN] /\ (\A l \in Loaders : stopped[l] => stopped'[l]) /\ (\A l \in Loaders : l # k => stopped'[l] = stopped[l])
  BY <1>1
<1>3. load' \in [Loaders -> {"none", "loading", "ready", "failed", "cancelled"}] /\ load'[loader] = load[loader]
  BY <1>1, HaltedLoads DEF Halted
<1> QED
  BY <1>1, <1>2, <1>3

\* A loader made is not beyond those made.
LEMMA MadeStays ==
  ASSUME SInv, NEW k \in Loaders, k <= made, \A l \in Loaders : l # k => stopped'[l] = stopped[l]
  PROVE  \A l \in Loaders : l > made => ~stopped'[l]
<1>1. k \in 1..MaxGen /\ made \in 1..MaxGen /\ MaxGen \in Nat /\ Loaders = 1..MaxGen
  BY StoreTyped DEF SInv
<1>2. \A l \in Loaders : l > made => l # k
  BY <1>1
<1> QED
  BY <1>2 DEF SInv, Places

\* The finalizer keeps what it has stopped.
LEMMA FinalizerKeeps ==
  ASSUME SInv, UNCHANGED <<loader, made, native, fin, owned>>, stopped' \in [Loaders -> BOOLEAN], \A l \in Loaders : stopped[l] => stopped'[l]
  PROVE  Finalizing'
<1>1. loader \in Loaders /\ owned \in Seq(Loaders)
  BY DEF SInv, TypeOK
<1>2. fin = "drain" => owned[1] \in Loaders
  <2>1. SUFFICES ASSUME fin = "drain" PROVE owned[1] \in Loaders
    OBVIOUS
  <2>2. Len(owned) \in 1..2
    BY <2>1 DEF SInv, Finalizing
  <2> QED
    BY <1>1, <2>2
<1> QED
  BY <1>1, <1>2 DEF SInv, Finalizing, Held

\* The loader that was replaced is stopped.
LEMMA StopOldInv ==
  ASSUME SInv, StopOld
  PROVE  SInv'
<1>1. /\ op.at = "stopOld" /\ op.at \in {"register"} \union Staged \union Swapped /\ op.at \in Swapped
      /\ stopped' = [stopped EXCEPT ![op.cur] = TRUE] /\ load' = Halted(op.cur)
      /\ op' = IF op.mark THEN [op EXCEPT !.at = "markNew"] ELSE NoOp
  BY DEF StopOld, Swapped
<1>2. /\ UNCHANGED <<loader, staging, retired, ctxDone, baseline, maintaining, invalidations, made, gen, stale, native,
                     since, covers, dgen, dstale, inv, reader, fin, owned, providerClosed, schema>>
  BY DEF StopOld, trackVars, fenceVars, finVars
<1>3. TypeOK /\ op \in Operations /\ loader = op.new /\ gen[loader] = op.gen /\ op.gen \in Gens /\ "background" \in Ops
      /\ staging = 0 /\ op.cur # loader /\ op.cur <= made /\ op.cur \in Loaders
  BY <1>1, BackgroundStands
<1>4. PICK k \in Loaders : k = op.cur
  BY <1>3
<1>5. /\ stopped' \in [Loaders -> BOOLEAN] /\ load' \in [Loaders -> {"none", "loading", "ready", "failed", "cancelled"}]
      /\ stopped'[loader] = stopped[loader] /\ load'[loader] = load[loader]
      /\ \A l \in Loaders : stopped[l] => stopped'[l]
      /\ \A l \in Loaders : l # k => stopped'[l] = stopped[l]
  BY <1>1, <1>3, <1>4, StopsOther
<1>6. \/ op.mark /\ op' \in Operations /\ op'.at = "markNew" /\ SameWork
      \/ ~op.mark /\ op' \in Operations /\ op'.at = "idle" /\ op'.epoch = 0 /\ op'.cand = 0 /\ op'.low = 0 /\ op' = NoOp
  <2>1. CASE op.mark
    <3>1. Goto("markNew")
      BY <1>1, <2>1 DEF Goto
    <3> QED
      BY <1>3, <2>1, <3>1, GotoMoves DEF OpAt
  <2>2. CASE ~op.mark
    BY <1>1, <2>2, NoOpTyped
  <2> QED
    BY <2>1, <2>2
<1>7. op' \in Operations /\ op'.at \in {"markNew", "idle"}
  BY <1>6
<1>8. /\ op'.at \notin Maintaining /\ op'.at \notin Staged /\ op'.at \notin Watching /\ op'.at \notin Current
      /\ op.at \notin Maintaining /\ op'.at \notin {"fence", "reset", "restart", "begin", "renew", "register", "wait", "retire", "settle", "swap", "launch", "full", "publish", "unchanged"}
  BY <1>1, <1>7 DEF Maintaining, Staged, Swapped, Watching, Current
<1>9. op'.at \in OpAt
  BY <1>7 DEF OpAt
<1>10. TypeOK' /\ (op \in Operations)'
  BY <1>2, <1>5, <1>7, <1>9 DEF SInv, TypeOK
<1>11. Retirement'
  BY <1>2, <1>8 DEF SInv, Retirement
<1>12. Places'
  <2>1. \A l \in Loaders : l > made => ~stopped'[l]
    BY <1>3, <1>4, <1>5, MadeStays
  <2>2. op'.at # "idle" => op'.cur = op.cur /\ op'.new = op.new /\ op'.gen = op.gen
    BY <1>6 DEF SameWork
  <2>3. op'.at \in Swapped => op'.at # "idle"
    BY DEF Swapped
  <2>4. op.cur # 0 /\ op.gen # 0
    BY <1>1 DEF SInv, Places, Swapped
  <2> QED
    BY <1>2, <1>3, <1>8, <2>1, <2>2, <2>3, <2>4 DEF SInv, Places
<1>13. Running'
  BY <1>2, <1>5, <1>8 DEF SInv, Running
<1>14. Finalizing'
  BY <1>2, <1>5, FinalizerKeeps
<1>15. Fresh'
  <2>1. op'.epoch <= invalidations
    <3>1. invalidations \in Nat
      BY <1>3, StoreTyped
    <3>2. 0 <= invalidations
      BY <3>1
    <3> QED
      BY <1>6, <3>2 DEF SInv, Fresh, SameWork
  <2>2. ~retired /\ ~stale[loader] /\ load[loader] \in {"loading", "ready"} /\ ~op.mark => since[loader] = invalidations
    BY DEF SInv, Fresh, MarkFollows
  <2>3. op.mark => op'.at = "markNew" /\ op'.mark
    BY <1>6 DEF SameWork
  <2>4. \A l \in Loaders : since[l] <= invalidations
    BY DEF SInv, Fresh
  <2> QED
    BY <1>2, <1>5, <1>8, <2>1, <2>2, <2>3, <2>4 DEF Fresh, MarkFollows
<1>16. Covered'
  <2>1. op'.cand <= schema /\ op'.low <= schema
    <3>1. schema \in 1..MaxSchema /\ MaxSchema \in Nat
      BY <1>3, StoreTyped
    <3>2. 0 <= schema
      BY <3>1
    <3> QED
      BY <1>6, <3>2 DEF SInv, Covered, SameWork
  <2> QED
    BY <1>2, <1>8, <2>1 DEF SInv, Covered
<1>17. DetailFence' /\ Unseen'
  BY <1>1, <1>2, <1>3, <1>8 DEF SInv, DetailFence, Unseen
<1> QED
  BY <1>10, <1>11, <1>12, <1>13, <1>14, <1>15, <1>16, <1>17 DEF SInv

\* The mark that follows.
LEMMA MarkNewStaleInv ==
  ASSUME SInv, MarkNewStale
  PROVE  SInv'
<1>1. op.at = "markNew" /\ op.at \in {"register"} \union Staged \union Swapped /\ op.at \in Swapped /\ Goto("markDetails")
  BY DEF MarkNewStale, Swapped
<1>2. /\ UNCHANGED <<loader, staging, retired, ctxDone, baseline, maintaining, invalidations, made, gen, stopped, native,
                     since, covers, dgen, dstale, inv, reader, fin, owned, providerClosed, schema>>
  BY DEF MarkNewStale, trackVars, fenceVars, finVars
<1>3. TypeOK /\ op \in Operations /\ loader = op.new /\ loader \in Loaders /\ gen[loader] = op.gen /\ op.gen \in Gens /\ "background" \in Ops
      /\ staging = 0 /\ op.cur # loader /\ op.cur <= made
  BY <1>1, BackgroundStands
<1>4. op' \in Operations /\ op'.at = "markDetails" /\ SameWork
  BY <1>1, <1>3, GotoMoves DEF OpAt
<1>5. /\ "markDetails" \notin Maintaining /\ "markDetails" \notin Staged /\ "markDetails" \in Swapped /\ "markDetails" \notin Watching
      /\ "markDetails" \notin Current /\ op.at \notin Maintaining
  BY <1>1 DEF Maintaining, Staged, Swapped, Watching, Current
<1>6. \/ stopped[loader] /\ UNCHANGED <<stale, load>>
      \/ stale' = [stale EXCEPT ![loader] = TRUE] /\ load' = Halted(loader)
  BY <1>3 DEF MarkNewStale
<1>7. /\ stale' \in [Loaders -> BOOLEAN] /\ load' \in [Loaders -> {"none", "loading", "ready", "failed", "cancelled"}]
      /\ ~retired => stale'[loader]
  <2>1. CASE stopped[loader] /\ UNCHANGED <<stale, load>>
    BY <1>3, <2>1 DEF SInv, Running, TypeOK
  <2>2. CASE stale' = [stale EXCEPT ![loader] = TRUE] /\ load' = Halted(loader)
    <3>1. stale' \in [Loaders -> BOOLEAN] /\ stale'[loader]
      BY <1>3, <2>2, StoreTyped
    <3> QED
      BY <1>3, <2>2, <3>1, HaltedLoads
  <2> QED
    BY <1>6, <2>1, <2>2
<1>8. TypeOK' /\ (op \in Operations)'
  BY <1>2, <1>4, <1>7 DEF SInv, TypeOK, Operations
<1>9. Retirement'
  BY <1>2, <1>4, <1>5 DEF SInv, Retirement
<1>10. Places'
  BY <1>1, <1>2, <1>3, <1>4, <1>5 DEF SInv, Places, SameWork
<1>11. Running' /\ Finalizing'
  BY <1>2, <1>4, <1>5 DEF SInv, Running, Finalizing, Held
<1>12. Fresh'
  BY <1>2, <1>4, <1>7 DEF SInv, Fresh, MarkFollows, SameWork
<1>13. Covered'
  BY <1>2, <1>4, <1>5 DEF SInv, Covered, SameWork
<1>14. DetailFence' /\ Unseen'
  BY <1>1, <1>2, <1>3, <1>4 DEF SInv, DetailFence, Unseen
<1> QED
  BY <1>8, <1>9, <1>10, <1>11, <1>12, <1>13, <1>14 DEF SInv

\* The details are marked with the loader.
LEMMA MarkDetailsStaleInv ==
  ASSUME SInv, MarkDetailsStale
  PROVE  SInv'
<1>1. op.at = "markDetails" /\ op.at \in {"register"} \union Staged \union Swapped /\ op' = NoOp /\ dstale' = TRUE
  BY DEF MarkDetailsStale, Swapped
<1>2. /\ UNCHANGED <<loader, staging, retired, ctxDone, baseline, maintaining, invalidations, made, gen, stale, stopped, load, native,
                     since, covers, dgen, inv, reader, fin, owned, providerClosed, schema>>
  BY DEF MarkDetailsStale, trackVars, loaderVars, finVars
<1>3. op.at \notin Staged /\ op.at \notin Maintaining /\ op.at \notin {"reset", "fence", "stopOld", "markNew"}
  BY <1>1 DEF Staged, Maintaining, Watching
<1>4. /\ NoOp \in Operations /\ FitsRetirement(NoOp) /\ FitsPlaces(NoOp) /\ FitsRunning(NoOp)
      /\ FitsFresh(NoOp) /\ FitsCovered(NoOp) /\ FitsFence(NoOp) /\ NoOp.at = "idle"
  BY <1>3, NoOpFits, NoOpTyped
<1>5. TypeOK' /\ (op \in Operations)'
  <2>1. op'.at \in OpAt
    BY <1>1, <1>4 DEF OpAt
  <2> QED
    BY <1>1, <1>2, <1>4, <2>1 DEF SInv, TypeOK, Operations
<1>6. Retirement' /\ Places'
  BY <1>1, <1>2, <1>4 DEF SInv, Retirement, FitsRetirement, Places, FitsPlaces
<1>7. Running' /\ Finalizing'
  BY <1>1, <1>2, <1>4 DEF SInv, Running, FitsRunning, Finalizing, Held
<1>8. Fresh' /\ Covered'
  BY <1>1, <1>2, <1>4 DEF SInv, Fresh, MarkFollows, FitsFresh, Covered, FitsCovered
<1>9. DetailFence' /\ Unseen'
  BY <1>1, <1>2, <1>4 DEF SInv, DetailFence, Unseen, FitsFence
<1> QED
  BY <1>5, <1>6, <1>7, <1>8, <1>9 DEF SInv

\* A staging loader that is discarded is stopped.
LEMMA DiscardStopsInv ==
  ASSUME SInv, DiscardStops
  PROVE  SInv'
<1>1. /\ op.at = "discard" /\ op.at \in {"register"} \union Staged \union Swapped /\ op.at \in Staged /\ op.at \in Current
      /\ stopped' = [stopped EXCEPT ![op.new] = TRUE] /\ load' = Halted(op.new) /\ Goto("await")
  BY DEF DiscardStops, Staged, Current
<1>2. /\ UNCHANGED <<loader, staging, retired, ctxDone, baseline, maintaining, invalidations, made, gen, stale, native,
                     since, covers, dgen, dstale, inv, reader, fin, owned, providerClosed, schema>>
  BY DEF DiscardStops, trackVars, fenceVars, finVars
<1>3. TypeOK /\ op \in Operations /\ op.new \in Loaders /\ op.new # loader /\ op.new <= made /\ "background" \in Ops
  BY <1>1, BackgroundStands
<1>4. PICK k \in Loaders : k = op.new
  BY <1>3
<1>5. /\ stopped' \in [Loaders -> BOOLEAN] /\ load' \in [Loaders -> {"none", "loading", "ready", "failed", "cancelled"}]
      /\ stopped'[loader] = stopped[loader] /\ load'[loader] = load[loader]
      /\ \A l \in Loaders : stopped[l] => stopped'[l]
      /\ \A l \in Loaders : l # k => stopped'[l] = stopped[l]
  BY <1>1, <1>3, <1>4, StopsOther
<1>6. op' \in Operations /\ op'.at = "await" /\ SameWork
  BY <1>1, <1>3, GotoMoves DEF OpAt
<1>7. /\ "await" \notin Maintaining /\ "await" \in Staged /\ "await" \in Current /\ "await" \notin Swapped /\ "await" \notin Watching
      /\ op.at \notin Maintaining
  BY <1>1 DEF Maintaining, Staged, Swapped, Watching, Current
<1>8. TypeOK' /\ (op \in Operations)'
  BY <1>2, <1>5, <1>6 DEF SInv, TypeOK, Operations
<1>9. Retirement'
  BY <1>2, <1>6, <1>7 DEF SInv, Retirement
<1>10. Places'
  <2>1. \A l \in Loaders : l > made => ~stopped'[l]
    BY <1>3, <1>4, <1>5, MadeStays
  <2> QED
    BY <1>1, <1>2, <1>6, <1>7, <2>1 DEF SInv, Places, SameWork
<1>11. Running'
  BY <1>2, <1>5, <1>6, <1>7 DEF SInv, Running
<1>12. Finalizing'
  BY <1>2, <1>5, FinalizerKeeps
<1>13. Fresh'
  BY <1>1, <1>2, <1>5, <1>6 DEF SInv, Fresh, MarkFollows, SameWork
<1>14. Covered'
  BY <1>1, <1>2, <1>6, <1>7 DEF SInv, Covered, SameWork
<1>15. DetailFence' /\ Unseen'
  BY <1>1, <1>2, <1>3, <1>6 DEF SInv, DetailFence, Unseen
<1> QED
  BY <1>8, <1>9, <1>10, <1>11, <1>12, <1>13, <1>14, <1>15 DEF SInv

\* It is forgotten when its native work has returned.
LEMMA DiscardForgetsInv ==
  ASSUME SInv, DiscardForgets
  PROVE  SInv'
<1>1. /\ op.at = "await" /\ op.at \in {"register"} \union Staged \union Swapped /\ op.at \in Staged /\ op' = NoOp /\ staging' = 0
      /\ native[op.new] = {}
  BY DEF DiscardForgets, Staged, Nothing
<1>2. /\ UNCHANGED <<loader, retired, ctxDone, baseline, maintaining, invalidations, made, gen, stale, stopped, load, native,
                     since, covers, dgen, dstale, inv, reader, fin, owned, providerClosed, schema>>
  BY DEF DiscardForgets, loaderVars, fenceVars, finVars
<1>3. TypeOK /\ op \in Operations /\ staging = op.new /\ "background" \in Ops /\ MaxGen \in Nat /\ op.at \notin Maintaining
  BY <1>1, BackgroundStands
<1>4. /\ op' \in Operations /\ op'.at = "idle" /\ op'.epoch = 0 /\ op'.cand = 0 /\ op'.low = 0
  BY <1>1, NoOpTyped
<1>5. /\ "idle" \notin Maintaining /\ "idle" \notin Staged /\ "idle" \notin Swapped /\ "idle" \notin Watching /\ "idle" \notin Current
      /\ "idle" \in OpAt
  BY DEF Maintaining, Staged, Swapped, Watching, Current, OpAt
<1>6. invalidations \in Nat /\ schema \in Nat /\ made \in Nat
  <2>1. /\ invalidations \in 0..MaxInvalidations /\ MaxInvalidations \in Nat /\ schema \in 1..MaxSchema /\ MaxSchema \in Nat
        /\ made \in Loaders /\ Loaders = 1..MaxGen
    BY <1>3, StoreTyped
  <2> QED
    BY <1>3, <2>1
<1>7. 0 <= invalidations /\ 0 <= schema /\ 0 <= made /\ 0 \in 0..MaxGen
  BY <1>3, <1>6
<1>8. TypeOK' /\ (op \in Operations)'
  BY <1>1, <1>2, <1>4, <1>5, <1>7 DEF SInv, TypeOK
<1>9. Retirement'
  BY <1>2, <1>3, <1>4, <1>5 DEF SInv, Retirement
<1>10. Places'
  BY <1>1, <1>2, <1>4, <1>5, <1>7 DEF SInv, Places
<1>11. Running'
  BY <1>1, <1>2, <1>3, <1>4, <1>5 DEF SInv, Running
<1>12. Finalizing'
  BY <1>2 DEF SInv, Finalizing, Held
<1>13. Fresh'
  BY <1>1, <1>2, <1>4, <1>7 DEF SInv, Fresh, MarkFollows
<1>14. Covered'
  BY <1>2, <1>4, <1>5, <1>7 DEF SInv, Covered
<1>15. DetailFence' /\ Unseen'
  BY <1>1, <1>2, <1>3, <1>4 DEF SInv, DetailFence, Unseen
<1> QED
  BY <1>8, <1>9, <1>10, <1>11, <1>12, <1>13, <1>14, <1>15 DEF SInv

-----------------------------------------------------------------------------
(* Maintain.                                                               *)

\* The attempt begins on a live store, with its epoch and its baseline.
LEMMA MaintainBeginsInv ==
  ASSUME SInv, NEW check \in BOOLEAN, MaintainBegins(check)
  PROVE  SInv'
<1>1. /\ op.at = "idle" /\ ~retired /\ ~ctxDone /\ gen[loader] < MaxGen /\ made < MaxGen
      /\ op' = [NoOp EXCEPT !.at = "wait", !.cur = loader, !.epoch = invalidations, !.base = baseline, !.full = ~check]
      /\ maintaining' = TRUE
  BY DEF MaintainBegins
<1>2. /\ UNCHANGED <<loader, staging, retired, ctxDone, baseline, invalidations, made, gen, stale, stopped, load, native,
                     since, covers, dgen, dstale, inv, reader, fin, owned, providerClosed, schema>>
  BY DEF MaintainBegins, loaderVars, fenceVars, finVars
<1>3. /\ TypeOK /\ op \in Operations
  BY DEF SInv
<1>4. /\ loader \in 1..MaxGen /\ MaxGen \in Nat /\ invalidations \in 0..MaxInvalidations /\ MaxInvalidations \in Nat
      /\ baseline \in Baselines /\ schema \in 1..MaxSchema /\ MaxSchema \in Nat
  BY <1>3, StoreTyped
<1>5. loader \in 0..MaxGen /\ loader # 0 /\ invalidations <= invalidations /\ 0 <= schema /\ "wait" \in OpAt
  BY <1>4 DEF OpAt
<1>6. /\ op' \in Operations /\ op'.at = "wait" /\ op'.cur = loader /\ op'.epoch = invalidations /\ op'.base = baseline
      /\ op'.cand = 0 /\ op'.low = 0
  <2>1. PICK f \in BOOLEAN : f = ~check
    OBVIOUS
  <2>2. op' = [NoOp EXCEPT !.at = "wait", !.cur = loader, !.epoch = invalidations, !.base = baseline, !.full = f]
    BY <1>1, <2>1
  <2> QED
    BY <1>4, <1>5, <2>1, <2>2, NoOpTyped DEF Operations
<1>7. /\ "wait" \in Maintaining /\ "wait" \in Current /\ "wait" \notin Staged /\ "wait" \notin Swapped /\ "wait" \notin Watching
      /\ "idle" \notin Staged
  BY DEF Maintaining, Staged, Swapped, Watching, Current
<1>8. fin = "none"
  BY <1>1 DEF SInv, Retirement
<1>9. TypeOK' /\ (op \in Operations)'
  BY <1>1, <1>2, <1>5, <1>6 DEF SInv, TypeOK, Operations
<1>10. Retirement'
  BY <1>1, <1>2, <1>6, <1>7, <1>8 DEF SInv, Retirement, FinPast
<1>11. Places'
  BY <1>1, <1>2, <1>5, <1>6, <1>7 DEF SInv, Places
<1>12. Running' /\ Finalizing'
  BY <1>2, <1>6, <1>7, <1>8 DEF SInv, Running, Finalizing
<1>13. Fresh'
  BY <1>1, <1>2, <1>5, <1>6 DEF SInv, Fresh, MarkFollows
<1>14. Covered'
  BY <1>2, <1>5, <1>6, <1>7 DEF SInv, Covered
<1>15. DetailFence' /\ Unseen'
  BY <1>1, <1>2, <1>6, <1>7 DEF SInv, DetailFence, Unseen
<1> QED
  BY <1>9, <1>10, <1>11, <1>12, <1>13, <1>14, <1>15 DEF SInv

\* The settled loader takes the place of the one it was read from, with the fence of
\* the details and the baseline.
LEMMA MaintainPublishesInv ==
  ASSUME SInv, MaintainPublishes
  PROVE  SInv'
<1>1. /\ op.at = "publish" /\ op.at \in Watching /\ ~ctxDone /\ ~retired /\ loader = op.cur /\ gen[op.cur] = op.gen
      /\ invalidations = op.epoch /\ op' = [op EXCEPT !.at = "retire"]
      /\ dgen' = op.gen + 1 /\ dstale' = FALSE
      /\ baseline' = IF op.cand = 0 THEN NoBaseline ELSE [fp |-> op.cand, gen |-> op.gen + 1, epoch |-> op.epoch]
  BY DEF MaintainPublishes, Fence, Watching, Generation
<1>2. /\ UNCHANGED <<staging, retired, ctxDone, maintaining, invalidations, stale, stopped, native, inv,
                     reader, fin, owned, providerClosed, schema>>
  BY DEF MaintainPublishes, finVars
<1>3. PICK l : l = made + 1
  OBVIOUS
<1>4. /\ loader' = l /\ made' = l /\ gen' = [gen EXCEPT ![l] = op.gen + 1] /\ load' = [load EXCEPT ![l] = "ready"]
      /\ since' = [since EXCEPT ![l] = op.epoch] /\ covers' = [covers EXCEPT ![l] = op.low]
  BY <1>3 DEF MaintainPublishes, Generation
<1>5. /\ TypeOK /\ op \in Operations /\ op.cur = loader /\ native[loader] = {} /\ op.at \in Maintaining
      /\ op.low <= schema /\ op.cand \in 0..MaxSchema /\ op.low \in 0..MaxSchema
  BY <1>1, ReadingStands
<1>6. /\ loader \in Loaders /\ made \in Loaders /\ Loaders = 1..MaxGen /\ MaxGen \in Nat /\ op.gen \in 0..MaxGen /\ MaxSchema \in Nat
      /\ op.epoch \in 0..MaxInvalidations /\ MaxInvalidations \in Nat
  BY <1>5, StoreTyped
<1>7. gen[loader] < MaxGen /\ made < MaxGen /\ loader <= made /\ staging = 0
  <2>1. op.at \notin Staged
    BY <1>1 DEF Staged
  <2> QED
    BY <1>1, <2>1 DEF SInv, Places
<1>8. /\ l \in Loaders /\ l # loader /\ l > made /\ l <= l /\ 0 <= l /\ loader <= l /\ op.gen < op.gen + 1 /\ op.gen + 1 \in Gens /\ op.gen + 1 \in 0..MaxGen
      /\ op.gen + 1 # 0 /\ loader # 0 /\ \A k \in Loaders : k > l => k > made
  <2>1. op.gen < MaxGen /\ op.gen \in 0..MaxGen
    BY <1>1, <1>6, <1>7
  <2>2. op.gen < op.gen + 1 /\ op.gen + 1 \in Gens /\ op.gen + 1 \in 0..MaxGen /\ op.gen + 1 # 0
    BY <1>6, <2>1 DEF Gens
  <2> QED
    BY <1>3, <1>6, <1>7, <2>2
<1>9. /\ gen' \in [Loaders -> 0..MaxGen] /\ gen'[l] = op.gen + 1 /\ \A k \in Loaders : k # l => gen'[k] = gen[k]
  BY <1>4, <1>5, <1>8, StoreTyped
<1>10. load' \in [Loaders -> {"none", "loading", "ready", "failed", "cancelled"}]
  BY <1>4, <1>5, <1>8, StoreTyped
<1>11. /\ since' \in [Loaders -> 0..MaxInvalidations] /\ since'[l] = op.epoch /\ \A k \in Loaders : k # l => since'[k] = since[k]
       /\ covers' \in [Loaders -> 0..MaxSchema] /\ covers'[l] = op.low /\ \A k \in Loaders : k # l => covers'[k] = covers[k]
  BY <1>4, <1>5, <1>6, <1>8, StoreTyped
<1>12. baseline' \in Baselines /\ baseline'.fp <= op.low
  <2>1. op.cand <= op.low
    BY <1>1 DEF SInv, Covered
  <2>2. CASE op.cand = 0
    BY <1>1, <2>1, <2>2, NoOpTyped
  <2>3. CASE op.cand # 0
    <3>1. baseline' = [fp |-> op.cand, gen |-> op.gen + 1, epoch |-> op.epoch]
      BY <1>1, <2>3
    <3> QED
      BY <1>5, <1>6, <1>8, <2>1, <3>1 DEF Baselines
  <2> QED
    BY <2>2, <2>3
<1>13. /\ op' \in Operations /\ op'.at = "retire" /\ op'.cur = loader /\ op'.epoch = op.epoch /\ op'.cand = op.cand /\ op'.low = op.low
  BY <1>1, <1>5, OpMoves DEF OpAt
<1>14. /\ "retire" \in Maintaining /\ "retire" \notin Staged /\ "retire" \notin Swapped /\ "retire" \notin Watching /\ "retire" \notin Current
  BY DEF Maintaining, Staged, Swapped, Watching, Current
<1>15. fin = "none"
  BY <1>1 DEF SInv, Retirement
<1>16. TypeOK' /\ (op \in Operations)'
  BY <1>1, <1>2, <1>4, <1>8, <1>9, <1>10, <1>11, <1>12, <1>13 DEF SInv, TypeOK, Operations, Baselines
<1>17. Retirement'
  BY <1>2, <1>5, <1>13, <1>14, <1>15 DEF SInv, Retirement, FinPast
<1>18. Places'
  <2>1. \A k \in Loaders : k > made' => native'[k] = {} /\ ~stopped'[k]
    BY <1>2, <1>4, <1>8 DEF SInv, Places
  <2> QED
    BY <1>2, <1>4, <1>7, <1>8, <1>9, <1>13, <1>14, <2>1 DEF Places
<1>19. Running'
  <2>1. ~stopped[l]
    BY <1>8 DEF SInv, Places
  <2>2. \A k \in Loaders : native[k] = {}
    <3>1. 0 \notin Loaders
      BY <1>6
    <3> QED
      BY <1>5, <1>7, <3>1 DEF SInv, Running
  <2> QED
    BY <1>2, <1>4, <1>13, <1>14, <2>1, <2>2 DEF Running
<1>20. Finalizing'
  BY <1>2, <1>15 DEF Finalizing
<1>21. Fresh'
  <2>1. \A k \in Loaders : since'[k] <= invalidations
    <3>1. op.epoch <= invalidations
      BY DEF SInv, Fresh
    <3> QED
      BY <1>11, <3>1 DEF SInv, Fresh
  <2> QED
    BY <1>1, <1>2, <1>4, <1>11, <1>13, <2>1 DEF SInv, Fresh, MarkFollows
<1>22. Covered'
  <2>1. \A k \in Loaders : covers'[k] <= schema
    BY <1>5, <1>11 DEF SInv, Covered
  <2> QED
    BY <1>2, <1>4, <1>11, <1>12, <1>13, <1>14, <2>1 DEF SInv, Covered
<1>23. DetailFence'
  BY <1>1, <1>4, <1>9 DEF DetailFence
<1>24. "background" \notin Ops => \A k \in Loaders : gen'[k] <= gen'[l]
  <2>1. SUFFICES ASSUME "background" \notin Ops, NEW k \in Loaders PROVE gen'[k] <= gen'[l]
    OBVIOUS
  <2>2. gen[k] <= op.gen /\ gen[k] \in 0..MaxGen
    BY <1>1, <1>5, <2>1, StoreTyped DEF SInv, Unseen
  <2>3. gen[k] <= op.gen + 1 /\ op.gen + 1 <= op.gen + 1
    BY <1>6, <2>2
  <2> QED
    BY <1>9, <2>3
<1>25. "background" \notin Ops => \A r \in Readers : reader[r].gen <= gen'[l]
  <2>1. SUFFICES ASSUME "background" \notin Ops, NEW r \in Readers PROVE reader[r].gen <= gen'[l]
    OBVIOUS
  <2>2. reader[r].gen <= op.gen /\ reader[r].gen \in 0..MaxGen
    BY <1>1, <1>5, <2>1 DEF SInv, Unseen, TypeOK
  <2> QED
    BY <1>6, <1>9, <2>2
<1>26. Unseen'
  BY <1>2, <1>4, <1>13, <1>14, <1>15, <1>24, <1>25 DEF SInv, Unseen
<1> QED
  BY <1>16, <1>17, <1>18, <1>19, <1>20, <1>21, <1>22, <1>23, <1>26 DEF SInv

\* The loader that was replaced is stopped.
LEMMA MaintainRetiresOldInv ==
  ASSUME SInv, MaintainRetiresOld
  PROVE  SInv'
<1>1. /\ op.at = "retire" /\ stopped' = [stopped EXCEPT ![op.cur] = TRUE] /\ load' = Halted(op.cur) /\ Goto("leave")
  BY DEF MaintainRetiresOld
<1>2. /\ UNCHANGED <<loader, staging, retired, ctxDone, baseline, maintaining, invalidations, made, gen, stale, native,
                     since, covers, dgen, dstale, inv, reader, fin, owned, providerClosed, schema>>
  BY DEF MaintainRetiresOld, trackVars, fenceVars, finVars
<1>3. TypeOK /\ op \in Operations /\ op.cur # loader /\ op.cur # 0 /\ op.cur <= made
  BY <1>1 DEF SInv, Places
<1>4. PICK k \in Loaders : k = op.cur
  <2>1. op.cur \in 0..MaxGen /\ MaxGen \in Nat /\ Loaders = 1..MaxGen
    BY <1>3, StoreTyped
  <2> QED
    BY <1>3, <2>1
<1>5. /\ stopped' \in [Loaders -> BOOLEAN] /\ load' \in [Loaders -> {"none", "loading", "ready", "failed", "cancelled"}]
      /\ stopped'[loader] = stopped[loader] /\ load'[loader] = load[loader]
      /\ \A l \in Loaders : stopped[l] => stopped'[l]
      /\ \A l \in Loaders : l # k => stopped'[l] = stopped[l]
  BY <1>1, <1>3, <1>4, StopsOther
<1>6. op' \in Operations /\ op'.at = "leave" /\ SameWork
  BY <1>1, <1>3, GotoMoves DEF OpAt
<1>7. /\ "leave" \in Maintaining /\ "leave" \notin Staged /\ "leave" \notin Current /\ "leave" \notin Swapped /\ "leave" \notin Watching
      /\ op.at \in Maintaining /\ op.at \notin Staged /\ op.at \notin Swapped
  BY <1>1 DEF Maintaining, Staged, Swapped, Watching, Current
<1>8. TypeOK' /\ (op \in Operations)'
  BY <1>2, <1>5, <1>6 DEF SInv, TypeOK, Operations
<1>9. Retirement'
  BY <1>2, <1>6, <1>7 DEF SInv, Retirement
<1>10. Places'
  <2>1. \A l \in Loaders : l > made => ~stopped'[l]
    BY <1>3, <1>4, <1>5, MadeStays
  <2> QED
    BY <1>1, <1>2, <1>6, <1>7, <2>1 DEF SInv, Places, SameWork
<1>11. Running'
  BY <1>2, <1>5, <1>6, <1>7 DEF SInv, Running
<1>12. Finalizing'
  BY <1>2, <1>5, FinalizerKeeps
<1>13. Fresh'
  BY <1>1, <1>2, <1>5, <1>6 DEF SInv, Fresh, MarkFollows, SameWork
<1>14. Covered'
  BY <1>2, <1>6, <1>7 DEF SInv, Covered, SameWork
<1>15. DetailFence' /\ Unseen'
  BY <1>1, <1>2, <1>6, <1>7 DEF SInv, DetailFence, Unseen
<1> QED
  BY <1>8, <1>9, <1>10, <1>11, <1>12, <1>13, <1>14, <1>15 DEF SInv

\* The attempt ends, and the finalizer may go on.
LEMMA MaintainLeavesInv ==
  ASSUME SInv, MaintainLeaves
  PROVE  SInv'
<1>1. op.at = "leave" /\ op' = NoOp /\ maintaining' = FALSE
  BY DEF MaintainLeaves
<1>2. /\ UNCHANGED <<loader, staging, retired, ctxDone, baseline, invalidations, made, gen, stale, stopped, load, native,
                     since, covers, dgen, dstale, inv, reader, fin, owned, providerClosed, schema>>
  BY DEF MaintainLeaves, loaderVars, fenceVars, finVars
<1>3. TypeOK /\ op \in Operations
  BY DEF SInv
<1>4. /\ op' \in Operations /\ op'.at = "idle" /\ op'.epoch = 0 /\ op'.cand = 0 /\ op'.low = 0
  BY <1>1, NoOpTyped
<1>5. /\ "idle" \notin Maintaining /\ "idle" \notin Staged /\ "idle" \notin Swapped /\ "idle" \notin Watching /\ "idle" \notin Current
      /\ "idle" \in OpAt /\ "leave" \notin Staged
  BY DEF Maintaining, Staged, Swapped, Watching, Current, OpAt
<1>6. 0 <= invalidations /\ 0 <= schema
  <2>1. /\ invalidations \in 0..MaxInvalidations /\ MaxInvalidations \in Nat /\ schema \in 1..MaxSchema /\ MaxSchema \in Nat
    BY <1>3, StoreTyped
  <2> QED
    BY <2>1
<1>7. TypeOK' /\ (op \in Operations)'
  BY <1>1, <1>2, <1>4, <1>5 DEF SInv, TypeOK, Operations
<1>8. Retirement'
  BY <1>1, <1>2, <1>4, <1>5 DEF SInv, Retirement
<1>9. Places'
  BY <1>1, <1>2, <1>4, <1>5 DEF SInv, Places
<1>10. Running' /\ Finalizing'
  BY <1>2, <1>4, <1>5 DEF SInv, Running, Finalizing, Held
<1>11. Fresh'
  BY <1>1, <1>2, <1>4, <1>6 DEF SInv, Fresh, MarkFollows
<1>12. Covered'
  BY <1>2, <1>4, <1>5, <1>6 DEF SInv, Covered
<1>13. DetailFence' /\ Unseen'
  BY <1>1, <1>2, <1>4, <1>5 DEF SInv, DetailFence, Unseen
<1> QED
  BY <1>7, <1>8, <1>9, <1>10, <1>11, <1>12, <1>13 DEF SInv

-----------------------------------------------------------------------------
(* Lease.Detail.                                                           *)

\* A reader moves: it is bound to a loader there is, its generation is one that has been
\* published, and nothing is acquired once the details have been drained.
LEMMA ReaderMoves ==
  ASSUME SInv, UNCHANGED <<trackVars, invalidations, loaderVars, fenceVars, op, inv, finVars, schema>>,
         NEW r \in Readers,
         NEW s \in [at : {"idle", "open", "bound", "refused", "acquire", "loading"}, loader : 0..MaxGen, gen : 0..MaxGen],
         reader' = [reader EXCEPT ![r] = s],
         s.at = "bound" => s.loader # 0,
         "background" \notin Ops => s.gen <= gen[loader],
         "background" \notin Ops /\ fin \in {"close", "done"} => s.at # "loading"
  PROVE  SInv'
<1>1. UNCHANGED <<loader, staging, retired, ctxDone, baseline, maintaining, invalidations, made, gen, stale, stopped,
                  load, native, since, covers, dgen, dstale, op, inv, fin, owned, providerClosed, schema>>
  BY DEF trackVars, loaderVars, fenceVars, finVars
<1>2. /\ reader' \in [Readers -> [at : {"idle", "open", "bound", "refused", "acquire", "loading"}, loader : 0..MaxGen, gen : 0..MaxGen]]
      /\ reader'[r] = s /\ \A q \in Readers : q # r => reader'[q] = reader[q]
  BY DEF SInv, TypeOK
<1>3. TypeOK' /\ (op \in Operations)'
  BY <1>1, <1>2 DEF SInv, TypeOK
<1>4. Retirement' /\ Places'
  BY <1>1 DEF SInv, Retirement, Places
<1>5. Running' /\ Finalizing'
  BY <1>1 DEF SInv, Running, Finalizing, Held
<1>6. Fresh' /\ Covered' /\ DetailFence'
  BY <1>1 DEF SInv, Fresh, MarkFollows, Covered, DetailFence
<1>7. \A q \in Readers : reader'[q].at = "bound" => reader'[q].loader # 0
  BY <1>2 DEF SInv, Unseen
<1>8. "background" \notin Ops => \A q \in Readers : reader'[q].gen <= gen[loader]
  BY <1>2 DEF SInv, Unseen
<1>9. "background" \notin Ops /\ fin \in {"close", "done"} => \A q \in Readers : reader'[q].at # "loading"
  BY <1>2 DEF SInv, Unseen
<1>10. Unseen'
  BY <1>1, <1>7, <1>8, <1>9 DEF SInv, Unseen
<1> QED
  BY <1>3, <1>4, <1>5, <1>6, <1>10 DEF SInv

\* What a reader holds.
LEMMA ReaderTyped ==
  ASSUME SInv, NEW r \in Readers
  PROVE  /\ TypeOK /\ op \in Operations /\ MaxGen \in Nat /\ Loaders = 1..MaxGen
         /\ reader[r].loader \in 0..MaxGen /\ reader[r].gen \in 0..MaxGen
         /\ loader \in Loaders /\ loader \in 0..MaxGen /\ loader # 0 /\ 0 \in 0..MaxGen
         /\ gen[loader] \in Nat /\ 0 <= gen[loader]
         /\ \A l \in Loaders : gen[l] \in 0..MaxGen
         /\ dgen \in Gens /\ dgen \in 0..MaxGen
<1>1. TypeOK /\ op \in Operations
  BY DEF SInv
<1>2. reader[r].loader \in 0..MaxGen /\ reader[r].gen \in 0..MaxGen
  BY <1>1 DEF TypeOK
<1>3. MaxGen \in Nat /\ Loaders = 1..MaxGen /\ loader \in 1..MaxGen /\ dgen \in Gens /\ \A l \in Loaders : gen[l] \in 0..MaxGen
  BY <1>1, StoreTyped
<1>4. loader \in 0..MaxGen /\ loader # 0 /\ 0 \in 0..MaxGen /\ dgen \in 0..MaxGen
  BY <1>3 DEF Gens
<1>5. gen[loader] \in Nat /\ 0 <= gen[loader]
  BY <1>3
<1> QED
  BY <1>1, <1>2, <1>3, <1>4, <1>5

\* Every step of a reader.
LEMMA DetailInv ==
  ASSUME SInv, NEW r \in Readers, DetailBegins(r) \/ DetailStep(r) \/ DetailWithdraws(r)
  PROVE  SInv'
<1>1. UNCHANGED <<trackVars, invalidations, loaderVars, fenceVars, op, inv, finVars, schema>>
  BY DEF DetailBegins, DetailStep, DetailBinds, DetailChecks, DetailAcquires, DetailReturns, DetailWithdraws
<1>2. \/ Read(r, "open", 0, 0) \/ Read(r, "idle", 0, 0)
      \/ Read(r, "bound", loader, 0)
      \/ /\ reader[r].at = "bound"
         /\ Read(r, "acquire", reader[r].loader, gen[reader[r].loader]) \/ Read(r, "refused", reader[r].loader, gen[reader[r].loader])
      \/ Acquirable(r) /\ Read(r, "loading", reader[r].loader, dgen)
  BY DEF DetailBegins, DetailStep, DetailBinds, DetailChecks, DetailAcquires, DetailReturns, DetailWithdraws, Nothing
<1>3. CASE Read(r, "open", 0, 0) \/ Read(r, "idle", 0, 0)
  <2>1. PICK at \in {"open", "idle"} : Read(r, at, 0, 0)
    BY <1>3
  <2>2. PICK s : s = [at |-> at, loader |-> 0, gen |-> 0]
    OBVIOUS
  <2>3. s \in [at : {"idle", "open", "bound", "refused", "acquire", "loading"}, loader : 0..MaxGen, gen : 0..MaxGen]
        /\ s.at \notin {"bound", "loading"} /\ s.gen = 0
    BY <2>2, ReaderTyped
  <2>4. reader' = [reader EXCEPT ![r] = s]
    BY <2>1, <2>2 DEF Read
  <2> QED
    BY <1>1, <2>3, <2>4, ReaderTyped, ReaderMoves
<1>4. CASE Read(r, "bound", loader, 0)
  <2>1. PICK l \in 0..MaxGen : l = loader
    BY ReaderTyped
  <2>2. PICK s : s = [at |-> "bound", loader |-> l, gen |-> 0]
    OBVIOUS
  <2>3. s \in [at : {"idle", "open", "bound", "refused", "acquire", "loading"}, loader : 0..MaxGen, gen : 0..MaxGen]
        /\ s.at = "bound" /\ s.gen = 0 /\ s.loader # 0
    BY <2>1, <2>2, ReaderTyped
  <2>4. reader' = [reader EXCEPT ![r] = s]
    BY <1>4, <2>1, <2>2 DEF Read
  <2> QED
    BY <1>1, <2>3, <2>4, ReaderTyped, ReaderMoves
<1>5. CASE /\ reader[r].at = "bound"
           /\ Read(r, "acquire", reader[r].loader, gen[reader[r].loader]) \/ Read(r, "refused", reader[r].loader, gen[reader[r].loader])
  <2>1. PICK at \in {"acquire", "refused"} : Read(r, at, reader[r].loader, gen[reader[r].loader])
    BY <1>5
  <2>2. reader[r].loader # 0
    BY <1>5 DEF SInv, Unseen
  <2>3. PICK l \in Loaders : l = reader[r].loader
    BY <2>2, ReaderTyped
  <2>4. PICK g \in 0..MaxGen : g = gen[l]
    BY ReaderTyped
  <2>5. PICK s : s = [at |-> at, loader |-> l, gen |-> g]
    OBVIOUS
  <2>6. l \in 0..MaxGen
    BY ReaderTyped
  <2>7. s \in [at : {"idle", "open", "bound", "refused", "acquire", "loading"}, loader : 0..MaxGen, gen : 0..MaxGen]
        /\ s.at \notin {"bound", "loading"} /\ s.gen = g
    BY <2>5, <2>6
  <2>8. "background" \notin Ops => g <= gen[loader]
    BY <2>4 DEF SInv, Unseen
  <2>9. reader' = [reader EXCEPT ![r] = s]
    BY <2>1, <2>3, <2>4, <2>5 DEF Read
  <2> QED
    BY <1>1, <2>7, <2>8, <2>9, ReaderMoves
<1>6. CASE Acquirable(r) /\ Read(r, "loading", reader[r].loader, dgen)
  <2>1. PICK l \in 0..MaxGen : l = reader[r].loader
    BY ReaderTyped
  <2>2. PICK g \in 0..MaxGen : g = dgen
    BY ReaderTyped
  <2>3. PICK s : s = [at |-> "loading", loader |-> l, gen |-> g]
    OBVIOUS
  <2>4. s \in [at : {"idle", "open", "bound", "refused", "acquire", "loading"}, loader : 0..MaxGen, gen : 0..MaxGen]
        /\ s.at = "loading" /\ s.gen = g
    BY <2>3
  <2>5. reader[r].gen = g /\ ~dstale
    BY <1>6, <2>2 DEF Acquirable
  <2>6. "background" \notin Ops => g <= gen[loader]
    BY <2>5 DEF SInv, Unseen
  <2>7. "background" \notin Ops => fin \notin {"close", "done"}
    <3>1. SUFFICES ASSUME "background" \notin Ops, fin \in {"close", "done"} PROVE FALSE
      OBVIOUS
    <3>2. gen[loader] < g
      BY <2>2, <2>5, <3>1 DEF SInv, Unseen
    <3>3. g <= gen[loader] /\ gen[loader] \in Nat
      BY <2>6, <3>1, ReaderTyped
    <3> QED
      BY <3>2, <3>3
  <2>8. reader' = [reader EXCEPT ![r] = s]
    BY <1>6, <2>1, <2>2, <2>3 DEF Read
  <2> QED
    BY <1>1, <2>4, <2>6, <2>7, <2>8, ReaderMoves
<1> QED
  BY <1>2, <1>3, <1>4, <1>5, <1>6

-----------------------------------------------------------------------------
(* Retirement and the finalizer.                                           *)

\* The store is retired, and then its context ends.
LEMMA RetireInv ==
  ASSUME SInv, Retire \/ FinCancels
  PROVE  SInv'
<1>1. UNCHANGED <<loader, staging, baseline, maintaining, invalidations, made, gen, stale, stopped,
                  load, native, since, covers, dgen, dstale, op, inv, reader, owned, providerClosed, schema>>
  BY DEF Retire, FinCancels, loaderVars, fenceVars
<1>2. \/ ~retired /\ retired' = TRUE /\ fin' = "cancel" /\ ctxDone' = ctxDone
      \/ fin = "cancel" /\ fin' = "collect" /\ ctxDone' = TRUE /\ retired' = retired
  BY DEF Retire, FinCancels, FinGoes
<1>3. fin \in {"none", "cancel"} /\ fin' \in {"cancel", "collect"} /\ retired' = TRUE /\ (ctxDone' <=> fin' = "collect")
  <2>1. CASE ~retired /\ retired' = TRUE /\ fin' = "cancel" /\ ctxDone' = ctxDone
    BY <2>1 DEF SInv, Retirement
  <2>2. CASE fin = "cancel" /\ fin' = "collect" /\ ctxDone' = TRUE /\ retired' = retired
    BY <2>2 DEF SInv, Retirement, TypeOK
  <2> QED
    BY <1>2, <2>1, <2>2
<1>4. ctxDone' \in BOOLEAN /\ fin' \in FinAt
  <2>1. ctxDone' \in BOOLEAN
    BY <1>2 DEF SInv, TypeOK
  <2>2. fin' \in FinAt
    BY <1>3 DEF FinAt
  <2> QED
    BY <2>1, <2>2
<1>5. TypeOK' /\ (op \in Operations)'
  BY <1>1, <1>3, <1>4 DEF SInv, TypeOK
<1>6. Retirement'
  BY <1>1, <1>3 DEF SInv, Retirement, FinPast
<1>7. Places'
  BY <1>1 DEF SInv, Places
<1>8. Running' /\ Finalizing'
  BY <1>1, <1>3 DEF SInv, Running, Finalizing
<1>9. Fresh' /\ Covered'
  BY <1>1, <1>3 DEF SInv, Fresh, MarkFollows, Covered
<1>10. DetailFence' /\ Unseen'
  BY <1>1, <1>3 DEF SInv, DetailFence, Unseen
<1> QED
  BY <1>5, <1>6, <1>7, <1>8, <1>9, <1>10 DEF SInv

\* A step of the finalizer past the end of the context that leaves the store alone.
LEMMA FinOnly ==
  ASSUME SInv, UNCHANGED <<trackVars, invalidations, loaderVars, dgen, op, inv, reader, schema>>,
         fin \notin {"none", "cancel"}, fin' \in FinAt, fin' \notin {"none", "cancel"},
         fin' \in FinPast => ~maintaining,
         owned' \in Seq(Loaders), providerClosed' \in BOOLEAN, providerClosed' <=> fin' = "done",
         dstale' \in BOOLEAN, Finalizing',
         "background" \notin Ops => /\ fin' \in {"details", "close", "done"} => dstale' \/ gen[loader] < dgen
                                    /\ fin' \in {"close", "done"} => \A r \in Readers : reader[r].at # "loading"
  PROVE  SInv'
<1>1. UNCHANGED <<loader, staging, retired, ctxDone, baseline, maintaining, invalidations, made, gen, stale, stopped,
                  load, native, since, covers, dgen, op, inv, reader, schema>>
  BY DEF trackVars, loaderVars
<1>2. TypeOK' /\ (op \in Operations)'
  BY <1>1 DEF SInv, TypeOK
<1>3. Retirement'
  BY <1>1 DEF SInv, Retirement
<1>4. Places' /\ Running'
  BY <1>1 DEF SInv, Places, Running
<1>5. Fresh' /\ Covered'
  BY <1>1 DEF SInv, Fresh, MarkFollows, Covered
<1>6. DetailFence' /\ Unseen'
  BY <1>1 DEF SInv, DetailFence, Unseen
<1> QED
  BY <1>2, <1>3, <1>4, <1>5, <1>6 DEF SInv

\* What the finalizer collects holds every loader that may still run native work.
LEMMA FinCollectsInv ==
  ASSUME SInv, FinCollects
  PROVE  SInv'
<1>1. /\ fin = "collect" /\ fin' = "await" /\ owned' = IF staging = 0 THEN <<loader>> ELSE <<loader, staging>>
      /\ UNCHANGED <<trackVars, invalidations, loaderVars, dgen, dstale, op, inv, reader, providerClosed, schema>>
  BY DEF FinCollects, FinGoes, fenceVars, Nothing
<1>2. UNCHANGED <<loader, staging, made, native, stopped>>
  BY <1>1 DEF trackVars, loaderVars
<1>3. TypeOK /\ loader \in Loaders /\ MaxGen \in Nat /\ staging \in 0..MaxGen /\ Loaders = 1..MaxGen
  BY StoreTyped DEF SInv
<1>4. \A l \in Loaders : native[l] # {} => l = loader \/ l = staging
  BY DEF SInv, Running
<1>5. loader <= made /\ staging <= made
  BY DEF SInv, Places
<1>6. /\ owned' \in Seq(Loaders) /\ Len(owned') \in 1..2
      /\ \A n \in 1..Len(owned') : owned'[n] <= made
      /\ \E n \in 1..Len(owned') : owned'[n] = loader
      /\ \A l \in Loaders : native[l] # {} => \E n \in 1..Len(owned') : owned'[n] = l
  <2>1. CASE staging = 0
    <3>1. owned' = <<loader>>
      BY <1>1, <2>1
    <3>2. owned' \in Seq(Loaders) /\ Len(owned') = 1 /\ owned'[1] = loader
      BY <1>3, <3>1
    <3>3. \A l \in Loaders : native[l] # {} => l = loader
      BY <1>3, <1>4, <2>1
    <3> QED
      BY <1>5, <3>2, <3>3
  <2>2. CASE staging # 0
    <3>1. owned' = <<loader, staging>> /\ staging \in Loaders
      BY <1>1, <1>3, <2>2
    <3>2. owned' \in Seq(Loaders) /\ Len(owned') = 2 /\ owned'[1] = loader /\ owned'[2] = staging
      BY <1>3, <3>1
    <3> QED
      BY <1>4, <1>5, <3>2
  <2> QED
    BY <2>1, <2>2
<1>7. Finalizing'
  BY <1>1, <1>2, <1>6 DEF Finalizing, Held
<1>8. "await" \in FinAt /\ "await" \notin FinPast /\ dstale \in BOOLEAN /\ providerClosed \in BOOLEAN /\ ~providerClosed
  BY <1>1 DEF FinAt, FinPast, SInv, TypeOK, Retirement
<1> QED
  BY <1>1, <1>6, <1>7, <1>8, FinOnly

\* The wait for a registered attempt: no other can begin.
LEMMA FinAwaitsInv ==
  ASSUME SInv, FinAwaits
  PROVE  SInv'
<1>1. /\ fin = "await" /\ fin' = "stop" /\ ~maintaining
      /\ UNCHANGED <<trackVars, invalidations, loaderVars, dgen, dstale, op, inv, reader, owned, providerClosed, schema>>
  BY DEF FinAwaits, FinGoes, fenceVars
<1>2. UNCHANGED <<loader, staging, made, native, stopped>>
  BY <1>1 DEF trackVars, loaderVars
<1>3. Finalizing'
  BY <1>1, <1>2 DEF SInv, Finalizing, Held
<1>4. "stop" \in FinAt /\ dstale \in BOOLEAN /\ providerClosed \in BOOLEAN /\ ~providerClosed /\ owned \in Seq(Loaders)
  BY <1>1 DEF FinAt, SInv, TypeOK, Retirement
<1> QED
  BY <1>1, <1>3, <1>4, FinOnly

\* The first loader held is stopped.
LEMMA FinStopsInv ==
  ASSUME SInv, FinStops
  PROVE  SInv'
<1>1. /\ fin = "stop" /\ fin' = "drain" /\ stopped' = [stopped EXCEPT ![Head(owned)] = TRUE] /\ load' = Halted(Head(owned))
      /\ UNCHANGED <<loader, staging, retired, ctxDone, baseline, maintaining, invalidations, made, gen, stale, native, since, covers,
                     dgen, dstale, op, inv, reader, owned, providerClosed, schema>>
  BY DEF FinStops, FinGoes, trackVars, fenceVars
<1>2. TypeOK /\ op \in Operations /\ owned \in Seq(Loaders) /\ Len(owned) \in 1..2 /\ retired /\ owned # <<>>
  <2>1. retired
    BY <1>1 DEF SInv, Retirement
  <2>2. TypeOK /\ op \in Operations /\ owned \in Seq(Loaders)
    BY DEF SInv, TypeOK
  <2>3. Len(owned) \in 1..2
    BY <1>1 DEF SInv, Finalizing
  <2>4. owned # <<>>
    BY <2>2, <2>3
  <2> QED
    BY <2>1, <2>2, <2>3, <2>4
<1>3. PICK k \in Loaders : k = Head(owned) /\ k = owned[1] /\ k <= made
  <2>1. Head(owned) = owned[1] /\ owned[1] \in Loaders /\ 1 \in 1..Len(owned)
    BY <1>2
  <2>2. owned[1] <= made
    BY <1>1, <2>1 DEF SInv, Finalizing
  <2> QED
    BY <2>1, <2>2
<1>4. stopped \in [Loaders -> BOOLEAN]
  BY <1>2, StoreTyped
<1>5. /\ stopped' \in [Loaders -> BOOLEAN] /\ stopped'[k]
      /\ \A l \in Loaders : stopped[l] => stopped'[l]
      /\ \A l \in Loaders : l # k => stopped'[l] = stopped[l]
  BY <1>1, <1>3, <1>4
<1>6. load' \in [Loaders -> {"none", "loading", "ready", "failed", "cancelled"}]
  BY <1>1, <1>2, <1>3, HaltedLoads
<1>7. /\ op.cur \in 0..MaxGen /\ MaxGen \in Nat /\ Loaders = 1..MaxGen /\ loader \in Loaders
  BY <1>2, StoreTyped
<1>8. TypeOK' /\ (op \in Operations)'
  BY <1>1, <1>5, <1>6 DEF SInv, TypeOK, FinAt
<1>9. Retirement'
  BY <1>1 DEF SInv, Retirement, FinPast
<1>10. Places'
  <2>1. \A l \in Loaders : l > made => ~stopped'[l]
    BY <1>3, <1>5, MadeStays
  <2>2. op.at = "restart" => stopped'[op.cur] \/ op.gen = gen[op.cur]
    <3>1. op.at = "restart" => op.cur \in Loaders
      BY <1>7 DEF SInv, Places
    <3> QED
      BY <1>5, <3>1 DEF SInv, Places
  <2> QED
    BY <1>1, <2>1, <2>2 DEF SInv, Places
<1>11. Running'
  BY <1>1, <1>2 DEF SInv, Running
<1>12. Finalizing'
  BY <1>1, <1>3, <1>5, <1>7 DEF SInv, Finalizing, Held
<1>13. Fresh' /\ Covered'
  BY <1>1, <1>2 DEF SInv, Fresh, MarkFollows, Covered
<1>14. DetailFence' /\ Unseen'
  BY <1>1, <1>2 DEF SInv, DetailFence, Unseen
<1> QED
  BY <1>8, <1>9, <1>10, <1>11, <1>12, <1>13, <1>14 DEF SInv

\* It is let go of when its native work has returned.
LEMMA FinDrainsInv ==
  ASSUME SInv, FinDrains
  PROVE  SInv'
<1>1. /\ fin = "drain" /\ fin' = (IF Len(owned) = 1 THEN "fence" ELSE "stop") /\ native[Head(owned)] = {} /\ owned' = Tail(owned)
      /\ UNCHANGED <<trackVars, invalidations, loaderVars, dgen, dstale, op, inv, reader, providerClosed, schema>>
  BY DEF FinDrains, FinGoes, fenceVars
<1>2. UNCHANGED <<loader, staging, made, native, stopped>>
  BY <1>1 DEF trackVars, loaderVars
<1>3. owned \in Seq(Loaders) /\ Len(owned) \in 1..2 /\ owned # <<>> /\ loader \in Loaders
  BY <1>1 DEF SInv, TypeOK, Finalizing
<1>4. Head(owned) = owned[1] /\ owned' \in Seq(Loaders) /\ owned[1] \in Loaders
  BY <1>1, <1>3
<1>5. /\ stopped[owned[1]] /\ (stopped[loader] \/ Held(loader)) /\ (\A l \in Loaders : native[l] # {} => Held(l))
      /\ \A n \in 1..Len(owned) : owned[n] <= made
  BY <1>1 DEF SInv, Finalizing
<1>6. CASE Len(owned) = 1
  <2>1. \A l : Held(l) => l = owned[1]
    BY <1>6 DEF Held
  <2>2. stopped[loader] /\ \A l \in Loaders : native[l] = {}
    BY <1>1, <1>4, <1>5, <2>1
  <2>3. fin' = "fence"
    BY <1>1, <1>6
  <2> QED
    <3>1. Finalizing'
      BY <1>2, <2>2, <2>3 DEF Finalizing
    <3>2. "fence" \in FinAt /\ dstale \in BOOLEAN /\ providerClosed \in BOOLEAN /\ ~providerClosed /\ ~maintaining
      BY <1>1 DEF FinAt, FinPast, SInv, TypeOK, Retirement
    <3> QED
      BY <1>1, <1>4, <2>3, <3>1, <3>2, FinOnly
<1>7. CASE Len(owned) # 1
  <2>1. Len(owned) = 2 /\ Len(owned') = 1 /\ owned'[1] = owned[2] /\ fin' = "stop"
    BY <1>1, <1>3, <1>7
  <2>2. \A l : Held(l) => l = owned[1] \/ l = owned[2]
    BY <2>1 DEF Held
  <2>3. 1 \in 1..Len(owned') /\ Len(owned') \in 1..2 /\ owned[2] <= made /\ (\A n \in 1..Len(owned') : n = 1)
    BY <1>5, <2>1
  <2>4. (stopped[loader] \/ \E n \in 1..Len(owned') : owned'[n] = loader)
    BY <1>5, <2>1, <2>2, <2>3
  <2>5. \A l \in Loaders : native[l] # {} => \E n \in 1..Len(owned') : owned'[n] = l
    BY <1>1, <1>4, <1>5, <2>1, <2>2, <2>3
  <2>6. Finalizing'
    BY <1>2, <2>1, <2>3, <2>4, <2>5 DEF Finalizing, Held
  <2>7. "stop" \in FinAt /\ dstale \in BOOLEAN /\ providerClosed \in BOOLEAN /\ ~providerClosed /\ ~maintaining
    BY <1>1 DEF FinAt, FinPast, SInv, TypeOK, Retirement
  <2> QED
    BY <1>1, <1>4, <2>1, <2>6, <2>7, FinOnly
<1> QED
  BY <1>6, <1>7

\* The details are fenced and drained, and the provider is closed.
LEMMA FinClosesInv ==
  ASSUME SInv, FinFences \/ FinDetails \/ FinCloses
  PROVE  SInv'
<1>1. /\ UNCHANGED <<trackVars, invalidations, loaderVars, dgen, op, inv, reader, owned, schema>>
      /\ fin \in {"fence", "details", "close"} /\ fin' \in {"details", "close", "done"}
  BY DEF FinFences, FinDetails, FinCloses, FinGoes, fenceVars
<1>2. /\ dstale' = dstale \/ dstale' = TRUE
      /\ fin = "fence" => dstale' = TRUE
      /\ fin # "fence" => dstale' = dstale
      /\ fin' = "close" => \A r \in Readers : reader[r].at # "loading"
      /\ fin' = "done" => fin = "close"
  BY DEF FinFences, FinDetails, FinCloses, FinGoes, fenceVars
<1>3. providerClosed' \in BOOLEAN /\ (providerClosed' <=> fin' = "done")
  <2>1. ~providerClosed /\ providerClosed \in BOOLEAN
    BY <1>1 DEF SInv, Retirement, TypeOK
  <2>2. CASE FinFences \/ FinDetails
    BY <2>1, <2>2 DEF FinFences, FinDetails, FinGoes
  <2>3. CASE FinCloses
    BY <2>3 DEF FinCloses, FinGoes
  <2> QED
    BY <2>2, <2>3
<1>4. UNCHANGED <<loader, native, stopped, gen>>
  BY <1>1 DEF trackVars, loaderVars
<1>5. Finalizing'
  BY <1>1, <1>4 DEF SInv, Finalizing
<1>6. dstale' \in BOOLEAN /\ owned' \in Seq(Loaders) /\ fin' \in FinAt /\ ~maintaining
  <2>1. dstale' \in BOOLEAN
    BY <1>2 DEF SInv, TypeOK
  <2>2. owned' \in Seq(Loaders) /\ fin' \in FinAt /\ ~maintaining
    BY <1>1 DEF SInv, TypeOK, FinAt, Retirement, FinPast
  <2> QED
    BY <2>1, <2>2
<1>7. "background" \notin Ops => /\ dstale' \/ gen[loader] < dgen
                                 /\ fin' \in {"close", "done"} => \A r \in Readers : reader[r].at # "loading"
  <2>1. SUFFICES ASSUME "background" \notin Ops
                 PROVE  /\ dstale' \/ gen[loader] < dgen
                        /\ fin' \in {"close", "done"} => \A r \in Readers : reader[r].at # "loading"
    OBVIOUS
  <2>2. dstale' \/ gen[loader] < dgen
    BY <1>1, <1>2, <2>1 DEF SInv, Unseen
  <2>3. fin' \in {"close", "done"} => \A r \in Readers : reader[r].at # "loading"
    BY <1>1, <1>2, <2>1 DEF SInv, Unseen
  <2> QED
    BY <2>2, <2>3
<1> QED
  BY <1>1, <1>3, <1>5, <1>6, <1>7, FinOnly

-----------------------------------------------------------------------------
(* The invariant, and what it says.                                        *)

\* Every step keeps the invariant.
LEMMA NextInv ==
  ASSUME SInv, [Next]_vars
  PROVE  SInv'
<1>1. CASE UNCHANGED vars
  <2>1. UNCHANGED <<trackVars, invalidations, made, gen, stale, stopped, load, native, since, covers, dgen, dstale,
                    op, inv, reader, finVars, schema>>
    BY <1>1 DEF vars, loaderVars, fenceVars
  <2>2. UNCHANGED <<loader, staging, retired, ctxDone, baseline, maintaining, fin, owned, providerClosed>>
    BY <2>1 DEF trackVars, finVars
  <2>3. TypeOK' /\ (op \in Operations)' /\ Retirement' /\ Places'
    BY <2>1, <2>2 DEF SInv, TypeOK, Retirement, Places
  <2>4. Running' /\ Finalizing' /\ Fresh' /\ Covered' /\ DetailFence' /\ Unseen'
    BY <2>1, <2>2 DEF SInv, Running, Finalizing, Held, Fresh, MarkFollows, Covered, DetailFence, Unseen
  <2> QED
    BY <2>3, <2>4 DEF SInv
<1>2. CASE \E l \in Loaders : Loading(l)
  BY <1>2, LoadingInv
<1>3. CASE SchemaChanges \/ InvalidateBegins \/ InvalidateLoader \/ InvalidateDetails
  BY <1>3, OutsideInv, InvalidateLoaderInv
<1>4. CASE RefreshBegins \/ BackgroundBegins \/ (\E check \in BOOLEAN : MaintainBegins(check)) \/ GiveUp
  BY <1>4, RefreshBeginsInv, BackgroundBeginsInv, MaintainBeginsInv, GiveUpInv
<1>5. CASE RefreshStep
  BY <1>5, RefreshDropsBaselineInv, RefreshFencesInv, RefreshResetsInv, RefreshStartsInv DEF RefreshStep
<1>6. CASE BackgroundStep
  BY <1>6, RegisterStagingInv, LaunchStagingInv, StagingSettlesInv, SwapLoaderInv, FenceAfterSwapInv, StopOldInv,
     MarkNewStaleInv, MarkDetailsStaleInv, DiscardStopsInv, DiscardForgetsInv DEF BackgroundStep
<1>7. CASE MaintainStep
  BY <1>7, MaintainWaitedInv, ScanReturnsInv, ChangesReturnInv, FullReturnsInv, MaintainEndsInv, MaintainPublishesInv,
     MaintainRetiresOldInv, MaintainLeavesInv DEF MaintainStep
<1>8. CASE \E r \in Readers : DetailBegins(r) \/ DetailStep(r) \/ DetailWithdraws(r)
  BY <1>8, DetailInv
<1>9. CASE Retire \/ Finalizer
  BY <1>9, RetireInv, FinCollectsInv, FinAwaitsInv, FinStopsInv, FinDrainsInv, FinClosesInv DEF Finalizer
<1> QED
  BY <1>1, <1>2, <1>3, <1>4, <1>5, <1>6, <1>7, <1>8, <1>9 DEF Next, OpStep

\* Types, and where every operation and the finalizer stand: the loaders they work on,
\* what still runs for them, and what each of them is trusted for.
THEOREM StoreInvariant == Spec => []SInv
<1> QED
  BY InitInv, NextInv, PTL DEF Spec

\* A loader that is published as fresh was read after every Invalidate, whichever of
\* Refresh, RefreshInBackground and Maintain published it, and a baseline that is trusted
\* is covered by the cache it goes with.
THEOREM FreshIsCurrent == Spec => []FreshAndCovered
<1>1. SInv => FreshAndCovered
  <2> SUFFICES ASSUME SInv PROVE FreshAndCovered
    OBVIOUS
  <2>1. FreshMeansReadAfterInvalidate
    BY DEF SInv, Fresh, MarkFollows, FreshMeansReadAfterInvalidate, Quiet
  <2>2. BaselineCovered
    BY DEF SInv, Covered, BaselineCovered
  <2> QED
    BY <2>1, <2>2 DEF FreshAndCovered
<1> QED
  BY <1>1, StoreInvariant, PTL

\* Between two operations the details are fenced by the generation published.
THEOREM DetailsAreFenced == Spec => []DetailsFollow
<1>1. SInv => DetailsFollow
  BY DEF SInv, DetailFence, DetailsFollow, Quiet
<1> QED
  BY <1>1, StoreInvariant, PTL

\* Nothing native runs on a closed provider, and no detail load does where nothing is
\* refreshed in the background.
THEOREM NothingRunsAfterClose == Spec => []Drained
<1>1. SInv => Drained
  <2> SUFFICES ASSUME SInv, providerClosed PROVE ~Native /\ ("background" \notin Ops => \A r \in DOMAIN reader : reader[r].at # "loading")
    BY DEF Drained, DrainBeforeClose, NoDetailAfterClose
  <2>1. fin = "done" /\ op.at \notin Maintaining
    BY DEF SInv, Retirement, FinPast
  <2>2. op.at \notin ReadingAt
    BY <2>1 DEF Maintaining, Watching, ReadingAt
  <2>3. ~Native
    BY <2>1, <2>2 DEF SInv, Finalizing, Native
  <2>4. "background" \notin Ops => \A r \in DOMAIN reader : reader[r].at # "loading"
    BY <2>1 DEF SInv, Unseen, TypeOK
  <2> QED
    BY <2>3, <2>4
<1> QED
  BY <1>1, StoreInvariant, PTL

=============================================================================
