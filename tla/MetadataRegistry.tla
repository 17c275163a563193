-------------------------- MODULE MetadataRegistry --------------------------
(***************************************************************************)
(* metadata.Registry (metadata/registry.go): how consumers share one store *)
(* per (Key, Scope), how the store is created once, torn down once by its  *)
(* own finalizer, and how Close waits for all of them; with the reference  *)
(* counts by which metadata/budget.go keeps one permit set per Key.        *)
(*                                                                         *)
(* A track is a number, in order of creation.  A step is one critical      *)
(* section of r.mu, t.mu or b.mu, one channel wait, or one call into the   *)
(* provider.  The metadata load of a track is one native activity here: it *)
(* is started, and it drains; what it does is module MetadataLoader.       *)
(***************************************************************************)
EXTENDS Naturals, FiniteSets

CONSTANTS
  Keys,         \* (engine, URL) pairs
  Scopes,       \* authenticated scopes
  Callers,      \* goroutines that acquire and release leases
  MaxTracks,    \* bound: this many stores are ever created
  ParentCancel  \* whether the context given to NewRegistry may end

ASSUME RegistryAssumption ==
  /\ Keys # {} /\ Scopes # {} /\ IsFiniteSet(Callers)
  /\ MaxTracks \in Nat /\ ParentCancel \in BOOLEAN

Tracks == 1..MaxTracks
Nothing == 0

VARIABLES
  closed, closeDone,  \* Registry.closed, and its shutdown completion
  closers,            \* the callers waiting in Close
  awaited,            \* the tracks its completion goroutine waits for
  rootDone,           \* the registry's root context has ended
  entry,              \* entry[k]: incarnation of the live entry of k, or 0
  tracks,             \* tracks[k][s]: the reachable track of that store, or 0
  incarnationSeq,
  made,               \* tracks created so far
  id,                 \* id[t]: the key, scope and incarnation of t
  refs, retired,      \* track.refs and track.closed
  creation,           \* the goroutine in createTrack
  failed,             \* track.err is set
  provider, load,     \* the provider of t and its metadata load
  fin,                \* the finalizer of t
  liveTracks,
  permitSet,          \* permitSet[t]: the StoreBudget t was created with
  handle,             \* handle[k]: Budget.stores: the permit set of k and its references
  permitSeq,
  caller              \* caller[c]: where c is, and its track

budgetVars == <<permitSet, handle, permitSeq>>
tableVars == <<entry, tracks, incarnationSeq>>
closeVars == <<closed, closeDone, closers, awaited, rootDone>>
vars == <<closeVars, tableVars, made, id, refs, retired, creation, failed,
          provider, load, fin, liveTracks, budgetVars, caller>>

FinSteps == {"none", "cancel", "await", "drain", "close", "release", "remove", "finalized"}

TypeOK ==
  /\ closed \in BOOLEAN /\ closeDone \in BOOLEAN /\ rootDone \in BOOLEAN
  /\ closers \in SUBSET Callers /\ awaited \in SUBSET Tracks
  /\ entry \in [Keys -> Nat]
  /\ tracks \in [Keys -> [Scopes -> 0..MaxTracks]]
  /\ incarnationSeq \in Nat /\ made \in 0..MaxTracks
  /\ id \in [Tracks -> [key : Keys, scope : Scopes, incarnation : Nat]]
  /\ refs \in [Tracks -> 0..Cardinality(Callers)]
  /\ retired \in [Tracks -> BOOLEAN] /\ failed \in [Tracks -> BOOLEAN]
  /\ creation \in [Tracks -> {"none", "factory", "check", "start", "publish", "ready"}]
  /\ provider \in [Tracks -> {"none", "open", "closed"}]
  /\ load \in [Tracks -> {"none", "loading", "drained"}]
  /\ fin \in [Tracks -> FinSteps]
  /\ liveTracks \in SUBSET Tracks
  /\ permitSet \in [Tracks -> Nat]
  /\ handle \in [Keys -> [set : Nat, refs : 0..MaxTracks]]
  /\ permitSeq \in Nat
  /\ caller \in [Callers -> [at : {"idle", "waiting", "holding", "leaving", "retiring"}, track : 0..MaxTracks]]

Init ==
  /\ closed = FALSE /\ closeDone = FALSE /\ closers = {} /\ awaited = {} /\ rootDone = FALSE
  /\ entry = [k \in Keys |-> 0]
  /\ tracks = [k \in Keys |-> [s \in Scopes |-> Nothing]]
  /\ incarnationSeq = 0 /\ made = 0
  /\ id \in [Tracks -> {[key |-> CHOOSE k \in Keys : TRUE, scope |-> CHOOSE s \in Scopes : TRUE, incarnation |-> 0]}]
  /\ refs = [t \in Tracks |-> 0] /\ retired = [t \in Tracks |-> FALSE]
  /\ creation = [t \in Tracks |-> "none"] /\ failed = [t \in Tracks |-> FALSE]
  /\ provider = [t \in Tracks |-> "none"] /\ load = [t \in Tracks |-> "none"]
  /\ fin = [t \in Tracks |-> "none"] /\ liveTracks = {}
  /\ permitSet = [t \in Tracks |-> 0]
  /\ handle = [k \in Keys |-> [set |-> 0, refs |-> 0]] /\ permitSeq = 0
  /\ caller = [c \in Callers |-> [at |-> "idle", track |-> Nothing]]

Goto(c, at, t) == caller' = [caller EXCEPT ![c] = [at |-> at, track |-> t]]
CtxDone(t) == rootDone \/ fin[t] \notin {"none", "cancel"}

-----------------------------------------------------------------------------
(* Acquire: attach, one critical section of r.mu.                          *)

\* The store exists: share it, whatever stage its creation has reached.
Join(c, k, s) ==
  /\ ~closed /\ caller[c].at = "idle" /\ tracks[k][s] # Nothing
  /\ refs' = [refs EXCEPT ![tracks[k][s]] = @ + 1]
  /\ Goto(c, "waiting", tracks[k][s])
  /\ UNCHANGED <<closeVars, tableVars, made, id, retired, creation, failed, provider, load,
                 fin, liveTracks, budgetVars>>

\* Slip: a new entry comes with a new permit set.
ForStoreOfEntry(t, k) ==
  IF entry[k] = 0
  THEN /\ permitSeq' = permitSeq + 1
       /\ handle' = [handle EXCEPT ![k] = [set |-> permitSeq + 1, refs |-> 1]]
       /\ permitSet' = [permitSet EXCEPT ![t] = permitSeq + 1]
  ELSE /\ handle' = [handle EXCEPT ![k].refs = @ + 1]
       /\ permitSet' = [permitSet EXCEPT ![t] = handle[k].set]
       /\ UNCHANGED permitSeq

\* Budget.ForStore: the permit set of k, or a fresh one.
ForStore(t, k) ==
  IF handle[k].refs = 0
  THEN /\ permitSeq' = permitSeq + 1
       /\ handle' = [handle EXCEPT ![k] = [set |-> permitSeq + 1, refs |-> 1]]
       /\ permitSet' = [permitSet EXCEPT ![t] = permitSeq + 1]
  ELSE /\ handle' = [handle EXCEPT ![k].refs = @ + 1]
       /\ permitSet' = [permitSet EXCEPT ![t] = handle[k].set]
       /\ UNCHANGED permitSeq

\* The incarnation of the live entry of k, or the next one.
EntryFor(k) == IF entry[k] = 0 THEN incarnationSeq + 1 ELSE entry[k]

\* No live store: this caller creates the track, and the entry if needed.
Create(c, k, s) ==
  LET t == made + 1 IN
  /\ ~closed /\ caller[c].at = "idle" /\ tracks[k][s] = Nothing /\ made < MaxTracks
  /\ made' = t
  /\ entry' = [entry EXCEPT ![k] = EntryFor(k)]
  /\ incarnationSeq' = IF entry[k] = 0 THEN incarnationSeq + 1 ELSE incarnationSeq
  /\ tracks' = [tracks EXCEPT ![k][s] = t]
  /\ id' = [id EXCEPT ![t] = [key |-> k, scope |-> s, incarnation |-> EntryFor(k)]]
  /\ refs' = [refs EXCEPT ![t] = 1]
  /\ liveTracks' = liveTracks \union {t}
  /\ ForStore(t, k)
  /\ creation' = [creation EXCEPT ![t] = "factory"]
  /\ Goto(c, "waiting", t)
  /\ UNCHANGED <<closeVars, retired, failed, provider, load, fin>>

\* The factory has returned: a lease, or the error of a failed or closed store.
AcquireReturns(c) ==
  LET t == caller[c].track IN
  /\ caller[c].at = "waiting" /\ creation[t] = "ready"
  /\ Goto(c, IF failed[t] \/ retired[t] \/ CtxDone(t) THEN "leaving" ELSE "holding", t)
  /\ UNCHANGED <<closeVars, tableVars, made, id, refs, retired, creation, failed, provider, load,
                 fin, liveTracks, budgetVars>>

\* The context of this Acquire ends: only this caller's interest is withdrawn.
AcquireCancelled(c) ==
  /\ caller[c].at = "waiting"
  /\ Goto(c, "leaving", caller[c].track)
  /\ UNCHANGED <<closeVars, tableVars, made, id, refs, retired, creation, failed, provider, load,
                 fin, liveTracks, budgetVars>>

\* Lease.Release
Release(c) ==
  /\ caller[c].at = "holding"
  /\ Goto(c, "leaving", caller[c].track)
  /\ UNCHANGED <<closeVars, tableVars, made, id, refs, retired, creation, failed, provider, load,
                 fin, liveTracks, budgetVars>>

\* Slip: whoever leaves retires the store.
AnyoneLeaves(t) == TRUE

\* The last reference retires the store.
NoneLeft(t) == refs[t] = 1

\* Slip: the entry goes with the first of its tracks.
DetachEntry(t) ==
  /\ tracks' = [tracks EXCEPT ![id[t].key] = [x \in Scopes |-> Nothing]]
  /\ entry' = [entry EXCEPT ![id[t].key] = 0]

\* A retired track leaves its entry, and the last one takes the entry along.
Detach(t) ==
  LET k == id[t].key  s == id[t].scope IN
  /\ tracks' = IF tracks[k][s] = t THEN [tracks EXCEPT ![k][s] = Nothing] ELSE tracks
  /\ entry' = IF entry[k] = id[t].incarnation /\ (\A x \in Scopes : tracks'[k][x] = Nothing)
              THEN [entry EXCEPT ![k] = 0] ELSE entry

\* releaseTrackRef, under r.mu.
ReleaseRef(c) ==
  LET t == caller[c].track IN
  /\ caller[c].at = "leaving"
  /\ refs' = [refs EXCEPT ![t] = @ - 1]
  /\ IF NoneLeft(t)
     THEN /\ retired' = [retired EXCEPT ![t] = TRUE]
          /\ Detach(t)
          /\ Goto(c, "retiring", t)
     ELSE /\ UNCHANGED <<retired, entry, tracks>>
          /\ Goto(c, "idle", Nothing)
  /\ UNCHANGED <<closeVars, incarnationSeq, made, id, creation, failed, provider, load,
                 fin, liveTracks, budgetVars>>

\* finalizeTrack's once: the second owner finds the work already scheduled.
FinalizeTracks(S) == fin' = [t \in Tracks |-> IF t \in S /\ fin[t] = "none" THEN "cancel" ELSE fin[t]]

\* releaseTrackRef, after r.mu was unlocked.
FinalizeReleased(c) ==
  /\ caller[c].at = "retiring"
  /\ FinalizeTracks({caller[c].track})
  /\ Goto(c, "idle", Nothing)
  /\ UNCHANGED <<closeVars, tableVars, made, id, refs, retired, creation, failed, provider, load,
                 liveTracks, budgetVars>>

-----------------------------------------------------------------------------
(* createTrack.                                                            *)

\* Slip: the error path leaves ready open.
FactoryReturnsSilently(t, ok) ==
  /\ creation[t] = "factory"
  /\ provider' = [provider EXCEPT ![t] = IF ok THEN "open" ELSE "none"]
  /\ creation' = [creation EXCEPT ![t] = IF ok THEN "check" ELSE "none"]
  /\ UNCHANGED <<closeVars, tableVars, made, id, refs, retired, failed, load, fin, liveTracks, budgetVars, caller>>

\* The factory returns: its error closes ready at once, its provider is stored.
FactoryReturns(t, ok) ==
  /\ creation[t] = "factory"
  /\ IF ok
     THEN /\ provider' = [provider EXCEPT ![t] = "open"]
          /\ creation' = [creation EXCEPT ![t] = "check"]
          /\ UNCHANGED failed
     ELSE /\ failed' = [failed EXCEPT ![t] = TRUE]
          /\ creation' = [creation EXCEPT ![t] = "ready"]
          /\ UNCHANGED provider
  /\ UNCHANGED <<closeVars, tableVars, made, id, refs, retired, load, fin, liveTracks, budgetVars, caller>>

\* Nobody wants the store any more, or the registry was closed.
DecideToStart(t) ==
  /\ creation[t] = "check"
  /\ creation' = [creation EXCEPT ![t] = IF retired[t] \/ CtxDone(t) THEN "publish" ELSE "start"]
  /\ UNCHANGED <<closeVars, tableVars, made, id, refs, retired, failed, provider, load, fin,
                 liveTracks, budgetVars, caller>>

\* loader.Start; the load of a context that has ended drains by itself.
StartLoad(t) ==
  /\ creation[t] = "start"
  /\ load' = [load EXCEPT ![t] = "loading"]
  /\ creation' = [creation EXCEPT ![t] = "publish"]
  /\ UNCHANGED <<closeVars, tableVars, made, id, refs, retired, failed, provider, fin, liveTracks,
                 budgetVars, caller>>

PublishReady(t) ==
  /\ creation[t] = "publish"
  /\ creation' = [creation EXCEPT ![t] = "ready"]
  /\ UNCHANGED <<closeVars, tableVars, made, id, refs, retired, failed, provider, load, fin,
                 liveTracks, budgetVars, caller>>

LoadDrains(t) ==
  /\ load[t] = "loading"
  /\ load' = [load EXCEPT ![t] = "drained"]
  /\ UNCHANGED <<closeVars, tableVars, made, id, refs, retired, creation, failed, provider, fin,
                 liveTracks, budgetVars, caller>>

-----------------------------------------------------------------------------
(* The finalizer of t.                                                     *)

Advance(t, from, to) == fin[t] = from /\ fin' = [fin EXCEPT ![t] = to]

FinCancel(t) ==
  /\ Advance(t, "cancel", "await")
  /\ UNCHANGED <<closeVars, tableVars, made, id, refs, retired, creation, failed, provider, load,
                 liveTracks, budgetVars, caller>>

\* Slip: the finalizer does not wait for the factory.
FinAwaitNothing(t) ==
  /\ Advance(t, "await", "drain")
  /\ UNCHANGED <<closeVars, tableVars, made, id, refs, retired, creation, failed, provider, load,
                 liveTracks, budgetVars, caller>>

FinAwaitReady(t) ==
  /\ creation[t] = "ready" /\ Advance(t, "await", "drain")
  /\ UNCHANGED <<closeVars, tableVars, made, id, refs, retired, creation, failed, provider, load,
                 liveTracks, budgetVars, caller>>

\* Loader.Stop and Wait, and the detail store.
FinDrain(t) ==
  /\ load[t] # "loading" /\ Advance(t, "drain", "close")
  /\ UNCHANGED <<closeVars, tableVars, made, id, refs, retired, creation, failed, provider, load,
                 liveTracks, budgetVars, caller>>

FinClose(t) ==
  /\ Advance(t, "close", "release")
  /\ provider' = [provider EXCEPT ![t] = IF @ = "open" THEN "closed" ELSE @]
  /\ UNCHANGED <<closeVars, tableVars, made, id, refs, retired, creation, failed, load,
                 liveTracks, budgetVars, caller>>

\* hub.closeAll, then Budget.release.
FinRelease(t) ==
  /\ Advance(t, "release", "remove")
  /\ handle' = [handle EXCEPT ![id[t].key].refs = @ - 1]
  /\ UNCHANGED <<closeVars, tableVars, made, id, refs, retired, creation, failed, provider, load,
                 liveTracks, permitSet, permitSeq, caller>>

FinRemove(t) ==
  /\ Advance(t, "remove", "finalized")
  /\ liveTracks' = liveTracks \ {t}
  /\ UNCHANGED <<closeVars, tableVars, made, id, refs, retired, creation, failed, provider, load,
                 budgetVars, caller>>

-----------------------------------------------------------------------------
(* Close.                                                                  *)

\* Slip: Close collects the reachable stores only.
ReachableTracks == {t \in liveTracks : ~retired[t]}

\* What Close must wait for: tracks retired earlier may still be draining.
OwnedTracks == liveTracks

Close(c) ==
  /\ caller[c].at = "idle" /\ c \notin closers
  /\ closers' = closers \union {c}
  /\ IF closed
     THEN UNCHANGED <<closed, awaited, retired, fin, entry, tracks>>
     ELSE /\ closed' = TRUE
          /\ awaited' = OwnedTracks
          /\ retired' = [t \in Tracks |-> retired[t] \/ t \in OwnedTracks]
          /\ FinalizeTracks(OwnedTracks)
          /\ entry' = [k \in Keys |-> 0]
          /\ tracks' = [k \in Keys |-> [s \in Scopes |-> Nothing]]
  /\ UNCHANGED <<closeDone, rootDone, incarnationSeq, made, id, refs, creation, failed, provider, load,
                 liveTracks, budgetVars, caller>>

AllFinalized == \A t \in awaited : fin[t] = "finalized"

CloseCompletes ==
  /\ closed /\ ~closeDone /\ AllFinalized
  /\ closeDone' = TRUE /\ rootDone' = TRUE
  /\ UNCHANGED <<closed, closers, awaited, tableVars, made, id, refs, retired, creation, failed,
                 provider, load, fin, liveTracks, budgetVars, caller>>

LeaveClose(c) ==
  /\ c \in closers
  /\ closers' = closers \ {c}
  /\ UNCHANGED <<closed, closeDone, awaited, rootDone, tableVars, made, id, refs, retired, creation,
                 failed, provider, load, fin, liveTracks, budgetVars, caller>>

CloseReturns(c) == closeDone /\ LeaveClose(c)

\* The context of one Close ends: cleanup goes on without it.
CloseGivesUp(c) == ~closeDone /\ LeaveClose(c)

\* The context given to NewRegistry ends.
ParentEnds ==
  /\ ParentCancel /\ ~rootDone
  /\ rootDone' = TRUE
  /\ UNCHANGED <<closed, closeDone, closers, awaited, tableVars, made, id, refs, retired, creation,
                 failed, provider, load, fin, liveTracks, budgetVars, caller>>

-----------------------------------------------------------------------------
Creation(t) == DecideToStart(t) \/ StartLoad(t) \/ PublishReady(t)
Finalizer(t) ==
  FinCancel(t) \/ FinAwaitReady(t) \/ FinDrain(t) \/ FinClose(t) \/ FinRelease(t) \/ FinRemove(t)
Returning(c) == AcquireReturns(c) \/ ReleaseRef(c) \/ FinalizeReleased(c) \/ CloseReturns(c)

Next ==
  \/ \E c \in Callers, k \in Keys, s \in Scopes : Join(c, k, s) \/ Create(c, k, s)
  \/ \E c \in Callers : Returning(c) \/ AcquireCancelled(c) \/ Release(c) \/ Close(c) \/ CloseGivesUp(c)
  \/ \E t \in Tracks : Creation(t) \/ Finalizer(t) \/ LoadDrains(t)
  \/ \E t \in Tracks, ok \in BOOLEAN : FactoryReturns(t, ok)
  \/ CloseCompletes \/ ParentEnds

Spec == Init /\ [][Next]_vars

-----------------------------------------------------------------------------
(* Properties.                                                             *)

Created == 1..made
SameStore(t, u) == id[t].key = id[u].key /\ id[t].scope = id[u].scope
Holders(t) == {c \in Callers : caller[c].track = t /\ caller[c].at \in {"waiting", "holding", "leaving"}}

\* At most one store per (Key, Scope) is referenced, and it is the one the next
\* Acquire will share: look-up, creation and retirement are one atomic operation
\* (attach, releaseTrackRef).  It is torn down by the last reference alone: a
\* caller who holds a lease, or waits for one, keeps the store, until Close takes it
\* from everybody.
OneStoreWhileLeased ==
  /\ TypeOK
  /\ ~closed => \A t \in Created : refs[t] > 0 =>
                  /\ tracks[id[t].key][id[t].scope] = t
                  /\ \A u \in Created \ {t} : SameStore(t, u) => refs[u] = 0
  /\ \A t \in Created :
       /\ refs[t] = Cardinality(Holders(t))
       /\ ~closed /\ Holders(t) # {} => ~retired[t] /\ fin[t] = "none" /\ provider[t] # "closed"

\* The provider of a finalized store is closed, whenever its factory returned,
\* and no provider is closed under a running load.  A nil return of Close means
\* everything the registry ever started has ended, the stores that were retired
\* before Close included.
ClosedMeansDrained ==
  /\ \A t \in Created :
       /\ fin[t] = "finalized" => provider[t] # "open"
       /\ provider[t] = "closed" => load[t] # "loading"
  /\ closeDone => \A t \in Created : /\ creation[t] = "ready" /\ load[t] # "loading"
                                     /\ provider[t] # "open" /\ permitSet[t] # 0

\* Stores of one Key whose native work may overlap, a retired one that is still
\* draining included, share one permit set (Budget.ForStore, release).
SharedPermits ==
  \A t, u \in Created :
    id[t].key = id[u].key /\ fin[t] \notin {"remove", "finalized"} /\ fin[u] \notin {"remove", "finalized"}
      => permitSet[t] = permitSet[u]

\* What goes on by itself: goroutines run, factories return and native work
\* drains.  Nobody is obliged to release a lease or to call Close.
OnItsOwn ==
  \/ \E t \in Tracks : Creation(t) \/ Finalizer(t) \/ LoadDrains(t) \/ \E ok \in BOOLEAN : FactoryReturns(t, ok)
  \/ \E c \in Callers : Returning(c)
  \/ CloseCompletes

AtRest == ~ENABLED OnItsOwn

\* Somebody waits, or a retired store is not finalized.
Unfinished ==
  \/ \E c \in Callers : caller[c].at = "waiting" \/ c \in closers
  \/ \E t \in Created : retired[t] /\ fin[t] # "finalized"

\* Nobody is left waiting, in Acquire or in Close: a creation, a finalizer and a
\* shutdown that wait for one another would be at rest with callers behind them.
\* A retired store is finalized: its provider closed, its permits given back.
NobodyIsStranded == Unfinished => ~AtRest

=============================================================================
