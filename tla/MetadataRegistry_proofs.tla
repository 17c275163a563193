------------------------ MODULE MetadataRegistry_proofs ------------------------
(***************************************************************************)
(* Proofs about the registry, for any number of keys, scopes, callers and  *)
(* stores: one store while it is leased, one permit set per key while      *)
(* native work may overlap, and nothing running once Close has returned;   *)
(* and about what the loads of a store leave behind: the cache, for any    *)
(* database and any order of its categories.                               *)
(***************************************************************************)
EXTENDS MetadataRegistry, MetadataMerge, FiniteSetTheorems, TLAPS

-----------------------------------------------------------------------------
(* The inductive invariant.                                                *)

\* Tracks that do not exist yet are blank, and those that do have their permits.
Blank ==
  /\ \A t \in Tracks : t > made => /\ creation[t] = "none" /\ fin[t] = "none" /\ ~retired[t]
                                   /\ provider[t] = "none" /\ load[t] = "none"
  /\ \A t \in Tracks : t <= made => creation[t] # "none" /\ permitSet[t] # 0

\* Every caller that is not idle is concerned with a track, which a caller about to
\* finalize has retired; a reference is a caller who has not let go.
CallersCounted ==
  /\ \A c \in Callers : /\ caller[c].track <= made
                        /\ caller[c].at # "idle" => caller[c].track # 0
                        /\ caller[c].at = "retiring" => retired[caller[c].track]
  /\ \A t \in Tracks : refs[t] = Cardinality(Holders(t))

\* The tables lead to the stores that are not retired, and those are the ones that
\* have references; Close retires them all.
TablesLead ==
  /\ \A t \in Tracks : t <= made /\ ~retired[t] => tracks[id[t].key][id[t].scope] = t
  /\ \A k \in Keys, s \in Scopes :
       LET t == tracks[k][s] IN
       t # 0 => t <= made /\ id[t].key = k /\ id[t].scope = s /\ ~retired[t]
  /\ \A t \in Tracks : t <= made /\ retired[t] /\ ~closed => refs[t] = 0
  /\ closed => \A t \in Tracks : t <= made => retired[t]

\* How far the finalizer has come, and what must have ended by then.
Ready == {"drain", "close", "release", "remove", "finalized"}
FinalizersWait ==
  \A t \in Tracks :
    /\ fin[t] # "none" => retired[t]
    /\ fin[t] \in Ready => creation[t] = "ready"
    /\ fin[t] \in Ready \ {"drain"} => load[t] # "loading"
    /\ fin[t] \in Ready \ {"drain", "close"} => provider[t] # "open"
    /\ provider[t] = "closed" => fin[t] \in Ready \ {"drain", "close"}

\* A track is owned until it is finalized, and Close waits for what is owned.
CloseWaits ==
  /\ \A t \in Tracks : t \in liveTracks <=> t <= made /\ fin[t] # "finalized"
  /\ closed => \A t \in Tracks : t <= made => t \in awaited \/ fin[t] = "finalized"
  /\ closeDone => closed /\ \A t \in Tracks : t <= made => fin[t] = "finalized"

\* The users of a key hold the permit set of the key, and are counted.
Users(k) == {t \in Tracks : t <= made /\ id[t].key = k /\ fin[t] \notin {"remove", "finalized"}}
PermitsCounted ==
  /\ \A k \in Keys : handle[k].refs = Cardinality(Users(k))
  /\ \A t \in Tracks : t <= made /\ fin[t] \notin {"remove", "finalized"} => permitSet[t] = handle[id[t].key].set

RInv == TypeOK /\ Blank /\ CallersCounted /\ TablesLead /\ FinalizersWait /\ CloseWaits /\ PermitsCounted

-----------------------------------------------------------------------------
(* Small facts.                                                            *)

\* There are no more holders than callers.
LEMMA FewCallers ==
  ASSUME NEW S \in SUBSET Callers
  PROVE  IsFiniteSet(S) /\ Cardinality(S) \in 0..Cardinality(Callers)
<1>1. IsFiniteSet(Callers) /\ Cardinality(Callers) \in Nat
  BY RegistryAssumption, FS_CardinalityType
<1>2. IsFiniteSet(S) /\ Cardinality(S) \in Nat /\ Cardinality(S) <= Cardinality(Callers)
  BY <1>1, FS_Subset, FS_CardinalityType
<1> QED
  BY <1>1, <1>2

\* The holders of a reference can be counted.
LEMMA HoldersFinite ==
  ASSUME NEW t
  PROVE  IsFiniteSet(Holders(t))
<1>1. Holders(t) \in SUBSET Callers
  BY DEF Holders
<1> QED
  BY <1>1, FewCallers

\* There are no more users of a key than tracks.
LEMMA FewTracks ==
  ASSUME NEW S \in SUBSET Tracks
  PROVE  IsFiniteSet(S) /\ Cardinality(S) \in 0..MaxTracks
<1>1. IsFiniteSet(Tracks) /\ Cardinality(Tracks) = MaxTracks
  BY RegistryAssumption, FS_Interval DEF Tracks
<1>2. IsFiniteSet(S) /\ Cardinality(S) \in Nat /\ Cardinality(S) <= MaxTracks
  BY <1>1, FS_Subset, FS_CardinalityType
<1> QED
  BY <1>2, RegistryAssumption

\* The tracks of a key can be counted.
LEMMA UsersFinite ==
  ASSUME NEW k
  PROVE  IsFiniteSet(Users(k))
<1>1. Users(k) \in SUBSET Tracks
  BY DEF Users
<1> QED
  BY <1>1, FewTracks

\* A set without one of its members is smaller by one, and with one more larger.
LEMMA OneMore ==
  ASSUME NEW S, IsFiniteSet(S), NEW x, x \notin S
  PROVE  Cardinality(S \union {x}) = Cardinality(S) + 1
BY FS_AddElement

\* One fewer is one less.
LEMMA OneLess ==
  ASSUME NEW S, IsFiniteSet(S), NEW x \in S
  PROVE  Cardinality(S \ {x}) = Cardinality(S) - 1
BY FS_RemoveElement

-----------------------------------------------------------------------------
(* The registry starts empty.                                              *)

\* No track has been made.
LEMMA InitInv == Init => RInv
<1> SUFFICES ASSUME Init PROVE RInv
  OBVIOUS
<1>1. (CHOOSE k \in Keys : TRUE) \in Keys /\ (CHOOSE s \in Scopes : TRUE) \in Scopes
  BY RegistryAssumption
<1>2. Cardinality(Callers) \in Nat /\ MaxTracks \in Nat
  BY RegistryAssumption, FS_CardinalityType
<1>3. id \in [Tracks -> [key : Keys, scope : Scopes, incarnation : Nat]]
  BY <1>1 DEF Init
<1>4. retired \in [Tracks -> BOOLEAN] /\ failed \in [Tracks -> BOOLEAN]
  BY Zenon DEF Init
<1>5. closed \in BOOLEAN /\ closeDone \in BOOLEAN /\ rootDone \in BOOLEAN
  BY Zenon DEF Init
<1>6. TypeOK
  BY <1>2, <1>3, <1>4, <1>5 DEF Init, TypeOK, FinSteps, Nothing
<1>7. Blank
  BY <1>2 DEF Init, Blank, Tracks
<1>0. Cardinality({}) = 0
  BY FS_EmptySet
<1>8. \A t : Holders(t) = {}
  BY DEF Holders, Init
<1>9. CallersCounted
  <2>1. \A t \in Tracks : Cardinality(Holders(t)) = 0
    BY <1>0, <1>8
  <2> QED
    BY <2>1, <1>2 DEF CallersCounted, Init, Nothing
<1>10. TablesLead
  BY <1>2 DEF TablesLead, Init, Tracks, Nothing
<1>11. FinalizersWait
  BY DEF FinalizersWait, Init, Ready
<1>12. CloseWaits
  BY <1>2 DEF CloseWaits, Init, Tracks
<1>13. \A k : Users(k) = {}
  BY <1>2 DEF Users, Init, Tracks
<1>14. PermitsCounted
  <2>1. \A k \in Keys : Cardinality(Users(k)) = 0
    BY <1>0, <1>13
  <2>2. \A k \in Keys : handle[k].refs = 0
    BY DEF Init
  <2>3. \A t \in Tracks : ~(t <= made)
    BY <1>2 DEF Init, Tracks
  <2> QED
    BY <2>1, <2>2, <2>3 DEF PermitsCounted
<1> QED
  BY <1>6, <1>7, <1>9, <1>10, <1>11, <1>12, <1>14 DEF RInv

-----------------------------------------------------------------------------
(* Callers.                                                                *)

CallerStates == [Callers -> [at : {"idle", "waiting", "holding", "leaving", "retiring"}, track : 0..MaxTracks]]

\* A caller that keeps its reference counts as before.
LEMMA KeepsReference ==
  ASSUME RInv, NEW c \in Callers, NEW at \in {"holding", "leaving"},
         caller[c].at \in {"waiting", "holding"}, Goto(c, at, caller[c].track),
         UNCHANGED <<made, retired, refs>>
  PROVE  CallersCounted' /\ caller' \in CallerStates
<1>1. caller \in CallerStates /\ caller[c].track \in 0..MaxTracks
  BY DEF RInv, TypeOK, CallerStates
<1>2. caller' \in CallerStates
  BY <1>1 DEF Goto, CallerStates
<1>3. \A d \in Callers : /\ caller'[d].track = caller[d].track
                         /\ caller'[d].at = IF d = c THEN at ELSE caller[d].at
  BY <1>1 DEF Goto, CallerStates
<1>4. \A t \in Tracks : Holders(t)' = Holders(t)
  BY <1>3 DEF Holders
<1> QED
  BY <1>2, <1>3, <1>4 DEF RInv, CallersCounted

\* A caller that takes a reference is one holder more.
LEMMA TakesReference ==
  ASSUME RInv, NEW c \in Callers, NEW t \in Tracks,
         caller[c].at = "idle", Goto(c, "waiting", t)
  PROVE  /\ caller' \in CallerStates
         /\ \A d \in Callers \ {c} : caller'[d] = caller[d]
         /\ caller'[c].at = "waiting" /\ caller'[c].track = t
         /\ Cardinality(Holders(t)') = Cardinality(Holders(t)) + 1
         /\ \A u \in Tracks \ {t} : Holders(u)' = Holders(u)
<1>1. caller \in CallerStates /\ t \in 0..MaxTracks
  BY RegistryAssumption DEF RInv, TypeOK, CallerStates, Tracks
<1>2. caller' \in CallerStates
  BY <1>1 DEF Goto, CallerStates
<1>3. /\ \A d \in Callers \ {c} : caller'[d] = caller[d]
      /\ caller'[c].at = "waiting" /\ caller'[c].track = t
  BY <1>1 DEF Goto, CallerStates
<1>4. Holders(t)' = Holders(t) \union {c} /\ c \notin Holders(t)
  BY <1>3 DEF Holders
<1>5. \A u \in Tracks \ {t} : Holders(u)' = Holders(u)
  BY <1>3 DEF Holders
<1> QED
  BY <1>2, <1>3, <1>4, <1>5, OneMore, HoldersFinite

\* Whoever lets go of a track, or is about to finalize one, is concerned with a track.
LEMMA ConcernedWithATrack ==
  ASSUME RInv, NEW c \in Callers, caller[c].at # "idle"
  PROVE  caller[c].track \in Tracks /\ caller[c].track <= made
<1>1. caller[c].track \in 0..MaxTracks /\ caller[c].track # 0
  BY DEF RInv, TypeOK, CallersCounted
<1> QED
  BY <1>1, RegistryAssumption DEF Tracks, RInv, CallersCounted

\* A caller that lets go of its reference is one holder less.
LEMMA DropsReference ==
  ASSUME RInv, NEW c \in Callers, NEW t \in Tracks, t = caller[c].track,
         NEW at \in {"idle", "retiring"}, NEW to \in {Nothing, t},
         caller[c].at = "leaving", Goto(c, at, to)
  PROVE  /\ caller' \in CallerStates
         /\ \A d \in Callers \ {c} : caller'[d] = caller[d]
         /\ caller'[c].at = at /\ caller'[c].track = to
         /\ Cardinality(Holders(t)') = Cardinality(Holders(t)) - 1
         /\ \A u \in Tracks \ {t} : Holders(u)' = Holders(u)
<1>0. t \in 0..MaxTracks /\ 0 \in 0..MaxTracks
  BY RegistryAssumption DEF Tracks
<1>1. caller \in CallerStates /\ to \in 0..MaxTracks
  BY <1>0 DEF RInv, TypeOK, CallerStates, Nothing
<1>2. caller' \in CallerStates
  BY <1>1 DEF Goto, CallerStates
<1>3. /\ \A d \in Callers \ {c} : caller'[d] = caller[d]
      /\ caller'[c].at = at /\ caller'[c].track = to
  BY <1>1 DEF Goto, CallerStates
<1>4. Holders(t)' = Holders(t) \ {c} /\ c \in Holders(t)
  BY <1>3 DEF Holders
<1>5. \A u \in Tracks \ {t} : Holders(u)' = Holders(u)
  BY <1>3 DEF Holders
<1> QED
  BY <1>2, <1>3, <1>4, <1>5, OneLess, HoldersFinite

-----------------------------------------------------------------------------
(* What a step leaves alone.                                               *)

\* The parts of the invariant that speak of the callers, the tables, Close and the
\* permits survive a step that changes none of their variables.
LEMMA CallersUntouched ==
  ASSUME RInv, UNCHANGED <<caller, made, retired, refs>>
  PROVE  CallersCounted'
<1>1. \A t : Holders(t)' = Holders(t)
  BY DEF Holders
<1> QED
  BY <1>1 DEF RInv, CallersCounted

\* A step that leaves the registry's tables alone keeps what is said about them.
LEMMA TablesUntouched ==
  ASSUME RInv, UNCHANGED <<made, retired, tracks, id, refs, closed>>
  PROVE  TablesLead'
BY DEF RInv, TablesLead

\* A step that neither ends nor begins the use of a permit set keeps the counts.
LEMMA PermitsUntouched ==
  ASSUME RInv, UNCHANGED <<handle, made, id, permitSet>>,
         \A t \in Tracks : fin'[t] \in {"remove", "finalized"} <=> fin[t] \in {"remove", "finalized"}
  PROVE  PermitsCounted'
<1>1. \A k \in Keys : Users(k)' = Users(k)
  BY DEF Users
<1> QED
  BY <1>1 DEF RInv, PermitsCounted

-----------------------------------------------------------------------------
(* Callers that keep or take a reference.                                  *)

\* The lease is handed out, or refused, or given back: the reference stays for now.
LEMMA KeepsReferenceInv ==
  ASSUME RInv, NEW c \in Callers, AcquireReturns(c) \/ AcquireCancelled(c) \/ Release(c)
  PROVE  RInv'
<1>1. UNCHANGED <<closeVars, tableVars, made, id, refs, retired, creation, failed, provider, load,
                  fin, liveTracks, budgetVars>>
  BY DEF AcquireReturns, AcquireCancelled, Release
<1>2. caller[c].at \in {"waiting", "holding"}
  BY DEF AcquireReturns, AcquireCancelled, Release
<1>3. \E at \in {"holding", "leaving"} : Goto(c, at, caller[c].track)
  BY DEF AcquireReturns, AcquireCancelled, Release
<1>4. CallersCounted' /\ caller' \in CallerStates
  BY <1>1, <1>2, <1>3, KeepsReference
<1>5. TypeOK'
  BY <1>1, <1>4 DEF RInv, TypeOK, CallerStates, closeVars, tableVars, budgetVars
<1>6. TablesLead' /\ PermitsCounted'
  BY <1>1, TablesUntouched, PermitsUntouched DEF closeVars, tableVars, budgetVars
<1> QED
  BY <1>1, <1>4, <1>5, <1>6
     DEF RInv, Blank, FinalizersWait, CloseWaits, closeVars, tableVars, budgetVars

\* A reachable store is not retired, and gains a reference.
LEMMA JoinInv ==
  ASSUME RInv, NEW c \in Callers, NEW k \in Keys, NEW s \in Scopes, Join(c, k, s)
  PROVE  RInv'
<1>1. PICK t \in Tracks : t = tracks[k][s] /\ t <= made /\ ~retired[t]
  <2>1. tracks[k][s] \in 0..MaxTracks /\ tracks[k][s] # 0
    BY DEF RInv, TypeOK, Join, Nothing
  <2> QED
    BY <2>1, RegistryAssumption DEF RInv, TablesLead, Tracks
<1>2. /\ UNCHANGED <<closeVars, tableVars, made, id, retired, creation, failed, provider, load,
                     fin, liveTracks, budgetVars>>
      /\ ~closed /\ caller[c].at = "idle" /\ refs' = [refs EXCEPT ![t] = @ + 1] /\ Goto(c, "waiting", t)
  BY <1>1 DEF Join
<1>3. /\ caller' \in CallerStates
      /\ \A d \in Callers \ {c} : caller'[d] = caller[d]
      /\ caller'[c].at = "waiting" /\ caller'[c].track = t
      /\ Cardinality(Holders(t)') = Cardinality(Holders(t)) + 1
      /\ \A u \in Tracks \ {t} : Holders(u)' = Holders(u)
  BY <1>2, TakesReference
<1>4. refs \in [Tracks -> 0..Cardinality(Callers)] /\ Cardinality(Callers) \in Nat
  BY RegistryAssumption, FS_CardinalityType DEF RInv, TypeOK
<1>5. /\ refs'[t] = refs[t] + 1 /\ \A u \in Tracks \ {t} : refs'[u] = refs[u]
      /\ DOMAIN refs' = Tracks /\ refs' = [u \in Tracks |-> refs'[u]]
  BY <1>2, <1>4
<1>6. \A u \in Tracks : refs'[u] = Cardinality(Holders(u)')
  BY <1>3, <1>5 DEF RInv, CallersCounted
<1>7. \A u \in Tracks : refs'[u] \in 0..Cardinality(Callers)
  <2>1. \A u \in Tracks : Cardinality(Holders(u)') \in 0..Cardinality(Callers)
    <3>1. \A u \in Tracks : Holders(u)' \in SUBSET Callers
      BY DEF Holders
    <3> QED
      BY <3>1, FewCallers
  <2> QED
    BY <1>6, <2>1
<1>8. TypeOK'
  BY <1>2, <1>3, <1>5, <1>7 DEF RInv, TypeOK, CallerStates, closeVars, tableVars, budgetVars
<1>9. CallersCounted'
  BY <1>1, <1>2, <1>3, <1>6, RegistryAssumption DEF RInv, CallersCounted, Tracks
<1>10. TablesLead'
  BY <1>1, <1>2, <1>5 DEF RInv, TablesLead, closeVars, tableVars
<1>11. PermitsCounted'
  BY <1>2, PermitsUntouched DEF budgetVars
<1> QED
  BY <1>2, <1>8, <1>9, <1>10, <1>11
     DEF RInv, Blank, FinalizersWait, CloseWaits, closeVars, budgetVars

-----------------------------------------------------------------------------
(* A new store.                                                            *)

\* The new track is the only one in its cell of the tables, is referenced by its
\* creator, is owned by the registry, and has the permit set of its key: the one the
\* other users hold, or a fresh one if there are none.
LEMMA CreateInv ==
  ASSUME RInv, NEW c \in Callers, NEW k \in Keys, NEW s \in Scopes, Create(c, k, s)
  PROVE  RInv'
<1>0. made \in 0..MaxTracks /\ MaxTracks \in Nat /\ made < MaxTracks /\ entry[k] \in Nat
      /\ incarnationSeq \in Nat /\ Cardinality(Callers) \in Nat
  BY RegistryAssumption, FS_CardinalityType DEF RInv, TypeOK, Create
<1> PICK t \in Tracks : t = made + 1
  BY <1>0 DEF Tracks
<1> PICK e \in Nat : e = EntryFor(k)
  BY <1>0 DEF EntryFor
<1>1. /\ ~closed /\ caller[c].at = "idle" /\ tracks[k][s] = Nothing
      /\ made' = t /\ entry' = [entry EXCEPT ![k] = e]
      /\ incarnationSeq' \in Nat
      /\ tracks' = [tracks EXCEPT ![k][s] = t]
      /\ id' = [id EXCEPT ![t] = [key |-> k, scope |-> s, incarnation |-> e]]
      /\ refs' = [refs EXCEPT ![t] = 1]
      /\ liveTracks' = liveTracks \union {t}
      /\ creation' = [creation EXCEPT ![t] = "factory"]
      /\ Goto(c, "waiting", t)
      /\ UNCHANGED <<closeVars, retired, failed, provider, load, fin>>
  BY <1>0 DEF Create
<1>2. ForStore(t, k)
  BY DEF Create
<1>3. /\ t = made + 1 /\ \A u \in Tracks : u <= made' <=> u = t \/ u <= made
      /\ \A u \in Tracks : u <= made => u # t
      /\ t > made
  BY <1>0, <1>1 DEF Tracks
<1>4. /\ caller' \in CallerStates
      /\ \A d \in Callers \ {c} : caller'[d] = caller[d]
      /\ caller'[c].at = "waiting" /\ caller'[c].track = t
      /\ Cardinality(Holders(t)') = Cardinality(Holders(t)) + 1
      /\ \A u \in Tracks \ {t} : Holders(u)' = Holders(u)
  BY <1>1, TakesReference
<1>5. Holders(t) = {}
  BY <1>0, <1>3 DEF Holders, RInv, CallersCounted, TypeOK, Tracks
<1>6. /\ id'[t] = [key |-> k, scope |-> s, incarnation |-> e]
      /\ \A u \in Tracks \ {t} : id'[u] = id[u]
      /\ id' \in [Tracks -> [key : Keys, scope : Scopes, incarnation : Nat]]
  BY <1>1 DEF RInv, TypeOK
<1>7. /\ refs'[t] = 1 /\ \A u \in Tracks \ {t} : refs'[u] = refs[u]
      /\ \A u \in Tracks : refs'[u] = Cardinality(Holders(u)')
  <2>1. refs'[t] = 1 /\ \A u \in Tracks \ {t} : refs'[u] = refs[u]
    BY <1>1 DEF RInv, TypeOK
  <2>2. Cardinality(Holders(t)') = 1
    BY <1>4, <1>5, FS_EmptySet
  <2> QED
    BY <1>4, <2>1, <2>2 DEF RInv, CallersCounted
<1>8. refs' \in [Tracks -> 0..Cardinality(Callers)]
  <2>1. \A u \in Tracks : Holders(u)' \in SUBSET Callers
    BY DEF Holders
  <2>2. 1 \in 0..Cardinality(Callers)
    BY <1>7, <2>1, FewCallers
  <2> QED
    BY <1>1, <2>2 DEF RInv, TypeOK
<1>9. /\ tracks' \in [Keys -> [Scopes -> 0..MaxTracks]]
      /\ tracks'[k][s] = t
      /\ \A x \in Keys, y \in Scopes : x # k \/ y # s => tracks'[x][y] = tracks[x][y]
  <2>1. t \in 0..MaxTracks
    BY <1>0 DEF Tracks
  <2> QED
    BY <1>1, <2>1 DEF RInv, TypeOK
<1>10. CallersCounted'
  <2>1. \A d \in Callers : caller'[d].track <= made'
    <3>1. \A d \in Callers : caller[d].track <= made /\ caller[d].track \in Nat
      BY <1>0 DEF RInv, CallersCounted, TypeOK
    <3> QED
      BY <3>1, <1>0, <1>1, <1>3, <1>4
  <2>2. \A d \in Callers : /\ caller'[d].at # "idle" => caller'[d].track # 0
                           /\ caller'[d].at = "retiring" => retired'[caller'[d].track]
    BY <1>0, <1>1, <1>3, <1>4 DEF RInv, CallersCounted
  <2> QED
    BY <1>7, <2>1, <2>2 DEF CallersCounted
<1>11. TablesLead'
  <2>1. ~retired[t] /\ retired' = retired /\ ~closed /\ ~closed'
    BY <1>1, <1>3 DEF RInv, Blank, closeVars
  <2>2. \A u \in Tracks : u <= made' /\ ~retired'[u] => tracks'[id'[u].key][id'[u].scope] = u
    <3> SUFFICES ASSUME NEW u \in Tracks, u # t, u <= made, ~retired[u]
                 PROVE  tracks'[id[u].key][id[u].scope] = u
      BY <1>3, <1>6, <1>9, <2>1
    <3>1. tracks[id[u].key][id[u].scope] = u /\ id[u].key \in Keys /\ id[u].scope \in Scopes
      BY DEF RInv, TablesLead, TypeOK
    <3>2. u # 0
      BY <1>0 DEF Tracks
    <3> QED
      BY <1>1, <1>9, <3>1, <3>2 DEF Nothing
  <2>3. \A x \in Keys, y \in Scopes : tracks'[x][y] # 0 =>
           tracks'[x][y] <= made' /\ id'[tracks'[x][y]].key = x /\ id'[tracks'[x][y]].scope = y
           /\ ~retired'[tracks'[x][y]]
    <3> SUFFICES ASSUME NEW x \in Keys, NEW y \in Scopes, x # k \/ y # s, tracks[x][y] # 0
                 PROVE  tracks[x][y] <= made' /\ id'[tracks[x][y]].key = x /\ id'[tracks[x][y]].scope = y
                        /\ ~retired[tracks[x][y]]
      BY <1>1, <1>3, <1>6, <1>9, <2>1
    <3> PICK u : u = tracks[x][y]
      OBVIOUS
    <3>1. u <= made /\ id[u].key = x /\ id[u].scope = y /\ ~retired[u] /\ u \in 0..MaxTracks
      BY DEF RInv, TablesLead, TypeOK
    <3>2. u \in Tracks
      BY <3>1, <1>0 DEF Tracks
    <3> QED
      BY <3>1, <3>2, <1>3, <1>6
  <2>4. \A u \in Tracks : u <= made' /\ retired'[u] /\ ~closed' => refs'[u] = 0
    BY <1>3, <1>7, <2>1 DEF RInv, TablesLead
  <2> QED
    BY <2>1, <2>2, <2>3, <2>4 DEF TablesLead
<1>12. FinalizersWait' /\ CloseWaits'
  <2>1. fin[t] = "none" /\ creation[t] = "none" /\ ~closed /\ fin' = fin /\ retired' = retired
        /\ load' = load /\ provider' = provider /\ closed' = closed /\ closeDone' = closeDone
    BY <1>1, <1>3 DEF RInv, Blank, closeVars
  <2>2. creation'[t] = "factory" /\ \A u \in Tracks \ {t} : creation'[u] = creation[u]
    BY <1>1 DEF RInv, TypeOK
  <2>3. provider[t] = "none"
    BY <1>3 DEF RInv, Blank
  <2>4. FinalizersWait'
    BY <2>1, <2>2, <2>3 DEF RInv, FinalizersWait, Ready
  <2>5. CloseWaits'
    BY <1>1, <1>3, <2>1 DEF RInv, CloseWaits
  <2> QED
    BY <2>4, <2>5
<1>13. /\ permitSet' \in [Tracks -> Nat] /\ handle' \in [Keys -> [set : Nat, refs : Nat]]
       /\ permitSeq' \in Nat
       /\ permitSet'[t] = handle'[k].set /\ permitSet'[t] # 0
       /\ handle'[k].refs = handle[k].refs + 1
       /\ handle[k].refs # 0 => handle'[k].set = handle[k].set
       /\ \A u \in Tracks \ {t} : permitSet'[u] = permitSet[u]
       /\ \A x \in Keys \ {k} : handle'[x] = handle[x]
  <2>1. /\ permitSet \in [Tracks -> Nat] /\ permitSeq \in Nat
        /\ handle \in [Keys -> [set : Nat, refs : Nat]]
    BY <1>0 DEF RInv, TypeOK
  <2>2. CASE handle[k].refs = 0
    BY <1>2, <2>1, <2>2 DEF ForStore
  <2>3. CASE handle[k].refs # 0
    <3>1. Users(k) # {}
      BY <2>3, FS_EmptySet DEF RInv, PermitsCounted
    <3>2. handle[k].set # 0
      BY <3>1 DEF Users, RInv, PermitsCounted, Blank
    <3>3. /\ handle' = [handle EXCEPT ![k].refs = @ + 1]
          /\ permitSet' = [permitSet EXCEPT ![t] = handle[k].set]
          /\ permitSeq' = permitSeq
      BY <1>2, <2>3 DEF ForStore
    <3> QED
      BY <2>1, <2>3, <3>2, <3>3
  <2> QED
    BY <2>2, <2>3
<1>14. PermitsCounted' /\ handle' \in [Keys -> [set : Nat, refs : 0..MaxTracks]]
  <2>1. fin' = fin /\ fin[t] = "none"
    BY <1>1, <1>3 DEF RInv, Blank
  <2>2. Users(k)' = Users(k) \union {t} /\ t \notin Users(k)
    BY <1>3, <1>6, <2>1 DEF Users
  <2>3. \A x \in Keys \ {k} : Users(x)' = Users(x)
    <3> SUFFICES ASSUME NEW x \in Keys \ {k} PROVE Users(x)' = Users(x)
      OBVIOUS
    <3>1. \A u \in Tracks : u <= made' /\ id'[u].key = x <=> u <= made /\ id[u].key = x
      BY <1>3, <1>6
    <3> QED
      BY <2>1, <3>1 DEF Users
  <2>4. Cardinality(Users(k)') = Cardinality(Users(k)) + 1
    BY <2>2, OneMore, UsersFinite
  <2>5. \A x \in Keys : handle'[x].refs = Cardinality(Users(x)')
    BY <1>13, <2>3, <2>4 DEF RInv, PermitsCounted
  <2>6. \A x \in Keys : Users(x)' \in SUBSET Tracks
    BY DEF Users
  <2>7. \A x \in Keys : handle'[x].refs \in 0..MaxTracks
    BY <2>5, <2>6, FewTracks
  <2>8. handle' \in [Keys -> [set : Nat, refs : 0..MaxTracks]]
    BY <1>13, <2>7
  <2>9. \A u \in Tracks \ {t} : u <= made /\ fin[u] \notin {"remove", "finalized"} =>
           permitSet'[u] = handle'[id[u].key].set
    <3> SUFFICES ASSUME NEW u \in Tracks \ {t}, u <= made, fin[u] \notin {"remove", "finalized"}
                 PROVE  permitSet'[u] = handle'[id[u].key].set
      OBVIOUS
    <3>1. permitSet'[u] = permitSet[u] /\ permitSet[u] = handle[id[u].key].set /\ id[u].key \in Keys
      BY <1>13 DEF RInv, PermitsCounted, TypeOK
    <3>2. CASE id[u].key # k
      BY <3>1, <3>2, <1>13
    <3>3. CASE id[u].key = k
      <4>1. u \in Users(k)
        BY <3>3 DEF Users
      <4>2. handle[k].refs # 0
        BY <4>1, UsersFinite, FS_EmptySet DEF RInv, PermitsCounted
      <4> QED
        BY <3>1, <3>3, <4>2, <1>13
    <3> QED
      BY <3>2, <3>3
  <2>10. \A u \in Tracks : u <= made' /\ fin'[u] \notin {"remove", "finalized"} =>
           permitSet'[u] = handle'[id'[u].key].set
    BY <2>1, <2>9, <1>3, <1>6, <1>13
  <2> QED
    BY <2>5, <2>8, <2>10 DEF PermitsCounted
<1>15. Blank'
  <2>1. UNCHANGED <<fin, retired, provider, load>>
    BY <1>1
  <2>2. creation'[t] = "factory" /\ \A u \in Tracks \ {t} : creation'[u] = creation[u]
    BY <1>1 DEF RInv, TypeOK
  <2>3. \A u \in Tracks : u > made' => u # t /\ u > made
    BY <1>0, <1>1, <1>3 DEF Tracks
  <2>4. \A u \in Tracks : u <= made' => creation'[u] # "none" /\ permitSet'[u] # 0
    BY <1>3, <1>13, <2>2 DEF RInv, Blank
  <2> QED
    BY <2>1, <2>2, <2>3, <2>4 DEF RInv, Blank
<1>16. TypeOK'
  <2>1. UNCHANGED <<closed, closeDone, rootDone, closers, awaited, retired, failed, provider, load, fin>>
    BY <1>1 DEF closeVars
  <2>2. entry' \in [Keys -> Nat] /\ creation' \in [Tracks -> {"none", "factory", "check", "start", "publish", "ready"}]
    BY <1>1 DEF RInv, TypeOK
  <2>3. made' \in 0..MaxTracks /\ liveTracks' \in SUBSET Tracks
    <3>1. t \in 0..MaxTracks
      BY <1>0 DEF Tracks
    <3> QED
      BY <1>1, <3>1 DEF RInv, TypeOK
  <2> QED
    BY <1>1, <1>4, <1>6, <1>8, <1>9, <1>13, <1>14, <2>1, <2>2, <2>3 DEF RInv, TypeOK, CallerStates
<1> QED
  BY <1>10, <1>11, <1>12, <1>14, <1>15, <1>16 DEF RInv

-----------------------------------------------------------------------------
(* A reference is released.                                                *)

\* What Detach does to the tables: it takes t out of its cell, and nothing else.
LEMMA DetachFacts ==
  ASSUME RInv, NEW t \in Tracks, Detach(t)
  PROVE  /\ entry' \in [Keys -> Nat] /\ tracks' \in [Keys -> [Scopes -> 0..MaxTracks]]
         /\ \A k \in Keys, s \in Scopes : tracks'[k][s] = IF tracks[k][s] = t THEN 0 ELSE tracks[k][s]
<1> PICK x \in Keys : x = id[t].key
  BY DEF RInv, TypeOK
<1> PICK y \in Scopes : y = id[t].scope
  BY DEF RInv, TypeOK
<1>1. t # 0 /\ 0 \in 0..MaxTracks
  BY RegistryAssumption DEF Tracks
<1>2. tracks' = IF tracks[x][y] = t THEN [tracks EXCEPT ![x][y] = 0] ELSE tracks
  BY DEF Detach, Nothing
<1>3. tracks' \in [Keys -> [Scopes -> 0..MaxTracks]]
  BY <1>1, <1>2 DEF RInv, TypeOK
<1>4. entry' = [entry EXCEPT ![x] = 0] \/ entry' = entry
  BY DEF Detach
<1>5. entry' \in [Keys -> Nat]
  BY <1>4 DEF RInv, TypeOK
<1>6. \A k \in Keys, s \in Scopes : tracks[k][s] = t => k = x /\ s = y
  BY <1>1 DEF RInv, TablesLead
<1>7. \A k \in Keys, s \in Scopes : tracks'[k][s] = IF tracks[k][s] = t THEN 0 ELSE tracks[k][s]
  BY <1>2, <1>6 DEF RInv, TypeOK
<1> QED
  BY <1>3, <1>5, <1>7

\* A lease gives back its reference; the last one retires the track.
LEMMA ReleaseRefInv ==
  ASSUME RInv, NEW c \in Callers, ReleaseRef(c)
  PROVE  RInv'
<1>0. caller[c].at = "leaving"
  BY DEF ReleaseRef
<1> PICK t \in Tracks : t = caller[c].track /\ t <= made
  BY <1>0, ConcernedWithATrack
<1>1. /\ refs' = [refs EXCEPT ![t] = @ - 1]
      /\ UNCHANGED <<closeVars, incarnationSeq, made, id, creation, failed, provider, load,
                     fin, liveTracks, budgetVars>>
  BY DEF ReleaseRef
<1>2. \/ /\ refs[t] = 1 /\ retired' = [retired EXCEPT ![t] = TRUE] /\ Detach(t) /\ Goto(c, "retiring", t)
      \/ /\ refs[t] # 1 /\ UNCHANGED <<retired, entry, tracks>> /\ Goto(c, "idle", Nothing)
  BY DEF ReleaseRef, NoneLeft
<1>3. \E at \in {"idle", "retiring"}, to \in {Nothing, t} :
        /\ Goto(c, at, to) /\ to \in {0, t}
        /\ at # "idle" => to # 0 /\ refs[t] = 1
  <2>1. t # 0
    BY DEF Tracks
  <2> QED
    BY <1>2, <2>1 DEF Nothing
<1> PICK at \in {"idle", "retiring"}, to \in {Nothing, t} :
        /\ Goto(c, at, to) /\ to \in {0, t}
        /\ at # "idle" => to # 0 /\ refs[t] = 1
  BY <1>3
<1>4. /\ caller' \in CallerStates
      /\ \A d \in Callers \ {c} : caller'[d] = caller[d]
      /\ caller'[c].at = at /\ caller'[c].track = to
      /\ Cardinality(Holders(t)') = Cardinality(Holders(t)) - 1
      /\ \A u \in Tracks \ {t} : Holders(u)' = Holders(u)
  BY <1>0, DropsReference
<1>5. /\ refs'[t] = refs[t] - 1 /\ \A u \in Tracks \ {t} : refs'[u] = refs[u]
      /\ \A u \in Tracks : refs'[u] = Cardinality(Holders(u)')
      /\ refs' \in [Tracks -> 0..Cardinality(Callers)]
  <2>1. refs'[t] = refs[t] - 1 /\ (\A u \in Tracks \ {t} : refs'[u] = refs[u]) /\ DOMAIN refs' = Tracks
        /\ refs' = [u \in Tracks |-> refs'[u]]
    BY <1>1 DEF RInv, TypeOK
  <2>2. \A u \in Tracks : refs'[u] = Cardinality(Holders(u)')
    BY <1>4, <2>1 DEF RInv, CallersCounted
  <2>3. \A u \in Tracks : Holders(u)' \in SUBSET Callers
    BY DEF Holders
  <2>4. \A u \in Tracks : refs'[u] \in 0..Cardinality(Callers)
    BY <2>2, <2>3, FewCallers
  <2> QED
    BY <2>1, <2>2, <2>4
<1>6. /\ retired' \in [Tracks -> BOOLEAN] /\ entry' \in [Keys -> Nat]
      /\ tracks' \in [Keys -> [Scopes -> 0..MaxTracks]]
  <2>1. CASE refs[t] = 1
    <3>1. retired' = [retired EXCEPT ![t] = TRUE] /\ Detach(t)
      BY <1>2, <2>1
    <3>2. retired \in [Tracks -> BOOLEAN]
      BY DEF RInv, TypeOK
    <3>3. retired' \in [Tracks -> BOOLEAN]
      BY <3>1, <3>2, Zenon
    <3> QED
      BY <3>1, <3>3, DetachFacts
  <2>2. CASE refs[t] # 1
    BY <1>2, <2>2 DEF RInv, TypeOK
  <2> QED
    BY <2>1, <2>2
<1>7. /\ \A u \in Tracks : retired'[u] <=> retired[u] \/ (u = t /\ refs[t] = 1)
      /\ \A k \in Keys, s \in Scopes :
            tracks'[k][s] = IF refs[t] = 1 /\ tracks[k][s] = t THEN 0 ELSE tracks[k][s]
  <2>1. CASE refs[t] = 1
    <3>1. retired' = [retired EXCEPT ![t] = TRUE] /\ Detach(t)
      BY <1>2, <2>1
    <3>2. \A u \in Tracks : retired'[u] <=> retired[u] \/ u = t
      BY <3>1 DEF RInv, TypeOK
    <3> QED
      BY <2>1, <3>1, <3>2, DetachFacts
  <2>2. CASE refs[t] # 1
    BY <1>2, <2>2
  <2> QED
    BY <2>1, <2>2
<1>8. TypeOK'
  BY <1>1, <1>4, <1>5, <1>6 DEF RInv, TypeOK, CallerStates, closeVars, budgetVars
<1>9. CallersCounted'
  <2>1. \A d \in Callers : caller'[d].track <= made'
    <3>1. 0 <= made /\ made' = made
      BY <1>1, RegistryAssumption DEF RInv, TypeOK
    <3> QED
      BY <1>4, <3>1 DEF RInv, CallersCounted
  <2>2. \A d \in Callers : caller'[d].at # "idle" => caller'[d].track # 0
    BY <1>4 DEF RInv, CallersCounted
  <2>3. \A d \in Callers : caller'[d].at = "retiring" => retired'[caller'[d].track]
    <3> SUFFICES ASSUME NEW d \in Callers, caller'[d].at = "retiring" PROVE retired'[caller'[d].track]
      OBVIOUS
    <3>1. CASE d = c
      <4>1. caller'[d].track = t /\ refs[t] = 1
        BY <1>4, <3>1
      <4> QED
        BY <4>1, <1>7
    <3>2. CASE d # c
      <4>1. caller'[d] = caller[d] /\ caller[d].at = "retiring"
        BY <1>4, <3>2
      <4>2. caller[d].track \in Tracks /\ retired[caller[d].track]
        BY <4>1, ConcernedWithATrack DEF RInv, CallersCounted
      <4> QED
        BY <4>1, <4>2, <1>7
    <3> QED
      BY <3>1, <3>2
  <2> QED
    BY <1>5, <2>1, <2>2, <2>3 DEF CallersCounted
<1>10. TablesLead'
  <2>0. made' = made /\ id' = id /\ closed' = closed
    BY <1>1 DEF closeVars
  <2>1. \A u \in Tracks : u <= made /\ ~retired'[u] => tracks'[id[u].key][id[u].scope] = u
    <3> SUFFICES ASSUME NEW u \in Tracks, u <= made, ~retired'[u]
                 PROVE  tracks'[id[u].key][id[u].scope] = u
      OBVIOUS
    <3>1. ~retired[u] /\ ~(u = t /\ refs[t] = 1)
      BY <1>7
    <3>2. tracks[id[u].key][id[u].scope] = u /\ id[u].key \in Keys /\ id[u].scope \in Scopes
      BY <3>1 DEF RInv, TablesLead, TypeOK
    <3> QED
      BY <1>7, <3>1, <3>2
  <2>2. \A k \in Keys, s \in Scopes : tracks'[k][s] # 0 =>
           tracks'[k][s] <= made /\ id[tracks'[k][s]].key = k /\ id[tracks'[k][s]].scope = s
           /\ ~retired'[tracks'[k][s]]
    <3> SUFFICES ASSUME NEW k \in Keys, NEW s \in Scopes, tracks'[k][s] # 0
                 PROVE  tracks'[k][s] <= made /\ id[tracks'[k][s]].key = k /\ id[tracks'[k][s]].scope = s
                        /\ ~retired'[tracks'[k][s]]
      OBVIOUS
    <3> PICK u : u = tracks[k][s]
      OBVIOUS
    <3>1. tracks'[k][s] = u /\ u # 0 /\ ~(refs[t] = 1 /\ u = t)
      BY <1>7
    <3>2. u <= made /\ id[u].key = k /\ id[u].scope = s /\ ~retired[u] /\ u \in 0..MaxTracks
      BY <3>1 DEF RInv, TablesLead, TypeOK
    <3>3. u \in Tracks
      BY <3>1, <3>2, RegistryAssumption DEF Tracks
    <3> QED
      BY <1>7, <3>1, <3>2, <3>3
  <2>3. \A u \in Tracks : u <= made /\ retired'[u] /\ ~closed => refs'[u] = 0
    <3>1. refs[t] # 0
      <4>1. refs'[t] \in 0..Cardinality(Callers) /\ Cardinality(Callers) \in Nat
            /\ refs[t] \in 0..Cardinality(Callers)
        BY <1>5, RegistryAssumption, FS_CardinalityType DEF RInv, TypeOK
      <4> QED
        BY <4>1, <1>5
    <3> QED
      BY <1>5, <1>7, <3>1 DEF RInv, TablesLead
  <2>4. closed => \A u \in Tracks : u <= made => retired'[u]
    BY <1>7 DEF RInv, TablesLead
  <2> QED
    BY <2>0, <2>1, <2>2, <2>3, <2>4 DEF TablesLead
<1>11. Blank'
  <2>1. UNCHANGED <<made, creation, fin, provider, load, permitSet>>
    BY <1>1 DEF budgetVars
  <2>2. \A u \in Tracks : u > made => ~retired'[u]
    <3>1. made \in Nat
      BY RegistryAssumption DEF RInv, TypeOK
    <3> QED
      BY <1>7, <3>1 DEF RInv, Blank, Tracks
  <2> QED
    BY <2>1, <2>2 DEF RInv, Blank
<1>12. FinalizersWait' /\ CloseWaits'
  BY <1>1, <1>7 DEF RInv, FinalizersWait, CloseWaits, closeVars
<1>13. PermitsCounted'
  BY <1>1, PermitsUntouched DEF budgetVars
<1> QED
  BY <1>8, <1>9, <1>10, <1>11, <1>12, <1>13 DEF RInv

\* Finalizers are scheduled for retired stores that exist.
LEMMA FinalizeFacts ==
  ASSUME RInv, NEW S \in SUBSET Tracks, FinalizeTracks(S),
         \A t \in S : t <= made
  PROVE  /\ fin' \in [Tracks -> FinSteps]
         /\ \A t \in Tracks : fin'[t] = fin[t] \/ (fin[t] = "none" /\ fin'[t] = "cancel" /\ t \in S)
BY DEF FinalizeTracks, RInv, TypeOK, FinSteps

\* The caller that took the last reference starts the finalizer.
LEMMA FinalizeReleasedInv ==
  ASSUME RInv, NEW c \in Callers, FinalizeReleased(c)
  PROVE  RInv'
<1>0. caller[c].at = "retiring"
  BY DEF FinalizeReleased
<1> PICK t \in Tracks : t = caller[c].track /\ t <= made
  BY <1>0, ConcernedWithATrack
<1>1. /\ FinalizeTracks({t}) /\ Goto(c, "idle", Nothing)
      /\ UNCHANGED <<closeVars, tableVars, made, id, refs, retired, creation, failed, provider, load,
                     liveTracks, budgetVars>>
  BY DEF FinalizeReleased
<1>2. /\ fin' \in [Tracks -> FinSteps]
      /\ \A u \in Tracks : fin'[u] = fin[u] \/ (fin[u] = "none" /\ fin'[u] = "cancel" /\ u = t)
  BY <1>1, FinalizeFacts
<1>3. caller \in CallerStates /\ Nothing \in 0..MaxTracks
  BY RegistryAssumption DEF RInv, TypeOK, CallerStates, Nothing
<1>4. /\ caller' \in CallerStates
      /\ \A d \in Callers \ {c} : caller'[d] = caller[d]
      /\ caller'[c].at = "idle" /\ caller'[c].track = 0
  BY <1>1, <1>3 DEF Goto, CallerStates, Nothing
<1>5. \A u \in Tracks : Holders(u)' = Holders(u)
  BY <1>0, <1>4 DEF Holders
<1>6. TypeOK'
  BY <1>1, <1>2, <1>4 DEF RInv, TypeOK, CallerStates, closeVars, tableVars, budgetVars
<1>7. CallersCounted'
  <2>1. made' = made /\ 0 <= made /\ retired' = retired /\ refs' = refs
    BY <1>1, RegistryAssumption DEF RInv, TypeOK
  <2> QED
    BY <1>4, <1>5, <2>1 DEF RInv, CallersCounted
<1>8. TablesLead'
  BY <1>1, TablesUntouched DEF closeVars, tableVars
<1>9. PermitsCounted'
  BY <1>1, <1>2, PermitsUntouched DEF budgetVars
<1>10. retired[t] /\ made \in Nat
  BY <1>0, RegistryAssumption DEF RInv, CallersCounted, TypeOK
<1>11. Blank'
  BY <1>1, <1>2, <1>10 DEF RInv, Blank, Tracks, budgetVars
<1>12. FinalizersWait' /\ CloseWaits'
  BY <1>1, <1>2, <1>10 DEF RInv, FinalizersWait, CloseWaits, Ready, closeVars
<1> QED
  BY <1>6, <1>7, <1>8, <1>9, <1>11, <1>12 DEF RInv

-----------------------------------------------------------------------------
(* createTrack and the load.                                               *)

\* A store is built, started and published before its finalizer goes on.
LEMMA CreationInv ==
  ASSUME RInv, NEW t \in Tracks,
         Creation(t) \/ LoadDrains(t) \/ (\E ok \in BOOLEAN : FactoryReturns(t, ok))
  PROVE  RInv'
<1>1. UNCHANGED <<closeVars, tableVars, made, id, refs, retired, fin, liveTracks, budgetVars, caller>>
  BY DEF Creation, DecideToStart, StartLoad, PublishReady, LoadDrains, FactoryReturns
<1>2. CallersCounted' /\ TablesLead' /\ PermitsCounted' /\ CloseWaits'
  <2>1. CallersCounted' /\ TablesLead' /\ PermitsCounted'
    BY <1>1, CallersUntouched, TablesUntouched, PermitsUntouched DEF closeVars, tableVars, budgetVars
  <2> QED
    BY <1>1, <2>1 DEF RInv, CloseWaits, closeVars
<1>3. made \in Nat /\ \A u \in Tracks : u <= made \/ u > made
  BY RegistryAssumption DEF RInv, TypeOK, Tracks
<1>4. failed' \in [Tracks -> BOOLEAN]
  <2>0. failed \in [Tracks -> BOOLEAN]
    BY DEF RInv, TypeOK
  <2>1. failed' = failed \/ failed' = [failed EXCEPT ![t] = TRUE]
    BY DEF Creation, DecideToStart, StartLoad, PublishReady, LoadDrains, FactoryReturns
  <2>2. CASE failed' = failed
    BY <2>0, <2>2
  <2>3. CASE failed' = [failed EXCEPT ![t] = TRUE]
    BY <2>0, <2>3, Zenon
  <2> QED
    BY <2>1, <2>2, <2>3
<1>5. /\ creation' \in [Tracks -> {"none", "factory", "check", "start", "publish", "ready"}]
      /\ provider' \in [Tracks -> {"none", "open", "closed"}]
      /\ load' \in [Tracks -> {"none", "loading", "drained"}]
      /\ \A u \in Tracks \ {t} : creation'[u] = creation[u] /\ provider'[u] = provider[u] /\ load'[u] = load[u]
  BY DEF RInv, TypeOK, Creation, DecideToStart, StartLoad, PublishReady, LoadDrains, FactoryReturns
<1>6. \/ /\ creation[t] # "ready" /\ creation[t] # "none" /\ creation'[t] # "none"
         /\ load'[t] # load[t] => load[t] = "none" \/ creation[t] = "start"
         /\ provider'[t] = provider[t] \/ provider'[t] = "open"
      \/ /\ load[t] = "loading" /\ load'[t] = "drained" /\ UNCHANGED <<creation, provider>>
  BY DEF RInv, TypeOK, Creation, DecideToStart, StartLoad, PublishReady, LoadDrains, FactoryReturns
<1>7. TypeOK'
  BY <1>1, <1>4, <1>5 DEF RInv, TypeOK, closeVars, tableVars, budgetVars
<1>8. t <= made
  BY <1>3, <1>6 DEF RInv, Blank
<1>9. Blank'
  BY <1>1, <1>3, <1>5, <1>6, <1>8 DEF RInv, Blank, budgetVars
<1>10. FinalizersWait'
  <2>1. fin' = fin /\ retired' = retired
    BY <1>1
  <2>2. CASE creation[t] # "ready"
    <3>1. fin[t] \notin Ready
      BY <2>2 DEF RInv, FinalizersWait
    <3>2. provider'[t] # "closed"
      <4>1. provider[t] # "closed"
        BY <3>1 DEF RInv, FinalizersWait
      <4> QED
        BY <4>1, <1>6
    <3> QED
      BY <2>1, <3>1, <3>2, <1>5 DEF RInv, FinalizersWait
  <2>3. CASE creation[t] = "ready"
    BY <2>1, <2>3, <1>5, <1>6 DEF RInv, FinalizersWait
  <2> QED
    BY <2>2, <2>3
<1> QED
  BY <1>2, <1>7, <1>9, <1>10 DEF RInv

-----------------------------------------------------------------------------
(* The finalizer.                                                          *)

\* Cancelling, waiting, draining and closing: the permits stay with the store.
LEMMA FinalizerWaitsInv ==
  ASSUME RInv, NEW t \in Tracks, FinCancel(t) \/ FinAwaitReady(t) \/ FinDrain(t) \/ FinClose(t)
  PROVE  RInv'
<1>1. UNCHANGED <<closeVars, tableVars, made, id, refs, retired, creation, failed, load,
                  liveTracks, budgetVars, caller>>
  BY DEF FinCancel, FinAwaitReady, FinDrain, FinClose
<1>2. /\ fin' \in [Tracks -> FinSteps] /\ provider' \in [Tracks -> {"none", "open", "closed"}]
      /\ \A u \in Tracks \ {t} : fin'[u] = fin[u] /\ provider'[u] = provider[u]
  BY DEF RInv, TypeOK, FinSteps, Advance, FinCancel, FinAwaitReady, FinDrain, FinClose
<1>3. \/ fin[t] = "cancel" /\ fin'[t] = "await" /\ provider' = provider
      \/ fin[t] = "await" /\ creation[t] = "ready" /\ fin'[t] = "drain" /\ provider' = provider
      \/ fin[t] = "drain" /\ load[t] # "loading" /\ fin'[t] = "close" /\ provider' = provider
      \/ fin[t] = "close" /\ fin'[t] = "release" /\ provider'[t] = IF provider[t] = "open" THEN "closed" ELSE provider[t]
  BY DEF RInv, TypeOK, Advance, FinCancel, FinAwaitReady, FinDrain, FinClose
<1>4. TypeOK'
  BY <1>1, <1>2 DEF RInv, TypeOK, closeVars, tableVars, budgetVars
<1>5. CallersCounted' /\ TablesLead'
  BY <1>1, CallersUntouched, TablesUntouched DEF closeVars, tableVars
<1>6. PermitsCounted'
  <2>1. \A u \in Tracks : fin'[u] \in {"remove", "finalized"} <=> fin[u] \in {"remove", "finalized"}
    BY <1>2, <1>3
  <2> QED
    BY <1>1, <2>1, PermitsUntouched DEF budgetVars
<1>7. t <= made
  <2>1. made \in Nat /\ (t <= made \/ t > made)
    BY RegistryAssumption DEF RInv, TypeOK, Tracks
  <2> QED
    BY <2>1, <1>3 DEF RInv, Blank
<1>8. Blank'
  <2>1. \A u \in Tracks : u > made => u # t
    BY <1>7, RegistryAssumption DEF RInv, TypeOK, Tracks
  <2> QED
    BY <1>1, <1>2, <2>1 DEF RInv, Blank, budgetVars
<1>9. FinalizersWait'
  BY <1>1, <1>2, <1>3 DEF RInv, FinalizersWait, Ready
<1>10. CloseWaits'
  <2>1. \A u \in Tracks : fin'[u] = "finalized" <=> fin[u] = "finalized"
    BY <1>2, <1>3
  <2> QED
    BY <1>1, <2>1 DEF RInv, CloseWaits, closeVars
<1> QED
  BY <1>4, <1>5, <1>6, <1>8, <1>9, <1>10 DEF RInv

\* The permits are given back: one user of the key is gone.
LEMMA FinReleaseInv ==
  ASSUME RInv, NEW t \in Tracks, FinRelease(t)
  PROVE  RInv'
<1>1. UNCHANGED <<closeVars, tableVars, made, id, refs, retired, creation, failed, provider, load,
                  liveTracks, permitSet, permitSeq, caller>>
  BY DEF FinRelease
<1> PICK k \in Keys : k = id[t].key
  BY DEF RInv, TypeOK
<1>2. /\ fin' \in [Tracks -> FinSteps] /\ fin[t] = "release" /\ fin'[t] = "remove"
      /\ \A u \in Tracks \ {t} : fin'[u] = fin[u]
  BY DEF RInv, TypeOK, FinSteps, Advance, FinRelease
<1>3. made \in Nat /\ MaxTracks \in Nat /\ t <= made
  <2>1. made \in Nat /\ MaxTracks \in Nat /\ (t <= made \/ t > made)
    BY RegistryAssumption DEF RInv, TypeOK, Tracks
  <2> QED
    BY <2>1, <1>2 DEF RInv, Blank
<1>4. Users(k)' = Users(k) \ {t} /\ t \in Users(k)
  BY <1>1, <1>2, <1>3 DEF Users
<1>5. \A x \in Keys \ {k} : Users(x)' = Users(x)
  <2> SUFFICES ASSUME NEW x \in Keys \ {k} PROVE Users(x)' = Users(x)
    OBVIOUS
  <2>1. \A u \in Tracks : id[u].key = x => u # t
    OBVIOUS
  <2> QED
    BY <1>1, <1>2, <2>1 DEF Users
<1>6. Cardinality(Users(k)') = Cardinality(Users(k)) - 1
  BY <1>4, OneLess, UsersFinite
<1>7. /\ handle'[k].refs = handle[k].refs - 1 /\ \A x \in Keys : handle'[x].set = handle[x].set
      /\ \A x \in Keys \ {k} : handle'[x] = handle[x]
      /\ DOMAIN handle' = Keys /\ handle' = [x \in Keys |-> handle'[x]]
      /\ \A x \in Keys : handle'[x] \in [set : Nat, refs : Int]
  <2>1. handle \in [Keys -> [set : Nat, refs : Int]]
    BY <1>3 DEF RInv, TypeOK
  <2>2. handle' = [handle EXCEPT ![id[t].key].refs = @ - 1]
    BY DEF FinRelease
  <2>3. handle' = [handle EXCEPT ![k].refs = @ - 1]
    BY <2>2
  <2>4. DOMAIN handle' = Keys /\ handle' = [x \in Keys |-> handle'[x]]
    BY <2>1, <2>3
  <2>5. \A x \in Keys \ {k} : handle'[x] = handle[x]
    BY <2>1, <2>3
  <2>6. handle'[k] = [set |-> handle[k].set, refs |-> handle[k].refs - 1]
    BY <2>1, <2>3
  <2>7. handle[k].set \in Nat /\ handle[k].refs - 1 \in Int
    BY <2>1
  <2> QED
    BY <2>1, <2>4, <2>5, <2>6, <2>7
<1>8. \A x \in Keys : handle'[x].refs = Cardinality(Users(x)')
  BY <1>5, <1>6, <1>7 DEF RInv, PermitsCounted
<1>9. handle' \in [Keys -> [set : Nat, refs : 0..MaxTracks]]
  <2>1. \A x \in Keys : Users(x)' \in SUBSET Tracks
    BY DEF Users
  <2>2. \A x \in Keys : handle'[x].refs \in 0..MaxTracks
    BY <1>8, <2>1, FewTracks
  <2> QED
    BY <1>7, <2>2
<1>10. PermitsCounted'
  <2>1. \A u \in Tracks : u <= made /\ fin'[u] \notin {"remove", "finalized"} =>
           permitSet[u] = handle'[id[u].key].set
    BY <1>2, <1>7 DEF RInv, PermitsCounted, TypeOK
  <2> QED
    BY <1>1, <1>8, <2>1 DEF PermitsCounted
<1>11. TypeOK'
  BY <1>1, <1>2, <1>9 DEF RInv, TypeOK, closeVars, tableVars
<1>12. CallersCounted' /\ TablesLead'
  BY <1>1, CallersUntouched, TablesUntouched DEF closeVars, tableVars
<1>13. Blank'
  <2>1. \A u \in Tracks : u > made => u # t
    BY <1>3 DEF Tracks
  <2> QED
    BY <1>1, <1>2, <2>1 DEF RInv, Blank
<1>14. FinalizersWait'
  BY <1>1, <1>2 DEF RInv, FinalizersWait, Ready
<1>15. CloseWaits'
  <2>1. \A u \in Tracks : fin'[u] = "finalized" <=> fin[u] = "finalized"
    BY <1>2
  <2> QED
    BY <1>1, <2>1 DEF RInv, CloseWaits, closeVars
<1> QED
  BY <1>10, <1>11, <1>12, <1>13, <1>14, <1>15 DEF RInv

\* The registry owns the store no longer.
LEMMA FinRemoveInv ==
  ASSUME RInv, NEW t \in Tracks, FinRemove(t)
  PROVE  RInv'
<1>1. /\ UNCHANGED <<closeVars, tableVars, made, id, refs, retired, creation, failed, provider, load,
                     budgetVars, caller>>
      /\ liveTracks' = liveTracks \ {t}
  BY DEF FinRemove
<1>2. /\ fin' \in [Tracks -> FinSteps] /\ fin[t] = "remove" /\ fin'[t] = "finalized"
      /\ \A u \in Tracks \ {t} : fin'[u] = fin[u]
  BY DEF RInv, TypeOK, FinSteps, Advance, FinRemove
<1>3. made \in Nat /\ t <= made
  <2>1. made \in Nat /\ (t <= made \/ t > made)
    BY RegistryAssumption DEF RInv, TypeOK, Tracks
  <2> QED
    BY <2>1, <1>2 DEF RInv, Blank
<1>4. TypeOK'
  BY <1>1, <1>2 DEF RInv, TypeOK, closeVars, tableVars, budgetVars
<1>5. CallersCounted' /\ TablesLead'
  BY <1>1, CallersUntouched, TablesUntouched DEF closeVars, tableVars
<1>6. PermitsCounted'
  <2>1. \A u \in Tracks : fin'[u] \in {"remove", "finalized"} <=> fin[u] \in {"remove", "finalized"}
    BY <1>2
  <2> QED
    BY <1>1, <2>1, PermitsUntouched DEF budgetVars
<1>7. Blank'
  <2>1. \A u \in Tracks : u > made => u # t
    BY <1>3 DEF Tracks
  <2> QED
    BY <1>1, <1>2, <2>1 DEF RInv, Blank, budgetVars
<1>8. FinalizersWait'
  BY <1>1, <1>2 DEF RInv, FinalizersWait, Ready
<1>9. CloseWaits'
  BY <1>1, <1>2, <1>3 DEF RInv, CloseWaits, closeVars
<1> QED
  BY <1>4, <1>5, <1>6, <1>7, <1>8, <1>9 DEF RInv

-----------------------------------------------------------------------------
(* Close.                                                                  *)

\* Close retires every store the registry owns and waits for all of them; a store it
\* does not own has been finalized.
LEMMA CloseInv ==
  ASSUME RInv, NEW c \in Callers, Close(c)
  PROVE  RInv'
<1>1. /\ UNCHANGED <<closeDone, rootDone, incarnationSeq, made, id, refs, creation, failed, provider, load,
                     liveTracks, budgetVars, caller>>
      /\ closers' \in SUBSET Callers
  BY DEF Close, RInv, TypeOK
<1>2. CASE closed
  <2>1. UNCHANGED <<closed, awaited, retired, fin, entry, tracks>>
    BY <1>2 DEF Close
  <2>2. CallersCounted' /\ TablesLead' /\ PermitsCounted'
    BY <1>1, <2>1, CallersUntouched, TablesUntouched, PermitsUntouched DEF budgetVars
  <2>3. TypeOK'
    BY <1>1, <2>1 DEF RInv, TypeOK, budgetVars
  <2> QED
    BY <1>1, <2>1, <2>2, <2>3 DEF RInv, Blank, FinalizersWait, CloseWaits, budgetVars
<1>3. CASE ~closed
  <2>1. /\ closed' = TRUE /\ awaited' = liveTracks
        /\ retired' = [t \in Tracks |-> retired[t] \/ t \in liveTracks]
        /\ FinalizeTracks(liveTracks)
        /\ entry' = [k \in Keys |-> 0]
        /\ tracks' = [k \in Keys |-> [s \in Scopes |-> 0]]
    BY <1>3 DEF Close, OwnedTracks, Nothing
  <2>2. /\ made \in Nat /\ 0 \in 0..MaxTracks /\ (\A t \in Tracks : t <= made \/ t > made)
        /\ liveTracks \in SUBSET Tracks /\ (\A t \in Tracks : ~(t <= made /\ t > made))
    BY RegistryAssumption DEF RInv, TypeOK, Tracks
  <2>3. \A t \in liveTracks : t <= made
    BY <2>2 DEF RInv, CloseWaits
  <2>4. /\ fin' \in [Tracks -> FinSteps]
        /\ \A t \in Tracks : fin'[t] = fin[t] \/ (fin[t] = "none" /\ fin'[t] = "cancel" /\ t \in liveTracks)
    BY <2>1, <2>2, <2>3, FinalizeFacts
  <2>5. /\ retired' \in [Tracks -> BOOLEAN]
        /\ \A t \in Tracks : retired'[t] <=> retired[t] \/ t \in liveTracks
    <3>1. \A t \in Tracks : retired'[t] \in BOOLEAN
      BY <2>1
    <3>2. retired' \in [Tracks -> BOOLEAN]
      BY <2>1, Zenon
    <3> QED
      BY <2>1, <3>2
  <2>6. \A t \in Tracks : t <= made => retired'[t]
    BY <2>5 DEF RInv, CloseWaits, FinalizersWait
  <2>7. closed' \in BOOLEAN
    BY <2>1
  <2>8. TypeOK'
    BY <1>1, <2>1, <2>2, <2>4, <2>5, <2>7 DEF RInv, TypeOK, budgetVars
  <2>9. CallersCounted'
    <3>1. \A t : Holders(t)' = Holders(t)
      BY <1>1 DEF Holders
    <3>2. \A d \in Callers : caller[d].at = "retiring" => retired'[caller[d].track]
      <4> SUFFICES ASSUME NEW d \in Callers, caller[d].at = "retiring" PROVE retired'[caller[d].track]
        OBVIOUS
      <4>1. caller[d].track \in Tracks /\ caller[d].track <= made
        BY ConcernedWithATrack
      <4> QED
        BY <4>1, <2>6
    <3> QED
      BY <1>1, <3>1, <3>2 DEF RInv, CallersCounted
  <2>10. TablesLead'
    BY <1>1, <2>1, <2>6 DEF TablesLead
  <2>11. PermitsCounted'
    BY <1>1, <2>4, PermitsUntouched DEF budgetVars
  <2>12. Blank'
    BY <1>1, <2>2, <2>3, <2>4, <2>5 DEF RInv, Blank, budgetVars
  <2>13. FinalizersWait'
    BY <1>1, <2>4, <2>5 DEF RInv, FinalizersWait, Ready
  <2>14. CloseWaits'
    BY <1>1, <1>3, <2>1, <2>4 DEF RInv, CloseWaits
  <2> QED
    BY <2>8, <2>9, <2>10, <2>11, <2>12, <2>13, <2>14 DEF RInv
<1> QED
  BY <1>2, <1>3

\* Close completes when all it waits for is finalized; a closer comes and goes, and
\* the root context ends, without touching a store.
LEMMA AroundCloseInv ==
  ASSUME RInv, CloseCompletes \/ ParentEnds \/ UNCHANGED vars
               \/ (\E c \in Callers : CloseReturns(c) \/ CloseGivesUp(c))
  PROVE  RInv'
<1>1. /\ UNCHANGED <<closed, awaited, tableVars, made, id, refs, retired, creation,
                     failed, provider, load, fin, liveTracks, budgetVars, caller>>
      /\ closers' \in SUBSET Callers /\ closeDone' \in BOOLEAN /\ rootDone' \in BOOLEAN
      /\ closeDone' = closeDone \/ (closed /\ AllFinalized)
  BY DEF RInv, TypeOK, CloseCompletes, ParentEnds, CloseReturns, CloseGivesUp, LeaveClose, vars, closeVars
<1>2. CallersCounted' /\ TablesLead' /\ PermitsCounted'
  BY <1>1, CallersUntouched, TablesUntouched, PermitsUntouched DEF tableVars, budgetVars
<1>3. TypeOK'
  BY <1>1 DEF RInv, TypeOK, tableVars, budgetVars
<1>4. CloseWaits'
  BY <1>1 DEF RInv, CloseWaits, AllFinalized
<1> QED
  BY <1>1, <1>2, <1>3, <1>4 DEF RInv, Blank, FinalizersWait, budgetVars

-----------------------------------------------------------------------------
(* Every step.                                                             *)

\* Every step keeps the invariant.
LEMMA NextInv == RInv /\ [Next]_vars => RInv'
<1> SUFFICES ASSUME RInv, [Next]_vars PROVE RInv'
  OBVIOUS
<1>1. CASE \E c \in Callers, k \in Keys, s \in Scopes : Join(c, k, s) \/ Create(c, k, s)
  BY <1>1, JoinInv, CreateInv
<1>2. CASE \E c \in Callers : Returning(c) \/ AcquireCancelled(c) \/ Release(c) \/ Close(c) \/ CloseGivesUp(c)
  <2> PICK c \in Callers : Returning(c) \/ AcquireCancelled(c) \/ Release(c) \/ Close(c) \/ CloseGivesUp(c)
    BY <1>2
  <2>1. CASE AcquireReturns(c) \/ AcquireCancelled(c) \/ Release(c)
    BY <2>1, KeepsReferenceInv
  <2>2. CASE ReleaseRef(c)
    BY <2>2, ReleaseRefInv
  <2>3. CASE FinalizeReleased(c)
    BY <2>3, FinalizeReleasedInv
  <2>4. CASE Close(c)
    BY <2>4, CloseInv
  <2>5. CASE CloseReturns(c) \/ CloseGivesUp(c)
    BY <2>5, AroundCloseInv
  <2> QED
    BY <2>1, <2>2, <2>3, <2>4, <2>5 DEF Returning
<1>3. CASE \E t \in Tracks : Creation(t) \/ Finalizer(t) \/ LoadDrains(t)
  <2> PICK t \in Tracks : Creation(t) \/ Finalizer(t) \/ LoadDrains(t)
    BY <1>3
  <2>1. CASE Creation(t) \/ LoadDrains(t)
    BY <2>1, CreationInv
  <2>2. CASE Finalizer(t)
    BY <2>2, FinalizerWaitsInv, FinReleaseInv, FinRemoveInv DEF Finalizer
  <2> QED
    BY <2>1, <2>2
<1>4. CASE \E t \in Tracks, ok \in BOOLEAN : FactoryReturns(t, ok)
  BY <1>4, CreationInv
<1>5. CASE CloseCompletes \/ ParentEnds \/ UNCHANGED vars
  BY <1>5, AroundCloseInv
<1> QED
  BY <1>1, <1>2, <1>3, <1>4, <1>5 DEF Next

\* The inductive invariant holds in every reachable state.
THEOREM RegistryInvariant == Spec => []RInv
<1>1. Init => RInv
  BY InitInv
<1>2. RInv /\ [Next]_vars => RInv'
  BY NextInv
<1> QED
  BY <1>1, <1>2, PTL DEF Spec

-----------------------------------------------------------------------------
(* What the registry promises.                                             *)

\* One store per key and scope is referenced, it is the one the next Acquire shares,
\* its count is the number of callers behind it, and nobody takes it from them while
\* the registry is open (attach, releaseTrackRef, finalizeTrack).
THEOREM StoresAreShared == Spec => []OneStoreWhileLeased
<1>1. RInv => OneStoreWhileLeased
  <2> SUFFICES ASSUME RInv PROVE OneStoreWhileLeased
    OBVIOUS
  <2>1. \A t \in Created : t \in Tracks /\ t <= made
    BY RegistryAssumption DEF Created, Tracks, RInv, TypeOK
  <2>2. \A t \in Created : ~closed /\ refs[t] # 0 => ~retired[t] /\ tracks[id[t].key][id[t].scope] = t
    BY <2>1 DEF RInv, TablesLead
  <2>3. \A t \in Created : refs[t] \in 0..Cardinality(Callers) /\ refs[t] = Cardinality(Holders(t))
    BY <2>1 DEF RInv, CallersCounted, TypeOK
  <2>4. Cardinality(Callers) \in Nat
    BY RegistryAssumption, FS_CardinalityType
  <2>5. \A t \in Created : refs[t] > 0 <=> refs[t] # 0
    BY <2>3, <2>4
  <2>6. \A t \in Created : Holders(t) # {} => refs[t] # 0
    BY <2>3, HoldersFinite, FS_EmptySet
  <2>7. \A t \in Created : ~retired[t] => fin[t] = "none" /\ provider[t] # "closed"
    BY <2>1 DEF RInv, FinalizersWait, Ready
  <2>8. ~closed => \A t \in Created : refs[t] > 0 =>
          /\ tracks[id[t].key][id[t].scope] = t
          /\ \A u \in Created \ {t} : SameStore(t, u) => refs[u] = 0
    BY <2>2, <2>5 DEF SameStore
  <2>9. \A t \in Created :
          /\ refs[t] = Cardinality(Holders(t))
          /\ ~closed /\ Holders(t) # {} => ~retired[t] /\ fin[t] = "none" /\ provider[t] # "closed"
    BY <2>2, <2>3, <2>6, <2>7
  <2>10. TypeOK
    BY DEF RInv
  <2> QED
    BY <2>8, <2>9, <2>10 DEF OneStoreWhileLeased
<1> QED
  BY <1>1, RegistryInvariant, PTL

\* Stores of one key whose native work may overlap use one permit set, a store that is
\* still draining included (Budget.ForStore, release).
THEOREM OverlappingStoresSharePermits == Spec => []SharedPermits
<1>1. RInv => SharedPermits
  <2> SUFFICES ASSUME RInv PROVE SharedPermits
    OBVIOUS
  <2>1. \A t \in Created : t \in Tracks /\ t <= made
    BY RegistryAssumption DEF Created, Tracks, RInv, TypeOK
  <2> QED
    BY <2>1 DEF RInv, PermitsCounted, SharedPermits
<1> QED
  BY <1>1, RegistryInvariant, PTL

\* A finalized store has closed its provider after its load had ended, and once Close
\* has returned everything the registry ever started has ended (finalizeTrack, Close).
THEOREM NothingOutlivesClose == Spec => []ClosedMeansDrained
<1>1. RInv => ClosedMeansDrained
  <2> SUFFICES ASSUME RInv PROVE ClosedMeansDrained
    OBVIOUS
  <2>1. \A t \in Created : t \in Tracks /\ t <= made
    BY RegistryAssumption DEF Created, Tracks, RInv, TypeOK
  <2>2. \A t \in Created : /\ fin[t] = "finalized" => provider[t] # "open" /\ creation[t] = "ready" /\ load[t] # "loading"
                           /\ provider[t] = "closed" => load[t] # "loading"
    BY <2>1 DEF RInv, FinalizersWait, Ready
  <2> QED
    BY <2>1, <2>2 DEF ClosedMeansDrained, RInv, CloseWaits, Blank
<1> QED
  BY <1>1, RegistryInvariant, PTL

-----------------------------------------------------------------------------
(* Nobody waits in vain.  What is enabled is beyond the prover, so that    *)
(* the guards of the steps in OnItsOwn are spelled out; the runs check the *)
(* same of what is enabled (NobodyIsStranded).                             *)

\* The guard of some step that the registry's goroutines, its factories or its callers
\* take without anybody's doing.
SomethingMoves ==
  \/ \E t \in Tracks : \/ creation[t] \in {"factory", "check", "start", "publish"} \/ load[t] = "loading"
                       \/ fin[t] \in {"cancel", "close", "release", "remove"}
                       \/ fin[t] = "await" /\ creation[t] = "ready"
                       \/ fin[t] = "drain" /\ load[t] # "loading"
  \/ \E c \in Callers : \/ caller[c].at = "waiting" /\ creation[caller[c].track] = "ready"
                        \/ caller[c].at \in {"leaving", "retiring"}
                        \/ c \in closers /\ closeDone
  \/ closed /\ ~closeDone /\ AllFinalized

\* Whoever retired a store is about to finalize it, and Close has begun before anybody
\* waits in it.
FinalizersOwed ==
  /\ \A t \in Tracks : retired[t] /\ fin[t] = "none" =>
       \E c \in Callers : caller[c].at = "retiring" /\ caller[c].track = t
  /\ closers # {} => closed
  /\ \A t \in awaited : t \in Tracks /\ fin[t] # "none"

\* A store is handed from who retired it to its finalizer.
LEMMA OwedStays == RInv /\ FinalizersOwed /\ [Next]_vars => FinalizersOwed'
<1> SUFFICES ASSUME RInv, FinalizersOwed, [Next]_vars PROVE FinalizersOwed'
  OBVIOUS
<1>1. TypeOK
  BY DEF RInv
<1>2. ASSUME UNCHANGED <<closed, closers, awaited, retired, fin>>,
             \A c \in Callers : caller[c].at = "retiring" => caller'[c] = caller[c]
      PROVE  FinalizersOwed'
  BY <1>2 DEF FinalizersOwed
<1>3. ASSUME NEW c \in Callers, NEW k \in Keys, NEW s \in Scopes, Join(c, k, s) \/ Create(c, k, s) PROVE FinalizersOwed'
  <2>1. caller[c].at = "idle" /\ UNCHANGED <<closed, closers, awaited, retired, fin>> /\ \E r : caller' = [caller EXCEPT ![c] = r]
    BY <1>3 DEF Join, Create, Goto, closeVars
  <2> QED
    BY <1>1, <1>2, <2>1 DEF TypeOK
<1>4. ASSUME NEW c \in Callers, AcquireReturns(c) \/ AcquireCancelled(c) \/ Release(c) PROVE FinalizersOwed'
  <2>1. /\ caller[c].at # "retiring" /\ UNCHANGED <<closed, closers, awaited, retired, fin>>
        /\ \E r : caller' = [caller EXCEPT ![c] = r]
    BY <1>4 DEF AcquireReturns, AcquireCancelled, Release, Goto, closeVars
  <2> QED
    BY <1>1, <1>2, <2>1 DEF TypeOK
<1>5. ASSUME NEW c \in Callers, ReleaseRef(c) PROVE FinalizersOwed'
  <2>1. caller[c].at = "leaving" /\ UNCHANGED <<closed, closers, awaited, fin>>
    BY <1>5 DEF ReleaseRef, closeVars
  <2>2. \/ retired' = retired /\ caller' = [caller EXCEPT ![c] = [at |-> "idle", track |-> Nothing]]
        \/ /\ retired' = [retired EXCEPT ![caller[c].track] = TRUE]
           /\ caller' = [caller EXCEPT ![c] = [at |-> "retiring", track |-> caller[c].track]]
    BY <1>5 DEF ReleaseRef, Goto
  <2>3. \A d \in Callers : caller[d].at = "retiring" => caller'[d] = caller[d]
    BY <1>1, <2>1, <2>2 DEF TypeOK
  <2>4. \A t \in Tracks : retired'[t] /\ ~retired[t] => caller'[c].at = "retiring" /\ caller'[c].track = t
    BY <1>1, <2>2 DEF TypeOK
  <2>5. \A t \in Tracks : retired'[t] /\ fin'[t] = "none" => \E d \in Callers : caller'[d].at = "retiring" /\ caller'[d].track = t
    <3> SUFFICES ASSUME NEW t \in Tracks, retired'[t], fin'[t] = "none"
                 PROVE  \E d \in Callers : caller'[d].at = "retiring" /\ caller'[d].track = t
      OBVIOUS
    <3>1. CASE retired[t]
      BY <2>1, <2>3, <3>1 DEF FinalizersOwed
    <3>2. CASE ~retired[t]
      BY <2>4, <3>2
    <3> QED
      BY <3>1, <3>2
  <2> QED
    BY <2>1, <2>5 DEF FinalizersOwed
<1>6. ASSUME NEW c \in Callers, FinalizeReleased(c) PROVE FinalizersOwed'
  <2>1. /\ UNCHANGED <<closed, closers, awaited, retired>> /\ caller' = [caller EXCEPT ![c] = [at |-> "idle", track |-> Nothing]]
        /\ fin' = [t \in Tracks |-> IF t \in {caller[c].track} /\ fin[t] = "none" THEN "cancel" ELSE fin[t]]
    BY <1>6 DEF FinalizeReleased, FinalizeTracks, Goto, closeVars
  <2>2. \A t \in Tracks : /\ fin'[t] = "none" => fin[t] = "none" /\ t # caller[c].track
    BY <2>1
  <2>3. \A d \in Callers : d # c => caller'[d] = caller[d]
    BY <1>1, <2>1 DEF TypeOK
  <2> QED
    BY <2>1, <2>2, <2>3 DEF FinalizersOwed
<1>7. ASSUME NEW t \in Tracks, Creation(t) \/ LoadDrains(t) \/ \E ok \in BOOLEAN : FactoryReturns(t, ok) PROVE FinalizersOwed'
  <2>1. UNCHANGED <<closed, closers, awaited, retired, fin, caller>>
    BY <1>7 DEF Creation, LoadDrains, FactoryReturns, DecideToStart, StartLoad, PublishReady, closeVars
  <2> QED
    BY <1>2, <2>1
<1>8. ASSUME NEW t \in Tracks, Finalizer(t) PROVE FinalizersOwed'
  <2>1. /\ UNCHANGED <<closed, closers, awaited, retired, caller>> /\ fin[t] # "none"
        /\ \E to \in FinSteps \ {"none"} : fin' = [fin EXCEPT ![t] = to]
    BY <1>8 DEF Finalizer, FinCancel, FinAwaitReady, FinDrain, FinClose, FinRelease, FinRemove, Advance, closeVars, FinSteps
  <2> QED
    BY <1>1, <2>1 DEF FinalizersOwed, TypeOK
<1>9. ASSUME NEW c \in Callers, Close(c) PROVE FinalizersOwed'
  <2>1. CASE closed
    BY <1>9, <2>1 DEF Close, FinalizersOwed
  <2>2. CASE ~closed
    <3>1. /\ closed' /\ awaited' = liveTracks /\ caller' = caller
          /\ retired' = [t \in Tracks |-> retired[t] \/ t \in liveTracks]
          /\ fin' = [t \in Tracks |-> IF t \in liveTracks /\ fin[t] = "none" THEN "cancel" ELSE fin[t]]
      BY <1>9, <2>2 DEF Close, OwnedTracks, FinalizeTracks
    <3>2. \A t \in Tracks : /\ fin'[t] = "none" => fin[t] = "none" /\ t \notin liveTracks
                            /\ t \in liveTracks => fin'[t] # "none"
      BY <3>1
    <3>3. \A t \in Tracks : t \notin liveTracks /\ retired'[t] => retired[t]
      BY <3>1
    <3>4. liveTracks \subseteq Tracks
      BY <1>1 DEF TypeOK
    <3> QED
      BY <3>1, <3>2, <3>3, <3>4 DEF FinalizersOwed
  <2> QED
    BY <2>1, <2>2
<1>10. ASSUME CloseCompletes \/ ParentEnds \/ \E c \in Callers : CloseReturns(c) \/ CloseGivesUp(c) PROVE FinalizersOwed'
  <2>1. UNCHANGED <<closed, awaited, retired, fin, caller>> /\ closers' \subseteq closers
    BY <1>10 DEF CloseCompletes, ParentEnds, CloseReturns, CloseGivesUp, LeaveClose
  <2> QED
    BY <2>1 DEF FinalizersOwed
<1>11. CASE UNCHANGED vars
  BY <1>2, <1>11 DEF vars, closeVars
<1> QED
  BY <1>3, <1>4, <1>5, <1>6, <1>7, <1>8, <1>9, <1>10, <1>11 DEF Next, Returning

\* As long as anybody waits in Acquire or in Close, or a retired store is not finalized,
\* something can move that needs nobody's help: creations, finalizers and the shutdown never
\* wait for one another in a circle, for any number of stores and callers.
THEOREM NobodyWaitsInVain ==
  Spec => [](~SomethingMoves => /\ \A c \in Callers : caller[c].at # "waiting" /\ c \notin closers
                                /\ \A t \in Created : retired[t] => fin[t] = "finalized")
<1>1. Init => FinalizersOwed
  BY DEF Init, FinalizersOwed
<1>2. ASSUME RInv, FinalizersOwed, ~SomethingMoves
      PROVE  /\ \A c \in Callers : caller[c].at # "waiting" /\ c \notin closers
             /\ \A t \in Created : retired[t] => fin[t] = "finalized"
  <2>1. TypeOK /\ made \in 0..MaxTracks /\ MaxTracks \in Nat /\ Created \subseteq Tracks
        /\ \A t \in Created : t <= made /\ t \in Tracks
    <3>1. TypeOK /\ MaxTracks \in Nat
      BY <1>2, RegistryAssumption DEF RInv
    <3>2. made \in 0..MaxTracks
      BY <3>1 DEF TypeOK
    <3>3. \A t \in Created : t <= made /\ t \in Tracks
      BY <3>1, <3>2 DEF Created, Tracks
    <3> QED
      BY <3>1, <3>2, <3>3
  <2>2. \A t \in Created : creation[t] = "ready"
    BY <1>2, <2>1 DEF RInv, Blank, SomethingMoves, TypeOK
  <2>3. \A t \in Tracks : fin[t] # "none" => fin[t] = "finalized"
    <3> SUFFICES ASSUME NEW t \in Tracks, fin[t] # "none", fin[t] # "finalized" PROVE FALSE
      OBVIOUS
    <3>1. fin[t] \in FinSteps /\ t \in Created
      BY <1>2, <2>1 DEF RInv, TypeOK, Blank, Created, Tracks
    <3> QED
      BY <1>2, <2>2, <3>1 DEF SomethingMoves, FinSteps
  <2>4. ASSUME NEW c \in Callers PROVE caller[c].at # "waiting"
    <3>1. caller[c].at = "waiting" => caller[c].track \in Created
      BY <1>2, <2>1 DEF RInv, TypeOK, CallersCounted, Created
    <3> QED
      BY <1>2, <2>2, <3>1 DEF SomethingMoves
  <2>5. ASSUME NEW c \in Callers PROVE c \notin closers
    BY <1>2, <2>3 DEF SomethingMoves, FinalizersOwed, AllFinalized
  <2>6. ASSUME NEW t \in Created, retired[t] PROVE fin[t] = "finalized"
    BY <1>2, <2>1, <2>3, <2>6 DEF SomethingMoves, FinalizersOwed
  <2> QED
    BY <2>4, <2>5, <2>6
<1> QED
  BY <1>1, <1>2, OwedStays, RegistryInvariant, PTL DEF Spec

-----------------------------------------------------------------------------
(* The merging of a generation.                                            *)

CacheFields == DOMAIN NewCache
IsCache(c) == c = [f \in CacheFields |-> c[f]]

\* The key columns that a cache knows are those of the provider's own schema.
OwnKeys(db) == ReadPrimaryKeys(db, Relation \ Elsewhere)
KeysKnown(db, c) == "primaryKeys" \in c.ready => c.keySets = KeySets(OwnKeys(db))

\* Views are known by their names, in the order in which what refers to them is read.
ViewsKnown(db, c) == "views" \in c.ready => DOMAIN c.views = ViewsOf(db, Relation)

\* The cache invariant that merging keeps.
ColumnsRight(db, c) == c.columns = Answer(db, c.ready) /\ c.byTable = ByTable(c.columns)
ViewsRight(db, c) ==
  \A v \in DOMAIN c.views : /\ \A x \in c.views[v].columns : x.key = "NO"
                            /\ {x.name : x \in c.views[v].columns} = DOMAIN db.columns[v]
EdgesRight(db, c) == "dependencies" \in c.ready => c.edges = EdgesOf(db, ViewsOf(db, Relation))
ObjectsRight(c) == c.objects = Objects(c)

CacheInv(db, c) ==
  /\ IsCache(c) /\ KeysKnown(db, c) /\ ViewsKnown(db, c)
  /\ ColumnsRight(db, c) /\ ViewsRight(db, c) /\ EdgesRight(db, c) /\ ObjectsRight(c)

\* What a merge that leaves the catalogue kinds alone keeps of them.
LEMMA ObjectsStay ==
  ASSUME NEW c, NEW d, \A k \in CatalogKinds : d[k] = c[k]
  PROVE  Objects(d) = Objects(c)
BY DEF Objects, CatalogKinds

\* The columns a cache with these categories ready has, what their Key is, and how a
\* row of a column reads.
Seen(ready) ==
  IF "columnsAll" \in ready THEN Relation
  ELSE IF "columnsCurrent" \in ready THEN Relation \ Elsewhere ELSE {}
IsKey(db, table, name) ==
  \E r \in Relation \ Elsewhere : /\ Folded[r] = Folded[table]
                                  /\ \E k \in ToSet(db.keys[r]) : Folded[k] = Folded[name]
KeyHeld(keySets, table, name) == \E k \in Lookup(keySets, Folded[table], {}) : Folded[k] = Folded[name]
KeyOf(db, ready, table, name) ==
  IF table \in Elsewhere THEN "own"
  ELSE IF "primaryKeys" \notin ready THEN "" ELSE IF IsKey(db, table, name) THEN "YES" ELSE "NO"
Row(db, r, c, key) == [table |-> r, name |-> c, type |-> TypeOf(db, db.columns[r][c]), key |-> key]
Shown(db, ready, r) == {Row(db, r, c, KeyOf(db, ready, r, c)) : c \in DOMAIN db.columns[r]}
Columned(db, on) == {x \in Live(db) \cap on : db.columns[x] # NoMap}

\* A column is a key column of the database if the key sets of the cache have it.
LEMMA KeySetsTell ==
  ASSUME NEW db, IsDatabase(db), NEW table, NEW name
  PROVE  KeyHeld(KeySets(OwnKeys(db)), table, name) <=> IsKey(db, table, name)
<1> DEFINE K == OwnKeys(db)
           F == [r \in DOMAIN K |-> {K[r][i] : i \in DOMAIN K[r]}]
<1>1. K = [r \in {x \in Live(db) \cap (Relation \ Elsewhere) : db.keys[x] # <<>>} |-> db.keys[r]]
  BY DEF OwnKeys, ReadPrimaryKeys, Restrict
<1>2. KeySets(K) = [k \in {Folded[x] : x \in DOMAIN F} |-> UNION {F[x] : x \in {y \in DOMAIN F : Folded[y] = k}}]
  BY DEF KeySets, GroupBy
<1>3. \A r \in DOMAIN K : F[r] = ToSet(db.keys[r])
  BY <1>1 DEF ToSet
<1>4. DOMAIN F = DOMAIN K
  OBVIOUS
<1>5. \A r \in Relation \ Elsewhere : r \in DOMAIN K \/ ToSet(db.keys[r]) = {}
  <2>1. ToSet(<<>>) = {}
    BY DEF ToSet
  <2>2. \A r \in Relation \ Elsewhere : r \in DOMAIN K \/ db.keys[r] = <<>>
    BY <1>1 DEF IsDatabase, Live
  <2> QED BY <2>1, <2>2
<1>6. DOMAIN K \subseteq Relation \ Elsewhere
  BY <1>1
<1> HIDE DEF K, F
<1>7. ASSUME NEW k
      PROVE  k \in Lookup(KeySets(K), Folded[table], {})
               <=> \E r \in DOMAIN K : Folded[r] = Folded[table] /\ k \in ToSet(db.keys[r])
  BY <1>2, <1>3, <1>4 DEF Lookup
<1> QED BY <1>5, <1>6, <1>7 DEF K, KeyHeld, IsKey

LEMMA ColumnRows ==
  ASSUME NEW db, NEW on
  PROVE  ReadColumns(db, on) = [r \in Columned(db, on) |-> Shown(db, {}, r)]
<1> DEFINE read(r, c) == [table |-> r, name |-> c, type |-> TypeOf(db, db.columns[r][c]),
                          key |-> IF r \in Elsewhere THEN "own" ELSE ""]
<1>1. \A r, c : read(r, c) = Row(db, r, c, KeyOf(db, {}, r, c))
  <2> TAKE r, c
  <2>1. KeyOf(db, {}, r, c) = IF r \in Elsewhere THEN "own" ELSE ""
    BY DEF KeyOf
  <2> QED BY <2>1 DEF Row
<1>2. ReadColumns(db, on) = [r \in Columned(db, on) |-> {read(r, c) : c \in DOMAIN db.columns[r]}]
  BY DEF ReadColumns, Columned
<1> HIDE DEF read
<1>3. \A r : {read(r, c) : c \in DOMAIN db.columns[r]} = Shown(db, {}, r)
  BY <1>1 DEF Shown
<1> QED BY <1>2, <1>3

\* Giving a row another Key.
Keyed(row, key) == [row EXCEPT !.key = key]
TableOf(row) == row.table
NameOf(row) == row.name
OldKey(row) == row.key

LEMMA Rekeyed ==
  ASSUME NEW db, NEW r, NEW c, NEW old, NEW key
  PROVE  /\ Keyed(Row(db, r, c, old), key) = Row(db, r, c, key)
         /\ TableOf(Row(db, r, c, old)) = r /\ NameOf(Row(db, r, c, old)) = c /\ OldKey(Row(db, r, c, old)) = old
BY DEF Row, Keyed, TableOf, NameOf, OldKey

LEMMA AnswerIs ==
  ASSUME NEW db, NEW ready
  PROVE  Answer(db, ready) = [r \in Columned(db, Seen(ready)) |-> Shown(db, ready, r)]
<1> DEFINE key(r, x) == IF r \in Elsewhere THEN "own"
                        ELSE IF "primaryKeys" \notin ready THEN ""
                        ELSE IF IsKey(db, TableOf(x), NameOf(x)) THEN "YES" ELSE "NO"
           A(rows) == [r \in DOMAIN rows |-> {Keyed(x, key(r, x)) : x \in rows[r]}]
           rows == IF "columnsAll" \in ready THEN ReadColumns(db, Relation)
                   ELSE IF "columnsCurrent" \in ready THEN ReadColumns(db, Relation \ Elsewhere) ELSE NoMap
<1>1. Answer(db, ready) = A(rows)
  BY DEF Answer, IsKey, Keyed, TableOf, NameOf
<1>2. ReadColumns(db, {}) = NoMap
  BY DEF ReadColumns, NoMap
<1>3. rows = ReadColumns(db, Seen(ready))
  BY <1>2 DEF Seen
<1>4. rows = [r \in Columned(db, Seen(ready)) |-> Shown(db, {}, r)]
  BY <1>3, ColumnRows
<1> HIDE DEF rows
<1>5. \A r, c : Keyed(Row(db, r, c, KeyOf(db, {}, r, c)), key(r, Row(db, r, c, KeyOf(db, {}, r, c))))
                  = Row(db, r, c, KeyOf(db, ready, r, c))
  <2> TAKE r, c
  <2> DEFINE x == Row(db, r, c, KeyOf(db, {}, r, c))
  <2>1. TableOf(x) = r /\ NameOf(x) = c
    BY Rekeyed
  <2> HIDE DEF x
  <2>2. key(r, x) = KeyOf(db, ready, r, c)
    BY <2>1 DEF KeyOf
  <2> HIDE DEF key
  <2> QED BY <2>2, Rekeyed DEF x
<1> HIDE DEF key
<1>6. \A r : {Keyed(x, key(r, x)) : x \in Shown(db, {}, r)} = Shown(db, ready, r)
  <2> TAKE r
  <2>1. {Keyed(x, key(r, x)) : x \in Shown(db, {}, r)}
          = {Keyed(Row(db, r, c, KeyOf(db, {}, r, c)), key(r, Row(db, r, c, KeyOf(db, {}, r, c)))) : c \in DOMAIN db.columns[r]}
    BY DEF Shown
  <2> QED BY <2>1, <1>5 DEF Shown
<1>7. A(rows) = [r \in Columned(db, Seen(ready)) |-> {Keyed(x, key(r, x)) : x \in Shown(db, {}, r)}]
  BY <1>4
<1> QED BY <1>1, <1>6, <1>7

\* The columns of a relation that the cache sees.
LEMMA AnswerAt ==
  ASSUME NEW db, NEW ready, NEW r \in Live(db) \cap Seen(ready)
  PROVE  Lookup(Answer(db, ready), r, {}) = Shown(db, ready, r)
<1>1. CASE db.columns[r] # NoMap
  BY <1>1, AnswerIs DEF Lookup, Columned
<1>2. CASE db.columns[r] = NoMap
  <2>1. DOMAIN db.columns[r] = {}
    BY <1>2 DEF NoMap
  <2>2. r \notin DOMAIN Answer(db, ready)
    BY <1>2, AnswerIs DEF Columned
  <2> QED BY <2>1, <2>2 DEF Lookup, Shown
<1> QED BY <1>1, <1>2

\* The key sets of the cache give the columns of a relation their Key.
LEMMA KeysGiven ==
  ASSUME NEW db, IsDatabase(db), NEW old, NEW ready, "primaryKeys" \in ready, NEW r
  PROVE  WithKeys(Shown(db, old, r), KeySets(OwnKeys(db))) = Shown(db, ready, r)
<1> DEFINE ks == KeySets(OwnKeys(db))
           new(x) == IF TableOf(x) \in Elsewhere THEN OldKey(x)
                     ELSE IF KeyHeld(ks, TableOf(x), NameOf(x)) THEN "YES" ELSE "NO"
           row(c) == Row(db, r, c, KeyOf(db, old, r, c))
<1>1. WithKeys(Shown(db, old, r), ks) = {Keyed(x, new(x)) : x \in Shown(db, old, r)}
  BY DEF WithKeys, KeyHeld, Keyed, TableOf, NameOf, OldKey
<1>2. ASSUME NEW c
      PROVE  Keyed(row(c), new(row(c))) = Row(db, r, c, KeyOf(db, ready, r, c))
  <2>1. KeyHeld(ks, r, c) <=> IsKey(db, r, c)
    BY KeySetsTell
  <2>2. TableOf(row(c)) = r /\ NameOf(row(c)) = c /\ OldKey(row(c)) = KeyOf(db, old, r, c)
    BY Rekeyed
  <2>3. r \in Elsewhere => KeyOf(db, old, r, c) = "own"
    BY DEF KeyOf
  <2> HIDE DEF row, ks
  <2>4. new(row(c)) = KeyOf(db, ready, r, c)
    BY <2>1, <2>2, <2>3 DEF KeyOf
  <2> HIDE DEF new
  <2> QED BY <2>4, Rekeyed DEF row
<1> HIDE DEF new, ks
<1>3. {Keyed(x, new(x)) : x \in Shown(db, old, r)} = {Keyed(row(c), new(row(c))) : c \in DOMAIN db.columns[r]}
  BY DEF Shown
<1> HIDE DEF row
<1>4. {Keyed(row(c), new(row(c))) : c \in DOMAIN db.columns[r]} = Shown(db, ready, r)
  BY <1>2 DEF Shown
<1> QED BY <1>1, <1>3, <1>4 DEF ks

ColumnKinds == {"columnsAll", "columnsCurrent", "primaryKeys"}

LEMMA AnswerStays ==
  ASSUME NEW db, NEW r1, NEW r2, \A k \in ColumnKinds : k \in r1 <=> k \in r2
  PROVE  Answer(db, r1) = Answer(db, r2)
<1>1. Seen(r1) = Seen(r2)
  BY DEF Seen, ColumnKinds
<1>2. \A r, c : KeyOf(db, r1, r, c) = KeyOf(db, r2, r, c)
  BY DEF KeyOf, ColumnKinds
<1>3. \A r : Shown(db, r1, r) = Shown(db, r2, r)
  BY <1>2 DEF Shown
<1> QED BY <1>1, <1>3, AnswerIs

\* Replacing one field of a cache, and marking the category.
With(c, f, v, kind) == [[c EXCEPT ![f] = v] EXCEPT !.ready = @ \cup {kind}]

LEMMA FieldSet ==
  ASSUME NEW c, IsCache(c), NEW f \in CacheFields \ {"ready"}, NEW v, NEW kind
  PROVE  /\ IsCache(With(c, f, v, kind)) /\ With(c, f, v, kind)[f] = v
         /\ With(c, f, v, kind).ready = c.ready \cup {kind}
         /\ \A g \in CacheFields \ {f, "ready"} : With(c, f, v, kind)[g] = c[g]
BY DEF IsCache, CacheFields, NewCache, With

LEMMA QuietMerge ==
  ASSUME NEW db, NEW c, CacheInv(db, c), NEW n, IsCache(n), NEW kind, n.ready = c.ready \cup {kind},
         kind \notin ColumnKinds \cup {"views", "dependencies"},
         n.columns = c.columns, n.byTable = c.byTable, n.keySets = c.keySets, n.views = c.views, n.edges = c.edges,
         ObjectsRight(n)
  PROVE  CacheInv(db, n)
<1>1. n.columns = Answer(db, n.ready)
  <2>1. \A k \in ColumnKinds : k \in c.ready <=> k \in n.ready
    BY DEF ColumnKinds
  <2>2. Answer(db, c.ready) = Answer(db, n.ready)
    BY <2>1, AnswerStays
  <2> QED BY <2>2 DEF CacheInv, ColumnsRight
<1>2. KeysKnown(db, n) /\ ViewsKnown(db, n) /\ EdgesRight(db, n)
  BY DEF CacheInv, KeysKnown, ViewsKnown, EdgesRight, ColumnKinds
<1>3. ViewsRight(db, n)
  BY DEF CacheInv, ViewsRight
<1>4. ColumnsRight(db, n)
  BY <1>1 DEF CacheInv, ColumnsRight
<1> QED BY <1>2, <1>3, <1>4 DEF CacheInv

\* The merge of a category that has a field of its own, which nothing else reads.
LEMMA PlainMerge ==
  ASSUME NEW db, NEW c, CacheInv(db, c), NEW f \in {"relations", "fks"}, NEW p,
         NEW kind, kind \notin ColumnKinds \cup {"views", "dependencies"}
  PROVE  CacheInv(db, With(c, f, p, kind))
<1> DEFINE n == With(c, f, p, kind)
           known == {"columns", "byTable", "keySets", "views", "edges", "objects"} \cup CatalogKinds
<1>1. f \in CacheFields \ {"ready"} /\ IsCache(c)
  BY DEF CacheFields, NewCache, CacheInv
<1>2. known \subseteq CacheFields \ {f, "ready"}
  BY DEF CatalogKinds, CacheFields, NewCache
<1>3. /\ IsCache(n) /\ n.ready = c.ready \cup {kind}
      /\ \A g \in CacheFields \ {f, "ready"} : n[g] = c[g]
  BY <1>1, FieldSet
<1>4. \A g \in known : n[g] = c[g]
  BY <1>2, <1>3
<1> HIDE DEF n
<1>5. ObjectsRight(n)
  <2>1. Objects(n) = Objects(c)
    BY <1>4, ObjectsStay
  <2> QED BY <1>4, <2>1 DEF ObjectsRight, CacheInv
<1>6. CacheInv(db, n)
  BY <1>3, <1>4, <1>5, QuietMerge
<1> QED BY <1>6 DEF n

\* The graph is read when the views are known.
LEMMA DependenciesMerge ==
  ASSUME NEW db, NEW c, CacheInv(db, c), "views" \in c.ready
  PROVE  CacheInv(db, Merge(c, "dependencies", ReadDependencies(db, c)))
<1> DEFINE p == ReadDependencies(db, c)
           n == Merge(c, "dependencies", p)
           same == {"columns", "byTable", "keySets", "views", "objects"} \cup CatalogKinds
<1>1. n = [[c EXCEPT !.edges = p.edges, !.checks = p.checks] EXCEPT !.ready = @ \cup {"dependencies"}]
  BY DEF Merge, CatalogKinds
<1>2. p.edges = EdgesOf(db, DOMAIN c.views)
  BY DEF ReadDependencies
<1>3. DOMAIN c.views = ViewsOf(db, Relation)
  BY DEF CacheInv, ViewsKnown
<1> HIDE DEF p, n
<1>4. /\ IsCache(n) /\ n.ready = c.ready \cup {"dependencies"} /\ n.edges = p.edges
      /\ \A g \in CacheFields \ {"edges", "checks", "ready"} : n[g] = c[g]
  BY <1>1 DEF CacheInv, IsCache, CacheFields, NewCache
<1>5. \A g \in same : n[g] = c[g]
  <2>1. same \subseteq CacheFields \ {"edges", "checks", "ready"}
    BY DEF CatalogKinds, CacheFields, NewCache
  <2> QED BY <1>4, <2>1
<1>6. ColumnsRight(db, n)
  <2>1. \A k \in ColumnKinds : k \in c.ready <=> k \in n.ready
    BY <1>4 DEF ColumnKinds
  <2>2. Answer(db, c.ready) = Answer(db, n.ready)
    BY <2>1, AnswerStays
  <2> QED BY <1>5, <2>2 DEF CacheInv, ColumnsRight
<1>7. KeysKnown(db, n) /\ ViewsKnown(db, n) /\ ViewsRight(db, n)
  BY <1>4, <1>5 DEF CacheInv, KeysKnown, ViewsKnown, ViewsRight
<1>8. EdgesRight(db, n)
  BY <1>2, <1>3, <1>4 DEF EdgesRight
<1>9. ObjectsRight(n)
  <2>1. Objects(n) = Objects(c)
    BY <1>5, ObjectsStay
  <2> QED BY <1>5, <2>1 DEF ObjectsRight, CacheInv
<1>10. CacheInv(db, n)
  BY <1>4, <1>6, <1>7, <1>8, <1>9 DEF CacheInv
<1> QED BY <1>10 DEF n, p

\* What the merge of a catalogue kind leaves alone.
LEMMA CatalogFields ==
  ASSUME NEW c, IsCache(c), NEW kind \in CatalogKinds, NEW p
  PROVE  LET n == Merge(c, kind, p) IN
         /\ IsCache(n) /\ n.ready = c.ready \cup {kind} /\ n[kind] = p /\ n.objects = Objects(n)
         /\ \A g \in {"columns", "byTable", "keySets", "edges"} \cup (CatalogKinds \ {kind}) : n[g] = c[g]
<1> DEFINE kept == {FoldedMap(p)[k] : k \in DOMAIN FoldedMap(p)}
           m == [c EXCEPT ![kind] = p,
                   !.foldedViews     = IF kind = "views" THEN FoldedMap(p) ELSE @,
                   !.indexesByTable  = IF kind = "indexes" THEN ByRelation(p, kept) ELSE @,
                   !.triggersByTable = IF kind = "triggers" THEN ByRelation(p, kept) ELSE @]
           o == [m EXCEPT !.objects = Objects(m)]
           n == [o EXCEPT !.ready = @ \cup {kind}]
<1>1. n = Merge(c, kind, p)
  BY DEF Merge, MergeCatalog, CatalogKinds
<1>2. /\ IsCache(m) /\ m.ready = c.ready /\ m[kind] = p
      /\ \A g \in {"columns", "byTable", "keySets", "edges"} \cup (CatalogKinds \ {kind}) : m[g] = c[g]
  BY DEF IsCache, CacheFields, NewCache, CatalogKinds
<1> HIDE DEF m
<1>3. /\ IsCache(n) /\ n.ready = m.ready \cup {kind} /\ n.objects = Objects(m)
      /\ \A g \in {"columns", "byTable", "keySets", "edges"} \cup CatalogKinds : n[g] = m[g]
  BY <1>2 DEF IsCache, CacheFields, NewCache, CatalogKinds
<1> HIDE DEF n, o
<1>4. Objects(n) = Objects(m)
  BY <1>3, ObjectsStay
<1> QED BY <1>1, <1>2, <1>3, <1>4

LEMMA CatalogMerge ==
  ASSUME NEW db, NEW c, CacheInv(db, c), NEW kind \in CatalogKinds \ {"views"}, NEW p
  PROVE  CacheInv(db, Merge(c, kind, p))
<1> DEFINE n == Merge(c, kind, p)
<1>1. /\ IsCache(n) /\ n.ready = c.ready \cup {kind} /\ n.objects = Objects(n)
      /\ \A g \in {"columns", "byTable", "keySets", "edges"} \cup (CatalogKinds \ {kind}) : n[g] = c[g]
  BY CatalogFields DEF CacheInv
<1> HIDE DEF n
<1>2. n.columns = c.columns /\ n.byTable = c.byTable /\ n.keySets = c.keySets /\ n.views = c.views /\ n.edges = c.edges
  BY <1>1 DEF CatalogKinds
<1>3. CacheInv(db, n)
  BY <1>1, <1>2, QuietMerge DEF ObjectsRight, CatalogKinds, ColumnKinds
<1> QED BY <1>3 DEF n

\* Views are read with the columns loaded before them.
LEMMA ViewsMerge ==
  ASSUME NEW db, IsDatabase(db), NEW c, CacheInv(db, c), "columnsCurrent" \in c.ready
  PROVE  CacheInv(db, Merge(c, "views", ReadViews(db, c)))
<1> DEFINE p == ReadViews(db, c)
           n == Merge(c, "views", p)
<1>1. "views" \in CatalogKinds /\ IsCache(c)
  BY DEF CatalogKinds, CacheInv
<1> HIDE DEF p
<1>2. /\ IsCache(n) /\ n.ready = c.ready \cup {"views"} /\ n["views"] = p /\ n.objects = Objects(n)
      /\ \A g \in {"columns", "byTable", "keySets", "edges"} \cup (CatalogKinds \ {"views"}) : n[g] = c[g]
  BY <1>1, CatalogFields
<1> HIDE DEF n
<1>3. n.columns = c.columns /\ n.byTable = c.byTable /\ n.keySets = c.keySets /\ n.edges = c.edges
  BY <1>2
<1>4. ColumnsRight(db, n)
  <2>1. \A k \in ColumnKinds : k \in c.ready <=> k \in n.ready
    BY <1>2 DEF ColumnKinds
  <2>2. Answer(db, c.ready) = Answer(db, n.ready)
    BY <2>1, AnswerStays
  <2> QED BY <1>3, <2>2 DEF CacheInv, ColumnsRight
<1>5. DOMAIN p = ViewsOf(db, Relation)
  BY DEF ReadViews, p
<1>6. ASSUME NEW v \in DOMAIN p
      PROVE  /\ \A x \in p[v].columns : x.key = "NO"
             /\ {x.name : x \in p[v].columns} = DOMAIN db.columns[v]
  <2> DEFINE cols == Lookup(c.columns, v, {})
  <2>1. p[v].columns = {Keyed(x, "NO") : x \in cols}
    BY <1>6 DEF ReadViews, AsView, Keyed, p
  <2>2. v \in Relation \ Elsewhere /\ v \in Live(db)
    BY <1>5, <1>6 DEF ViewsOf, IsDatabase, Live
  <2>3. v \in Live(db) \cap Seen(c.ready)
    BY <2>2 DEF Seen
  <2>4. cols = Shown(db, c.ready, v)
    <3>1. c.columns = Answer(db, c.ready)
      BY DEF CacheInv, ColumnsRight
    <3> QED BY <2>3, <3>1, AnswerAt
  <2> HIDE DEF cols
  <2>5. {Keyed(x, "NO") : x \in cols} = {Row(db, v, y, "NO") : y \in DOMAIN db.columns[v]}
    <3>1. {Keyed(x, "NO") : x \in cols}
            = {Keyed(Row(db, v, y, KeyOf(db, c.ready, v, y)), "NO") : y \in DOMAIN db.columns[v]}
      BY <2>4 DEF Shown
    <3>2. \A y : Keyed(Row(db, v, y, KeyOf(db, c.ready, v, y)), "NO") = Row(db, v, y, "NO")
      BY Rekeyed
    <3> QED BY <3>1, <3>2
  <2>6. \A y : Row(db, v, y, "NO").key = "NO" /\ Row(db, v, y, "NO").name = y
    BY DEF Row
  <2>7. p[v].columns = {Row(db, v, y, "NO") : y \in DOMAIN db.columns[v]}
    BY <2>1, <2>5
  <2>8. {x.name : x \in p[v].columns} = DOMAIN db.columns[v]
    <3>1. {x.name : x \in p[v].columns} = {Row(db, v, y, "NO").name : y \in DOMAIN db.columns[v]}
      BY <2>7
    <3> QED BY <2>6, <3>1
  <2> QED BY <2>6, <2>7, <2>8
<1>7. KeysKnown(db, n) /\ ViewsKnown(db, n) /\ EdgesRight(db, n)
  BY <1>2, <1>3, <1>5 DEF CacheInv, KeysKnown, ViewsKnown, EdgesRight
<1>8. ViewsRight(db, n)
  BY <1>2, <1>6 DEF ViewsRight
<1>9. IsCache(n) /\ ObjectsRight(n)
  BY <1>2 DEF ObjectsRight
<1>10. CacheInv(db, n)
  BY <1>4, <1>7, <1>8, <1>9 DEF CacheInv
<1> QED BY <1>10 DEF n, p

\* Columns are merged unless those of all schemas are there already, with their Key if
\* the keys are known.
LEMMA ColumnsMerge ==
  ASSUME NEW db, IsDatabase(db), NEW c, CacheInv(db, c), NEW kind \in {"columnsCurrent", "columnsAll"},
         NEW on, on = IF kind = "columnsAll" THEN Relation ELSE Relation \ Elsewhere
  PROVE  CacheInv(db, Merge(c, kind, ReadColumns(db, on)))
<1> DEFINE p == ReadColumns(db, on)
           n == Merge(c, kind, p)
           cols == IF "primaryKeys" \in c.ready THEN [r \in DOMAIN p |-> WithKeys(p[r], c.keySets)] ELSE p
           late == kind = "columnsCurrent" /\ "columnsAll" \in c.ready
           m == IF late THEN c ELSE [c EXCEPT !.columns = cols, !.byTable = ByTable(cols)]
           same == {"keySets", "views", "edges", "objects"} \cup CatalogKinds
           ready == c.ready \cup {kind}
<1>1. n = [m EXCEPT !.ready = @ \cup {kind}]
  BY DEF Merge, MergeColumns, CatalogKinds
<1>2. p = [r \in Columned(db, on) |-> Shown(db, {}, r)]
  BY ColumnRows
<1>3. /\ c.columns = Answer(db, c.ready) /\ c.byTable = ByTable(c.columns) /\ IsCache(c)
      /\ "primaryKeys" \in c.ready => c.keySets = KeySets(OwnKeys(db))
  BY DEF CacheInv, ColumnsRight, KeysKnown
<1>4. ~late => on = Seen(ready)
  BY DEF Seen
<1>5. "primaryKeys" \in ready <=> "primaryKeys" \in c.ready
  OBVIOUS
<1> HIDE DEF p
<1>6. cols = [r \in Columned(db, on) |-> Shown(db, ready, r)]
  <2>1. CASE "primaryKeys" \in c.ready
    <3>1. cols = [r \in Columned(db, on) |-> WithKeys(p[r], KeySets(OwnKeys(db)))]
      BY <1>2, <1>3, <2>1
    <3>2. "primaryKeys" \in ready
      BY <1>5, <2>1
    <3> HIDE DEF ready
    <3>3. \A r : WithKeys(Shown(db, {}, r), KeySets(OwnKeys(db))) = Shown(db, ready, r)
      BY <3>2, KeysGiven
    <3> QED BY <1>2, <3>1, <3>3
  <2>2. CASE "primaryKeys" \notin c.ready
    <3>1. \A r, x : KeyOf(db, {}, r, x) = KeyOf(db, ready, r, x)
      BY <1>5, <2>2 DEF KeyOf
    <3>2. cols = p
      BY <2>2
    <3> HIDE DEF cols, ready
    <3>3. \A r : Shown(db, {}, r) = Shown(db, ready, r)
      BY <3>1 DEF Shown
    <3> QED BY <1>2, <3>2, <3>3
  <2> QED BY <2>1, <2>2
<1>7. ~late => cols = Answer(db, ready)
  BY <1>4, <1>6, AnswerIs
<1>8. late => c.columns = Answer(db, ready)
  <2> SUFFICES ASSUME late PROVE c.columns = Answer(db, ready)
    OBVIOUS
  <2>1. Seen(c.ready) = Seen(ready)
    BY DEF Seen
  <2>2. \A r, x : KeyOf(db, c.ready, r, x) = KeyOf(db, ready, r, x)
    BY <1>5 DEF KeyOf
  <2>3. Answer(db, c.ready) = Answer(db, ready)
    <3> HIDE DEF ready, late
    <3>1. \A r : Shown(db, c.ready, r) = Shown(db, ready, r)
      BY <2>2 DEF Shown
    <3> QED BY <2>1, <3>1, AnswerIs
  <2> QED BY <1>3, <2>3
<1> HIDE DEF cols
<1>9. /\ IsCache(m) /\ m.columns = IF late THEN c.columns ELSE cols
      /\ m.byTable = IF late THEN c.byTable ELSE ByTable(cols)
      /\ m.ready = c.ready /\ \A g \in CacheFields \ {"columns", "byTable", "ready"} : m[g] = c[g]
  BY <1>3 DEF IsCache, CacheFields, NewCache
<1> HIDE DEF m, late
<1>10. /\ IsCache(n) /\ n.ready = ready
       /\ \A g \in CacheFields \ {"ready"} : n[g] = m[g]
  BY <1>1, <1>9 DEF IsCache, CacheFields, NewCache
<1> HIDE DEF n
<1>11. n.columns = Answer(db, ready) /\ n.byTable = ByTable(n.columns)
  <2>1. n.columns = m.columns /\ n.byTable = m.byTable
    BY <1>10 DEF CacheFields, NewCache
  <2> HIDE DEF ready
  <2> QED BY <1>3, <1>7, <1>8, <1>9, <2>1
<1>12. \A g \in same : n[g] = c[g]
  <2>1. same \subseteq CacheFields \ {"columns", "byTable", "ready"}
    BY DEF CatalogKinds, CacheFields, NewCache
  <2> QED BY <1>9, <1>10, <2>1
<1>13. "views" \in ready => "views" \in c.ready
  OBVIOUS
<1>14. "dependencies" \in ready => "dependencies" \in c.ready
  OBVIOUS
<1> HIDE DEF ready
<1>15. KeysKnown(db, n) /\ ViewsKnown(db, n) /\ ViewsRight(db, n) /\ EdgesRight(db, n)
  BY <1>5, <1>10, <1>12, <1>13, <1>14 DEF CacheInv, KeysKnown, ViewsKnown, ViewsRight, EdgesRight
<1>16. ObjectsRight(n)
  <2>1. Objects(n) = Objects(c)
    BY <1>12, ObjectsStay
  <2> QED BY <1>12, <2>1 DEF ObjectsRight, CacheInv
<1>17. CacheInv(db, n)
  BY <1>10, <1>11, <1>15, <1>16 DEF CacheInv, ColumnsRight
<1> QED BY <1>17 DEF n, p

\* The primary keys give every column that is there its Key.
LEMMA KeysMerge ==
  ASSUME NEW db, IsDatabase(db), NEW c, CacheInv(db, c)
  PROVE  CacheInv(db, Merge(c, "primaryKeys", OwnKeys(db)))
<1> DEFINE p == OwnKeys(db)
           n == Merge(c, "primaryKeys", p)
           cols == [r \in DOMAIN c.columns |-> WithKeys(c.columns[r], KeySets(p))]
           m == IF ColumnsReady(c)
                THEN [[c EXCEPT !.keys = p, !.keySets = KeySets(p)] EXCEPT !.columns = cols, !.byTable = ByTable(cols)]
                ELSE [c EXCEPT !.keys = p, !.keySets = KeySets(p)]
           same == {"views", "edges", "objects"} \cup CatalogKinds
           ready == c.ready \cup {"primaryKeys"}
<1>1. n = [m EXCEPT !.ready = @ \cup {"primaryKeys"}]
  BY DEF Merge, MergePrimaryKeys, CatalogKinds
<1>2. c.columns = Answer(db, c.ready) /\ c.byTable = ByTable(c.columns) /\ IsCache(c)
  BY DEF CacheInv, ColumnsRight
<1>3. Seen(ready) = Seen(c.ready)
  BY DEF Seen
<1>4. cols = Answer(db, ready)
  <2>1. c.columns = [r \in Columned(db, Seen(c.ready)) |-> Shown(db, c.ready, r)]
    BY <1>2, AnswerIs
  <2>2. "primaryKeys" \in ready
    OBVIOUS
  <2> HIDE DEF ready
  <2>3. \A r : WithKeys(Shown(db, c.ready, r), KeySets(p)) = Shown(db, ready, r)
    BY <2>2, KeysGiven
  <2> HIDE DEF p
  <2>4. cols = [r \in Columned(db, Seen(c.ready)) |-> Shown(db, ready, r)]
    BY <2>1, <2>3
  <2> HIDE DEF cols
  <2> QED BY <1>3, <2>4, AnswerIs
<1>5. ~ColumnsReady(c) => c.columns = Answer(db, ready)
  <2> SUFFICES ASSUME ~ColumnsReady(c) PROVE c.columns = Answer(db, ready)
    OBVIOUS
  <2>1. Seen(c.ready) = {}
    BY DEF Seen, ColumnsReady
  <2>2. Columned(db, {}) = {}
    BY DEF Columned
  <2> HIDE DEF ready
  <2> QED BY <1>2, <1>3, <2>1, <2>2, AnswerIs
<1> HIDE DEF p, cols
<1>6. /\ IsCache(m) /\ m.keySets = KeySets(p) /\ m.ready = c.ready
      /\ m.columns = IF ColumnsReady(c) THEN cols ELSE c.columns
      /\ m.byTable = IF ColumnsReady(c) THEN ByTable(cols) ELSE c.byTable
      /\ \A g \in CacheFields \ {"columns", "byTable", "keys", "keySets", "ready"} : m[g] = c[g]
  BY <1>2 DEF IsCache, CacheFields, NewCache
<1> HIDE DEF m
<1>7. /\ IsCache(n) /\ n.ready = ready
      /\ \A g \in CacheFields \ {"ready"} : n[g] = m[g]
  BY <1>1, <1>6 DEF IsCache, CacheFields, NewCache
<1>8. /\ n.columns = m.columns /\ n.byTable = m.byTable /\ n.keySets = m.keySets
      /\ \A g \in same : n[g] = c[g]
  <2>1. {"columns", "byTable", "keySets"} \subseteq CacheFields \ {"ready"}
    BY DEF CacheFields, NewCache
  <2>2. same \subseteq CacheFields \ {"columns", "byTable", "keys", "keySets", "ready"}
    BY DEF CatalogKinds, CacheFields, NewCache
  <2> HIDE DEF n, same
  <2> QED BY <1>6, <1>7, <2>1, <2>2
<1> HIDE DEF n
<1>9. "views" \in ready => "views" \in c.ready
  OBVIOUS
<1>10. "dependencies" \in ready => "dependencies" \in c.ready
  OBVIOUS
<1> HIDE DEF ready
<1>11. ColumnsRight(db, n)
  BY <1>2, <1>4, <1>5, <1>6, <1>7, <1>8 DEF ColumnsRight
<1>12. KeysKnown(db, n) /\ ViewsKnown(db, n) /\ ViewsRight(db, n) /\ EdgesRight(db, n)
  BY <1>6, <1>7, <1>8, <1>9, <1>10 DEF CacheInv, KeysKnown, ViewsKnown, ViewsRight, EdgesRight, p
<1>13. IsCache(n) /\ ObjectsRight(n)
  <2>1. Objects(n) = Objects(c)
    BY <1>8, ObjectsStay
  <2> QED BY <1>7, <1>8, <2>1 DEF ObjectsRight, CacheInv
<1>14. CacheInv(db, n)
  BY <1>11, <1>12, <1>13 DEF CacheInv
<1> QED BY <1>14 DEF n, p

\* The merge of any category, read after those it depends on.
LEMMA MergeStep ==
  ASSUME NEW db, IsDatabase(db), NEW c, CacheInv(db, c), NEW kind \in PlanOf(TRUE), DependsOn(kind) \subseteq c.ready
  PROVE  CacheInv(db, Merge(c, kind, Read(db, kind, c)))
<1>1. CASE kind \in {"columnsCurrent", "columnsAll"}
  <2> DEFINE on == IF kind = "columnsAll" THEN Relation ELSE Relation \ Elsewhere
  <2>1. Read(db, kind, c) = ReadColumns(db, on)
    BY <1>1 DEF Read
  <2> QED BY <1>1, <2>1, ColumnsMerge
<1>2. CASE kind = "primaryKeys"
  <2>1. Read(db, kind, c) = OwnKeys(db)
    BY <1>2 DEF Read, OwnKeys
  <2> QED BY <1>2, <2>1, KeysMerge
<1>3. CASE kind = "dependencies"
  <2>1. Read(db, kind, c) = ReadDependencies(db, c) /\ "views" \in c.ready
    BY <1>3 DEF Read, DependsOn
  <2> QED BY <1>3, <2>1, DependenciesMerge
<1>4. CASE kind = "views"
  <2>1. Read(db, kind, c) = ReadViews(db, c) /\ "columnsCurrent" \in c.ready
    BY <1>4 DEF Read, DependsOn
  <2> QED BY <1>4, <2>1, ViewsMerge
<1>5. CASE kind \in CatalogKinds \ {"views"}
  BY <1>5, CatalogMerge
<1>6. CASE kind \in {"relations", "foreignKeys"}
  <2> DEFINE p == Read(db, kind, c)
             f == IF kind = "relations" THEN "relations" ELSE "fks"
  <2> HIDE DEF p
  <2>1. Merge(c, kind, p) = With(c, f, p, kind)
    BY <1>6 DEF Merge, CatalogKinds, With
  <2>2. f \in {"relations", "fks"} /\ kind \notin ColumnKinds \cup {"views", "dependencies"}
    BY <1>6 DEF ColumnKinds
  <2> HIDE DEF f
  <2>3. CacheInv(db, With(c, f, p, kind))
    BY <2>2, PlainMerge
  <2> QED BY <2>1, <2>3 DEF p
<1>7. kind \in CatalogKinds \cup {"relations", "columnsCurrent", "primaryKeys", "foreignKeys", "dependencies", "columnsAll"}
  BY DEF PlanOf, InterBaseKinds
<1> QED BY <1>1, <1>2, <1>3, <1>4, <1>5, <1>6, <1>7

\* A new cache answers for a database of which nothing is loaded.
LEMMA NewCacheInv ==
  ASSUME NEW db
  PROVE  CacheInv(db, NewCache)
<1> DEFINE c == NewCache
<1>1. IsCache(c)
  BY DEF IsCache, CacheFields, NewCache
<1>2. /\ c.ready = {} /\ c.columns = NoMap /\ c.byTable = NoMap /\ c.views = NoMap /\ c.objects = {}
      /\ \A k \in CatalogKinds : c[k] = NoMap
  BY DEF NewCache, CatalogKinds
<1> HIDE DEF c
<1>3. DOMAIN NoMap = {}
  BY DEF NoMap
<1>4. Objects(c) = {}
  BY <1>2, <1>3 DEF Objects
<1>5. Answer(db, c.ready) = NoMap
  <2>1. Columned(db, Seen({})) = {}
    BY DEF Columned, Seen
  <2>2. Answer(db, {}) = [r \in {} |-> Shown(db, {}, r)]
    BY <2>1, AnswerIs
  <2> QED BY <1>2, <2>2 DEF NoMap
<1>6. ByTable(c.columns) = NoMap
  BY <1>2 DEF ByTable, GroupBy, NoMap
<1>7. ViewsRight(db, c)
  BY <1>2, <1>3 DEF ViewsRight
<1>8. CacheInv(db, c)
  BY <1>1, <1>2, <1>4, <1>5, <1>6, <1>7 DEF CacheInv, KeysKnown, ViewsKnown, ColumnsRight, EdgesRight, ObjectsRight
<1> QED BY <1>8 DEF c

MergeInv == world \in Worlds /\ CacheInv(world, merged)

\* mergeMetadata, called by the jobs of one generation in whatever order their reads
\* allow: the cache always answers for exactly the categories merged so far, whatever
\* the database is and whether or not its provider reads the columns of all schemas.
THEOREM JobsMergeInAnyOrder ==
  ASSUME WorldsAreDatabases
  PROVE  MergeSpec => []MergedInAnyOrder
<1>1. MergeInit => MergeInv
  <2> SUFFICES ASSUME MergeInit PROVE MergeInv
    OBVIOUS
  <2>1. CacheInv(world, NewCache)
    BY NewCacheInv
  <2> QED BY <2>1 DEF MergeInit, MergeInv
<1>2. MergeInv /\ [MergeNext]_mergeVars => MergeInv'
  <2> SUFFICES ASSUME MergeInv, [MergeNext]_mergeVars PROVE MergeInv'
    OBVIOUS
  <2>1. CASE UNCHANGED mergeVars
    BY <2>1 DEF MergeInv, mergeVars
  <2>2. ASSUME NEW kind \in PlanOf(TRUE), Finish(kind)
        PROVE  MergeInv'
    <3>1. PICK db : db = world
      OBVIOUS
    <3>2. PICK c : c = merged
      OBVIOUS
    <3>3. PICK n : n = Merge(c, kind, Read(db, kind, c))
      OBVIOUS
    <3>4. db \in Worlds /\ IsDatabase(db) /\ CacheInv(db, c)
      BY <3>1, <3>2 DEF MergeInv, WorldsAreDatabases
    <3>5. DependsOn(kind) \subseteq c.ready /\ merged' = n /\ world' = db
      BY <2>2, <3>1, <3>2, <3>3 DEF Finish
    <3>6. CacheInv(db, n)
      BY <3>3, <3>4, <3>5, MergeStep
    <3> QED BY <3>4, <3>5, <3>6 DEF MergeInv
  <2> QED BY <2>1, <2>2 DEF MergeNext
<1>3. MergeInv => MergedInAnyOrder
  BY DEF MergeInv, CacheInv, ColumnsRight, ViewsRight, EdgesRight, ObjectsRight, MergedInAnyOrder
<1> QED BY <1>1, <1>2, <1>3, PTL DEF MergeSpec
================================================================================
