----------------------------- MODULE Editor_proofs -----------------------------
(***************************************************************************)
(* Proofs about the parts of the server beside the connection, one after   *)
(* another: the event hub, for any number of publishers, subscriptions and *)
(* versions; the documents, for any number of documents, workers and       *)
(* edits; the commands, for any number of requests, texts, drivers and     *)
(* connection changes; the definition snapshots, for any number of         *)
(* processes, attempts and crashes.  HubInv says who has yet to act for a  *)
(* subscriber that is behind, DocInv what a capture is worth when it       *)
(* reaches the cache, CmdInv how far a command got at each point of its    *)
(* life, and SnapInv whose every file and every directory is.              *)
(***************************************************************************)
EXTENDS EventHub, Documents, Commands, SnapshotStore, TLAPS

-----------------------------------------------------------------------------
(* The event hub.                                                          *)

\* The event a publisher is about to send is a version: the slot it fills is not empty.
EventsAreVersions == \A p \in Pubs : pub[p].pc \in {"has", "sends"} => pub[p].ev # 0

\* The subscriptions of a closed hub are closed, and an open one has a watcher.
OpenIsWatched == \A s \in Subs : sub[s] = "open" => hub = "open" /\ watch[s] # "returned"

\* Who is sending holds h.mu, and those it has yet to send to are still there.
SendersHoldTheLock ==
  \A p \in Pubs : pub[p].pc = "sends" => hubMu = {p} /\ \A s \in pub[p].rest : sub[s] = "open"

\* A subscriber that is behind will hear of it: some publisher is still on its way to it.
Reaches(p, s) == pub[p].pc \in {"owes", "has"} \/ (pub[p].pc = "sends" /\ s \in pub[p].rest)
BehindIsOwed ==
  \A s \in Subs :
    sub[s] = "open" /\ watch[s] = "waits" /\ slot[s] = 0 /\ seen[s] # version => \E p \in Pubs : Reaches(p, s)

HubInv == HubTypeOK /\ EventsAreVersions /\ OpenIsWatched /\ SendersHoldTheLock /\ BehindIsOwed

\* The initial states satisfy the invariant: nobody has subscribed.
LEMMA InitInv == HubInit => HubInv
BY DEF HubInit, HubInv, HubTypeOK, EventsAreVersions, OpenIsWatched, SendersHoldTheLock, BehindIsOwed, Idle, Publisher

\* Whoever needs h.mu finds nobody sending.
LEMMA FreeMeansNoSender == ASSUME HubInv, hubMu = {}, NEW p \in Pubs PROVE pub[p].pc # "sends"
BY DEF HubInv, SendersHoldTheLock

\* The publishers: a change is owed before it can be missed, the subscribers found under
\* the lock are all that could be behind, and each is owed until it has the event.
LEMMA PublishersKeepInv ==
  ASSUME HubInv, NEW p \in Pubs, Changes(p) \/ Looks(p) \/ Locks(p) \/ Coalesces(p) \/ Unlocks(p)
  PROVE  HubInv'
<1> USE DEF HubInv, HubTypeOK
<1>1. CASE Changes(p)
  <2>1. HubTypeOK' /\ EventsAreVersions' /\ OpenIsWatched' /\ SendersHoldTheLock'
    BY <1>1 DEF Changes, Owes, Publisher, EventsAreVersions, OpenIsWatched, SendersHoldTheLock
  <2>2. pub'[p].pc = "owes"
    BY <1>1 DEF Changes, Owes, Publisher
  <2> QED
    BY <2>1, <2>2 DEF BehindIsOwed, Reaches
<1>2. CASE Looks(p)
  <2>1. HubTypeOK' /\ EventsAreVersions' /\ OpenIsWatched' /\ SendersHoldTheLock'
    BY <1>2 DEF Looks, Publisher, EventsAreVersions, OpenIsWatched, SendersHoldTheLock
  <2>2. pub'[p].pc = "has"
    BY <1>2 DEF Looks, Publisher
  <2> QED
    BY <2>1, <2>2 DEF BehindIsOwed, Reaches
<1>3. CASE Locks(p)
  <2>1. HubTypeOK' /\ EventsAreVersions' /\ OpenIsWatched'
    <3>1. \E S \in SUBSET Subs, pcs \in {"idle", "sends"}, ev \in {0, pub[p].ev} :
            pub' = [pub EXCEPT ![p] = Publisher(pcs, ev, S)] /\ (pcs = "sends" => ev = pub[p].ev /\ ev # 0)
      BY <1>3 DEF Locks, Idle, EventsAreVersions
    <3>2. UNCHANGED <<version, sub, slot, watch, seen, hub>> /\ hubMu' \in SUBSET Pubs
      BY <1>3 DEF Locks
    <3> QED BY <3>1, <3>2 DEF Publisher, EventsAreVersions, OpenIsWatched
  <2>2. SendersHoldTheLock'
    BY <1>3, FreeMeansNoSender DEF Locks, Publisher, Idle, SendersHoldTheLock
  <2>3. ASSUME NEW s \in Subs, sub'[s] = "open" PROVE Reaches(p, s)'
    BY <1>3, <2>3 DEF Locks, Publisher, OpenIsWatched, Reaches
  <2> QED
    BY <2>1, <2>2, <2>3 DEF BehindIsOwed
<1>4. CASE Coalesces(p)
  <2> PICK s \in pub[p].rest :
        \/ slot[s] # 0 /\ slot' = [slot EXCEPT ![s] = 0] /\ UNCHANGED pub
        \/ /\ slot[s] = 0 /\ slot' = [slot EXCEPT ![s] = pub[p].ev]
           /\ pub' = [pub EXCEPT ![p] = Publisher("sends", pub[p].ev, pub[p].rest \ {s})]
    BY <1>4 DEF Coalesces
  <2>1. s \in Subs /\ pub[p].pc = "sends" /\ pub[p].ev # 0 /\ UNCHANGED <<version, sub, watch, seen, hub, hubMu>>
    BY <1>4 DEF Coalesces, EventsAreVersions
  <2>2. HubTypeOK' /\ EventsAreVersions' /\ OpenIsWatched' /\ SendersHoldTheLock'
    BY <2>1 DEF Publisher, EventsAreVersions, OpenIsWatched, SendersHoldTheLock
  <2>3. \A t \in Subs : slot'[t] = 0 => t # s \/ UNCHANGED pub
    BY <2>1
  <2>4. \A t \in Subs, q \in Pubs : Reaches(q, t) => Reaches(q, t)' \/ (t = s /\ pub' # pub)
    BY <2>1 DEF Publisher, Reaches
  <2>5. ASSUME NEW t \in Subs, sub'[t] = "open", watch'[t] = "waits", slot'[t] = 0, seen'[t] # version'
        PROVE  \E q \in Pubs : Reaches(q, t)'
    <3>1. CASE t = s
      BY <2>1, <2>3, <2>5, <3>1 DEF Reaches
    <3>2. CASE t # s
      BY <2>1, <2>4, <2>5, <3>2 DEF BehindIsOwed
    <3> QED
      BY <3>1, <3>2
  <2> QED
    BY <2>2, <2>5 DEF BehindIsOwed
<1>5. CASE Unlocks(p)
  <2>1. HubTypeOK' /\ EventsAreVersions' /\ OpenIsWatched' /\ SendersHoldTheLock'
    BY <1>5 DEF Unlocks, Idle, Publisher, EventsAreVersions, OpenIsWatched, SendersHoldTheLock
  <2>2. \A t \in Subs, q \in Pubs : Reaches(q, t) => Reaches(q, t)'
    BY <1>5 DEF Unlocks, Idle, Publisher, Reaches
  <2> QED
    BY <1>5, <2>1, <2>2 DEF BehindIsOwed, Unlocks
<1> QED
  BY <1>1, <1>2, <1>3, <1>4, <1>5

\* The subscriptions and their watchers: whoever comes, goes or closes waits for h.mu, and
\* a watcher that takes an event is marked.
LEMMA SubscriptionsKeepInv ==
  ASSUME HubInv, (\E s \in Subs : Subscribes(s) \/ Unsubscribes(s) \/ WatcherTakes(s) \/ Reads(s)) \/ CloseAll
  PROVE  HubInv'
<1> USE DEF HubInv, HubTypeOK
<1>1. UNCHANGED <<version, pub, hubMu>>
  BY DEF Subscribes, Unsubscribes, WatcherTakes, Reads, CloseAll
<1>2. HubTypeOK' /\ EventsAreVersions' /\ OpenIsWatched'
  BY DEF Subscribes, Unsubscribes, WatcherTakes, Reads, CloseAll, EventsAreVersions, OpenIsWatched
<1>3. SendersHoldTheLock'
  <2>1. CASE hubMu = {}
    BY <1>1, <2>1, FreeMeansNoSender DEF SendersHoldTheLock
  <2>2. CASE hubMu # {}
    BY <1>1, <2>2 DEF Subscribes, Unsubscribes, WatcherTakes, Reads, CloseAll, SendersHoldTheLock
  <2> QED
    BY <2>1, <2>2
<1>4. ASSUME NEW s \in Subs, sub'[s] = "open", watch'[s] = "waits", slot'[s] = 0, seen'[s] # version'
      PROVE  sub[s] = "open" /\ watch[s] = "waits" /\ slot[s] = 0 /\ seen[s] # version
  BY <1>4 DEF Subscribes, Unsubscribes, WatcherTakes, Reads, CloseAll
<1>5. \A s \in Subs, p \in Pubs : Reaches(p, s) <=> Reaches(p, s)'
  BY <1>1 DEF Reaches
<1> QED
  BY <1>2, <1>3, <1>4, <1>5 DEF BehindIsOwed

\* HubInv is an invariant of the event hub.
THEOREM HubInvariant == HubSpec => []HubInv
<1>1. HubInv /\ [HubNext]_hubVars => HubInv'
  <2> SUFFICES ASSUME HubInv, [HubNext]_hubVars PROVE HubInv'
    OBVIOUS
  <2>1. CASE UNCHANGED hubVars
    BY <2>1 DEF hubVars, HubInv, HubTypeOK, EventsAreVersions, OpenIsWatched, SendersHoldTheLock, BehindIsOwed, Reaches
  <2> QED
    BY <2>1, PublishersKeepInv, SubscriptionsKeepInv DEF HubNext
<1> QED
  BY <1>1, InitInv, PTL DEF HubSpec

\* A watcher with nothing left to read has read the current snapshot, however
\* publications overtake one another.
THEOREM Watched == HubSpec => []WatchersCatchUp
<1>1. HubInv => WatchersCatchUp
  BY DEF HubInv, HubTypeOK, BehindIsOwed, Reaches, WatchersCatchUp
<1> QED
  BY <1>1, HubInvariant, PTL

\* A closed channel is never sent to, nor one that was given up: the lock that a sender
\* holds keeps the subscribers it found (SendersHoldTheLock).
THEOREM ClosedIsSilent == HubSpec => NothingAfterClose
<1>1. HubInv /\ [HubNext]_hubVars => [\A s \in Subs : slot'[s] # 0 /\ slot'[s] # slot[s] => sub[s] = "open" /\ hub = "open"]_hubVars
  <2> SUFFICES ASSUME HubInv, HubNext, NEW s \in Subs, slot'[s] # 0, slot'[s] # slot[s] PROVE sub[s] = "open" /\ hub = "open"
    OBVIOUS
  <2>1. ASSUME NEW p \in Pubs, Changes(p) \/ Looks(p) \/ Locks(p) \/ Unlocks(p) PROVE FALSE
    BY <2>1 DEF Changes, Looks, Locks, Unlocks
  <2>2. ASSUME NEW t \in Subs, Subscribes(t) \/ Unsubscribes(t) \/ Reads(t) PROVE FALSE
    BY <2>2 DEF Subscribes, Unsubscribes, Reads
  <2>3. CASE CloseAll
    BY <2>3 DEF CloseAll
  <2>4. ASSUME NEW t \in Subs, WatcherTakes(t) PROVE FALSE
    BY <2>4 DEF WatcherTakes, HubInv, HubTypeOK
  <2>5. ASSUME NEW p \in Pubs, Coalesces(p) PROVE sub[s] = "open" /\ hub = "open"
    <3>1. pub[p].pc = "sends" /\ s \in pub[p].rest
      BY <2>5 DEF Coalesces, HubInv, HubTypeOK
    <3> QED
      BY <3>1 DEF HubInv, SendersHoldTheLock, OpenIsWatched
  <2> QED
    BY <2>1, <2>2, <2>3, <2>4, <2>5 DEF HubNext
<1> QED
  BY <1>1, HubInvariant, PTL DEF HubSpec, NothingAfterClose

-----------------------------------------------------------------------------
(* The documents.                                                          *)

\* A capture of the present insertion epoch is of the document as it is, unless the read
\* loop has changed that document and not yet advanced the epoch.
CapturesAreCurrent ==
  \A w \in Workers :
    LET r == worker[w] IN
    r.at = "captured" /\ r.epoch = cacheEpoch /\ loop # [at |-> "changed", uri |-> r.uri] =>
      r.doc.text = files[r.uri].text /\ r.doc.version = files[r.uri].version

DocInv == CacheHoldsTheDocument /\ CapturesAreCurrent

\* Nothing is open, cached or captured.
LEMMA InitDocInv == DocInit => DocInv
<1> SUFFICES ASSUME DocInit PROVE DocInv
  OBVIOUS
<1>1. DocTypeOK
  BY DocumentsAssumption DEF DocInit, DocTypeOK
<1>2. CapturesAreCurrent
  BY DEF DocInit, CapturesAreCurrent, NoWork
<1> QED
  BY <1>1, <1>2 DEF DocInit, DocInv, CacheHoldsTheDocument

\* The read loop and the coordinator: a document that changes is exempt until the entry is
\* gone and what was captured before has fallen behind the epoch.
LEMMA LoopKeepsDocuments ==
  ASSUME DocInv,
         \/ \E u \in URIs, v \in 1..MaxEditorVersion : DidOpen(u, v) \/ DidChange(u, v)
         \/ \E u \in URIs : DidSave(u) \/ DidClose(u)
         \/ InvalidateDocument \/ Rebind
  PROVE  DocInv'
<1>1. DocTypeOK /\ MaxRevision \in Nat /\ MaxEditorVersion \in Nat /\ MaxBinding \in Nat
  BY DocumentsAssumption DEF DocInv, CacheHoldsTheDocument
<1>2. CASE \/ \E u \in URIs, v \in 1..MaxEditorVersion : DidOpen(u, v) \/ DidChange(u, v)
           \/ \E u \in URIs : DidSave(u) \/ DidClose(u)
  <2>1. PICK u \in URIs : \E f \in [text : 1..MaxRevision, version : 1..MaxEditorVersion] \union {Closed} :
          /\ loop = NoWork /\ loop' = [at |-> "changed", uri |-> u] /\ files' = [files EXCEPT ![u] = f]
          /\ fileRevision' \in 0..MaxRevision /\ UNCHANGED <<binding, cacheEpoch, documents, worker>>
    <3>1. CASE \E u \in URIs : DidClose(u)
      BY <1>1, <3>1 DEF DidClose, DocTypeOK
    <3>2. CASE \E u \in URIs, v \in 1..MaxEditorVersion : loop = NoWork /\ fileRevision < MaxRevision /\ Replaces(u, v)
      <4> PICK u \in URIs, v \in 1..MaxEditorVersion : loop = NoWork /\ fileRevision < MaxRevision /\ Replaces(u, v)
        BY <3>2
      <4>1. fileRevision + 1 \in 1..MaxRevision /\ fileRevision + 1 \in 0..MaxRevision
        BY <1>1 DEF DocTypeOK
      <4> QED
        BY <4>1 DEF Replaces
    <3>3. \A u \in URIs : files[u] # Closed => files[u].version \in 1..MaxEditorVersion
      BY <1>1 DEF DocTypeOK
    <3> QED
      BY <1>2, <3>1, <3>2, <3>3 DEF DidOpen, DidChange, DidSave
  <2> PICK f \in [text : 1..MaxRevision, version : 1..MaxEditorVersion] \union {Closed} :
          /\ loop = NoWork /\ loop' = [at |-> "changed", uri |-> u] /\ files' = [files EXCEPT ![u] = f]
          /\ fileRevision' \in 0..MaxRevision /\ UNCHANGED <<binding, cacheEpoch, documents, worker>>
    BY <2>1
  <2>2. DocTypeOK'
    BY <1>1 DEF DocTypeOK
  <2>3. \A v \in URIs : /\ loop # [at |-> "changed", uri |-> v]
                        /\ loop' # [at |-> "changed", uri |-> v] => files'[v] = files[v]
    BY <1>1 DEF DocTypeOK, NoWork
  <2>4. CacheHoldsTheDocument'
    BY <2>2, <2>3 DEF DocInv, CacheHoldsTheDocument
  <2>5. \A w \in Workers : worker[w].at = "captured" => worker[w].uri \in URIs
    BY <1>1 DEF DocTypeOK, NoWork
  <2>6. CapturesAreCurrent'
    BY <2>3, <2>5 DEF DocInv, CapturesAreCurrent
  <2> QED
    BY <2>4, <2>6 DEF DocInv
<1>3. CASE InvalidateDocument
  <2> PICK u \in URIs : loop = [at |-> "changed", uri |-> u]
    BY <1>1, <1>3 DEF InvalidateDocument, DocTypeOK
  <2>1. /\ loop' = NoWork /\ cacheEpoch' = cacheEpoch + 1 /\ documents' = [documents EXCEPT ![u] = NoEntry]
        /\ UNCHANGED <<fileRevision, files, binding, worker>>
    BY <1>3 DEF InvalidateDocument
  <2>2. cacheEpoch \in Nat /\ 0..cacheEpoch \subseteq 0..(cacheEpoch + 1)
    BY <1>1 DEF DocTypeOK
  <2>3. \A w \in Workers : worker[w].at # "idle" => worker[w].epoch \in 0..cacheEpoch
    BY <1>1 DEF DocTypeOK, NoWork
  <2>4. DocTypeOK'
    <3> DEFINE Works(e) == {NoWork} \union [at : {"captured"}, uri : URIs, epoch : 0..e, doc : Identity]
                             \union [at : {"given"}, uri : URIs, epoch : 0..e, doc : Identity, entry : Identity]
    <3>1. Works(cacheEpoch) \subseteq Works(cacheEpoch + 1)
      BY <2>2
    <3>2. worker \in [Workers -> Works(cacheEpoch)]
      BY <1>1 DEF DocTypeOK
    <3>3. worker' \in [Workers -> Works(cacheEpoch + 1)]
      BY <2>1, <3>1, <3>2
    <3> HIDE DEF Works
    <3>4. worker' \in [Workers -> Works(cacheEpoch')]
      BY <2>1, <3>3
    <3>5. /\ fileRevision' \in 0..MaxRevision /\ binding' \in 0..MaxBinding /\ cacheEpoch' \in Nat
          /\ files' \in [URIs -> [text : 1..MaxRevision, version : 1..MaxEditorVersion] \union {Closed}]
          /\ loop' \in {NoWork} \union [at : {"changed"}, uri : URIs]
          /\ documents' \in [URIs -> Identity \union {NoEntry}]
      BY <1>1, <2>1, <2>2 DEF DocTypeOK
    <3> QED
      BY <3>4, <3>5 DEF DocTypeOK, Works
  <2>5. CacheHoldsTheDocument'
    <3>1. \A v \in URIs : documents'[v] # NoEntry => v # u /\ documents'[v] = documents[v]
      BY <1>1, <2>1 DEF DocTypeOK
    <3>2. \A v \in URIs : v # u => loop # [at |-> "changed", uri |-> v]
      OBVIOUS
    <3> QED
      BY <2>1, <2>4, <3>1, <3>2 DEF DocInv, CacheHoldsTheDocument
  <2>6. CapturesAreCurrent'
    <3>1. \A w \in Workers : worker[w].at = "captured" => worker[w].epoch # cacheEpoch + 1
      BY <2>2, <2>3
    <3> QED
      BY <2>1, <3>1 DEF CapturesAreCurrent
  <2> QED
    BY <2>5, <2>6 DEF DocInv
<1>4. CASE Rebind
  <2>1. binding' \in 0..MaxBinding /\ UNCHANGED <<fileRevision, files, loop, cacheEpoch, documents, worker>>
    BY <1>1, <1>4 DEF Rebind, DocTypeOK
  <2>2. DocTypeOK'
    BY <1>1, <2>1 DEF DocTypeOK
  <2> QED
    BY <2>1, <2>2 DEF DocInv, CacheHoldsTheDocument, CapturesAreCurrent
<1> QED
  BY <1>2, <1>3, <1>4

\* The workers: what is inserted was captured under the epoch that still holds.
LEMMA WorkersKeepDocuments ==
  ASSUME DocInv, NEW w \in Workers, (\E u \in URIs : Capture(w, u)) \/ DocumentAnalysis(w) \/ Finish(w)
  PROVE  DocInv'
<1>1. DocTypeOK /\ UNCHANGED <<fileRevision, files, binding, loop, cacheEpoch>>
  BY DEF DocInv, CacheHoldsTheDocument, Capture, DocumentAnalysis, Finish
<1> DEFINE Works == {NoWork} \union [at : {"captured"}, uri : URIs, epoch : 0..cacheEpoch, doc : Identity]
                      \union [at : {"given"}, uri : URIs, epoch : 0..cacheEpoch, doc : Identity, entry : Identity]
<1>2. worker \in [Workers -> Works] /\ documents \in [URIs -> Identity \union {NoEntry}]
  BY <1>1 DEF DocTypeOK
<1>3. ASSUME worker' \in [Workers -> Works], documents' \in [URIs -> Identity \union {NoEntry}]
      PROVE  DocTypeOK'
  BY <1>1, <1>3 DEF DocTypeOK
<1>4. CASE \E u \in URIs : Capture(w, u)
  <2> PICK u \in URIs : Capture(w, u)
    BY <1>4
  <2> DEFINE d == [text |-> files[u].text, version |-> files[u].version, binding |-> binding]
             r == [at |-> "captured", uri |-> u, epoch |-> cacheEpoch, doc |-> d]
  <2>1. worker' = [worker EXCEPT ![w] = r] /\ documents' = documents /\ files[u] # Closed
    BY DEF Capture
  <2>2. d \in Identity /\ cacheEpoch \in 0..cacheEpoch
    BY <1>1, <2>1 DEF DocTypeOK, Identity
  <2>3. r \in Works
    BY <2>2
  <2>4. DocTypeOK'
    BY <1>2, <1>3, <2>1, <2>3
  <2>5. CapturesAreCurrent'
    BY <1>1, <1>2, <2>1 DEF DocInv, CapturesAreCurrent
  <2> QED
    BY <1>1, <2>1, <2>4, <2>5 DEF DocInv, CacheHoldsTheDocument
<1>5. CASE DocumentAnalysis(w)
  <2> PICK r \in Works : r = worker[w]
    BY <1>2
  <2>1. r.at = "captured" /\ r.uri \in URIs /\ r.epoch \in 0..cacheEpoch /\ r.doc \in Identity
    BY <1>5 DEF DocumentAnalysis, NoWork
  <2>2. PICK entry \in Identity :
          worker' = [worker EXCEPT ![w] = [at |-> "given", uri |-> r.uri, epoch |-> r.epoch, doc |-> r.doc, entry |-> entry]]
    BY <1>5, <2>1 DEF DocumentAnalysis
  <2>3. documents' = documents \/ (r.epoch = cacheEpoch /\ documents' = [documents EXCEPT ![r.uri] = r.doc])
    BY <1>5 DEF DocumentAnalysis, Detached
  <2>4. [at |-> "given", uri |-> r.uri, epoch |-> r.epoch, doc |-> r.doc, entry |-> entry] \in Works
    BY <2>1, <2>2
  <2>5. DocTypeOK'
    BY <1>2, <1>3, <2>1, <2>2, <2>3, <2>4
  <2>6. CapturesAreCurrent'
    BY <1>1, <1>2, <2>2 DEF DocInv, CapturesAreCurrent
  <2>7. r.epoch = cacheEpoch /\ loop # [at |-> "changed", uri |-> r.uri] =>
          r.doc.text = files[r.uri].text /\ r.doc.version = files[r.uri].version
    BY <2>1 DEF DocInv, CapturesAreCurrent
  <2>8. CacheHoldsTheDocument'
    BY <1>1, <1>2, <2>1, <2>3, <2>5, <2>7 DEF DocInv, CacheHoldsTheDocument
  <2> QED
    BY <2>6, <2>8 DEF DocInv
<1>6. CASE Finish(w)
  <2>1. worker' = [worker EXCEPT ![w] = NoWork] /\ documents' = documents
    BY <1>6 DEF Finish
  <2>2. DocTypeOK'
    BY <1>2, <1>3, <2>1
  <2>3. CapturesAreCurrent'
    BY <1>1, <1>2, <2>1 DEF DocInv, CapturesAreCurrent, NoWork
  <2> QED
    BY <1>1, <2>1, <2>2, <2>3 DEF DocInv, CacheHoldsTheDocument
<1> QED
  BY <1>4, <1>5, <1>6

\* Between two notifications the cache holds an analysis of the document as it is, or none,
\* for any number of documents, workers and edits (CacheHoldsTheDocument).
THEOREM CacheIsOfTheDocument == DocSpec => []CacheHoldsTheDocument
<1>1. DocInv /\ [DocNext]_docVars => DocInv'
  <2> SUFFICES ASSUME DocInv, [DocNext]_docVars PROVE DocInv'
    OBVIOUS
  <2>1. CASE UNCHANGED docVars
    BY <2>1 DEF docVars, DocInv, CacheHoldsTheDocument, CapturesAreCurrent, DocTypeOK
  <2> QED
    BY <2>1, LoopKeepsDocuments, WorkersKeepDocuments DEF DocNext
<1>2. DocInv => CacheHoldsTheDocument
  BY DEF DocInv
<1> QED
  BY <1>1, <1>2, InitDocInv, PTL DEF DocSpec


-----------------------------------------------------------------------------
(* The commands.                                                           *)

Methods == {"none", "query", "exec", "readOnly", "params", "readOnlyParams"}
Executed == [doc : Docs, gen : 0..MaxGen, i : Nat, method : Methods, end : Ends]
RequestRecords ==
  [at : {"none", "received", "registered", "locked", "running", "describing", "returned", "answered", "done"},
   kind : Kinds, want : Contexts, cap : Contexts, cat : Catalogs \union {"none"},
   i : Nat, cancelled : BOOLEAN, out : Outs, reply : Outs]

NoneStopped(s, m) == \A n \in 1..m : s[n].end # "stopped"

\* What a request is told, or is about to be told, accounts for what it executed.
Explains(o, r, s) ==
  /\ o \in {"result", "late"} /\ r.cap # NoContext => Len(s) = Len(Text[r.cap.doc]) /\ NoneStopped(s, Len(s))
  /\ o = "notice" /\ r.kind # "explain" => s # <<>> /\ s[Len(s)].end = "stopped"
  /\ o \in {"stale", "refused", "changing", "notReady", "noDocument", "cancelled", "discovery"} => s = <<>>

\* The statements of a request ran in the order of its text, and none after one that was
\* stopped; how far it got, at each point of its life.
Told(r, s) ==
  /\ \A n \in 1..Len(s) : s[n].i = n /\ s[n].method # "none"
  /\ NoneStopped(s, Len(s) - 1)
  /\ r.at \in {"none", "received", "registered", "locked"} => s = <<>> /\ r.cap = NoContext
  /\ r.at \notin {"answered", "done"} => r.reply = "none"
  /\ r.at = "describing" => s = <<>>
  /\ r.at = "running" => /\ r.cap.doc \in Docs /\ r.i = Len(s) + 1 /\ Len(s) <= Len(Text[r.cap.doc])
                         /\ NoneStopped(s, Len(s)) /\ r.kind \in {"query", "bound"}
  /\ r.at = "returned" => Explains(r.out, r, s)
  /\ r.at \in {"answered", "done"} => Explains(r.reply, r, s)

\* A repository with these abilities can run a statement of this kind with arguments.
Able(a, kind) ==
  IF kind = "read" THEN "readOnlyParams" \in a \/ ("readOnly" \notin a /\ "params" \in a) ELSE "params" \in a

\* A running batch is of the present connection; one with values is the reviewed one, and
\* every statement that takes values has a method to run with.
Prepared(r, a, g) ==
  r.at = "running" =>
    /\ r.cap.gen = g
    /\ r.kind = "bound" => /\ r.cap = r.want
                           /\ \A n \in 1..Len(Text[r.cap.doc]) :
                                Text[r.cap.doc][n].named => Able(a, Text[r.cap.doc][n].kind)

CmdInv ==
  /\ CmdTypeOK /\ ran \in [Requests -> Seq(Executed)] /\ (changing = "wanted" => gen < MaxGen)
  /\ \A c \in Requests :
       /\ c \in entries <=> req[c].at \notin {"none", "received", "done"}
       /\ changing = "locked" => req[c].at \notin Holding
       /\ Told(req[c], ran[c])
       /\ Prepared(req[c], abilities, gen)

\* Nothing was asked.
LEMMA InitCmdInv == CmdInit => CmdInv
<1> SUFFICES ASSUME CmdInit PROVE CmdInv
  OBVIOUS
<1>1. NoContext \in Contexts /\ 1 \in 0..MaxGen
  BY CommandsAssumption DEF NoContext, Contexts
<1>2. NewRequest \in RequestRecords
  BY <1>1 DEF NewRequest, RequestRecords, Kinds, Outs
<1>3. CmdTypeOK
  BY <1>1, <1>2 DEF CmdInit, CmdTypeOK, RequestRecords
<1>4. ran \in [Requests -> Seq(Executed)] /\ \A c \in Requests : ran[c] = <<>>
  BY DEF CmdInit
<1>5. \A c \in Requests : req[c] = NewRequest
  BY DEF CmdInit
<1>6. Told(NewRequest, <<>>)
  BY DEF Told, NewRequest, NoneStopped
<1>7. \A c \in Requests : Told(req[c], ran[c])
  BY <1>4, <1>5, <1>6
<1> QED
  BY <1>3, <1>4, <1>5, <1>7 DEF CmdInit, CmdInv, NewRequest, Prepared, Holding

\* What runs a statement: with arguments the method its repository is able to offer, and
\* without them there is one always.
LEMMA MethodsAre ==
  ASSUME NEW kind, NEW cat
  PROVE  /\ Method(Route(kind, cat), TRUE) # "none" <=> Able(abilities, kind)
         /\ Method(Route(kind, cat), FALSE) # "none"
         /\ \A args \in BOOLEAN : Method(Route(kind, cat), args) \in Methods
BY DEF Method, Route, Able, BoundRead, BoundExec, Methods

\* One request moves, and the world stands still.
LEMMA RequestMoves ==
  ASSUME CmdInv, NEW c \in Requests, NEW r \in RequestRecords, NEW s \in Seq(Executed),
         req' = [req EXCEPT ![c] = r], ran' = [ran EXCEPT ![c] = s], UNCHANGED world,
         entries' = IF r.at \in {"none", "received", "done"} THEN entries \ {c} ELSE entries \union {c},
         offered' \subseteq Contexts,
         changing = "locked" => r.at \notin Holding, Told(r, s), Prepared(r, abilities, gen)
  PROVE  CmdInv'
<1>1. req \in [Requests -> RequestRecords] /\ ran \in [Requests -> Seq(Executed)]
  BY DEF CmdInv, CmdTypeOK, RequestRecords
<1>2. /\ req' \in [Requests -> RequestRecords] /\ ran' \in [Requests -> Seq(Executed)]
      /\ req'[c] = r /\ ran'[c] = s
      /\ \A d \in Requests \ {c} : req'[d] = req[d] /\ ran'[d] = ran[d]
  BY <1>1
<1>3. doc' = doc /\ gen' = gen /\ ready' = ready /\ changing' = changing /\ abilities' = abilities /\ catalog' = catalog
  BY DEF world
<1>4. CmdTypeOK'
  BY <1>2, <1>3 DEF CmdInv, CmdTypeOK, RequestRecords
<1>5. ASSUME NEW d \in Requests
      PROVE  /\ d \in entries' <=> req'[d].at \notin {"none", "received", "done"}
             /\ changing' = "locked" => req'[d].at \notin Holding
             /\ Told(req'[d], ran'[d])
             /\ Prepared(req'[d], abilities', gen')
  <2>1. CASE d = c
    BY <1>2, <1>3, <2>1
  <2>2. CASE d # c
    <3>1. req'[d] = req[d] /\ ran'[d] = ran[d]
      BY <1>2, <2>2
    <3> QED
      BY <1>3, <2>2, <3>1 DEF CmdInv
  <2> QED
    BY <2>1, <2>2
<1> QED
  BY <1>2, <1>3, <1>4, <1>5 DEF CmdInv

\* The world moves, and the requests stand still: the connection and what it is able to do
\* change only while nobody holds it.
LEMMA WorldMoves ==
  ASSUME CmdInv,
         \/ \E d \in Docs \union {NoDoc} : Edit(d)
         \/ ChangeWanted \/ ChangeBegins \/ ServerStops
         \/ \E ok \in BOOLEAN, a \in Abilities : ChangeEnds(ok, a)
         \/ \E k \in Catalogs : CatalogLoads(k)
  PROVE  CmdInv'
<1>1. MaxGen \in Nat /\ UNCHANGED <<offered, req, ran, entries>> /\ CmdTypeOK
  BY CommandsAssumption DEF CmdInv, Edit, ChangeWanted, ChangeBegins, ServerStops, ChangeEnds, CatalogLoads
<1>2. CmdTypeOK'
  <2>1. /\ doc' \in Docs \union {NoDoc} /\ gen' \in 0..MaxGen /\ ready' \in BOOLEAN
        /\ changing' \in {"no", "wanted", "locked"} /\ abilities' \in Abilities /\ catalog' \in Catalogs
    <3>1. CASE \E d \in Docs \union {NoDoc} : Edit(d)
      BY <1>1, <3>1 DEF Edit, CmdTypeOK
    <3>2. CASE ChangeWanted
      BY <1>1, <3>2 DEF ChangeWanted, CmdTypeOK
    <3>3. CASE ChangeBegins
      <4>1. gen < MaxGen /\ gen \in Nat
        BY <1>1, <3>3 DEF CmdInv, ChangeBegins, CmdTypeOK
      <4>2. gen + 1 \in 0..MaxGen
        BY <1>1, <4>1
      <4> QED
        BY <1>1, <3>3, <4>2 DEF ChangeBegins, CmdTypeOK
    <3>4. CASE ServerStops
      BY <1>1, <3>4 DEF ServerStops, CmdTypeOK
    <3>5. CASE \E ok \in BOOLEAN, a \in Abilities : ChangeEnds(ok, a)
      BY <1>1, <3>5 DEF ChangeEnds, CmdTypeOK
    <3>6. CASE \E k \in Catalogs : CatalogLoads(k)
      BY <1>1, <3>6 DEF CatalogLoads, CmdTypeOK
    <3> QED
      BY <3>1, <3>2, <3>3, <3>4, <3>5, <3>6
  <2> QED
    BY <1>1, <2>1 DEF CmdTypeOK
<1>3. changing' = "wanted" => gen' < MaxGen
  BY DEF CmdInv, Edit, ChangeWanted, ChangeBegins, ServerStops, ChangeEnds, CatalogLoads
<1>4. \/ UNCHANGED <<gen, abilities>> /\ (changing' = "locked" => changing = "locked")
      \/ \A c \in Requests : req[c].at \notin Holding
  BY DEF CmdInv, Edit, ChangeWanted, ChangeBegins, ServerStops, ChangeEnds, CatalogLoads
<1>5. ASSUME NEW c \in Requests
      PROVE  /\ changing' = "locked" => req[c].at \notin Holding
             /\ Prepared(req[c], abilities', gen')
  <2>1. CASE UNCHANGED <<gen, abilities>> /\ (changing' = "locked" => changing = "locked")
    BY <2>1 DEF CmdInv
  <2>2. CASE req[c].at \notin Holding
    BY <2>2 DEF Holding, Prepared
  <2> QED
    BY <1>4, <2>1, <2>2
<1> QED
  BY <1>1, <1>2, <1>3, <1>5 DEF CmdInv

\* A request that stays with its goroutine: what is left to show of a step that runs nothing.
LEMMA RequestReturns ==
  ASSUME CmdInv, NEW c \in Requests, NEW o \in Outs,
         req[c].at \in {"registered", "locked", "running", "describing"}, Explains(o, req[c], ran[c]),
         Return(c, o), UNCHANGED <<world, offered, ran, entries>>
  PROVE  CmdInv'
<1>1. req \in [Requests -> RequestRecords] /\ ran \in [Requests -> Seq(Executed)] /\ offered \subseteq Contexts
  BY DEF CmdInv, CmdTypeOK, RequestRecords
<1>2. PICK r \in RequestRecords : r = req[c]
  BY <1>1
<1>3. PICK s \in Seq(Executed) : s = ran[c]
  BY <1>1
<1> DEFINE q == [r EXCEPT !.at = "returned", !.out = o]
<1>4. /\ q \in RequestRecords /\ q.at = "returned" /\ q.out = o /\ q.kind = r.kind /\ q.cap = r.cap
      /\ q.reply = r.reply
  BY DEF RequestRecords
<1>5. Told(r, s) /\ (c \in entries <=> r.at \notin {"none", "received", "done"})
  BY <1>2, <1>3 DEF CmdInv
<1>6. req' = [req EXCEPT ![c] = q] /\ ran' = [ran EXCEPT ![c] = s] /\ UNCHANGED world /\ offered' = offered
      /\ entries' = entries
  BY <1>1, <1>2, <1>3 DEF Return, Step
<1> HIDE DEF q
<1>7. Told(q, s) /\ Prepared(q, abilities, gen) /\ q.at \notin Holding
  BY <1>2, <1>3, <1>4, <1>5 DEF Told, Prepared, Holding, Explains
<1>8. entries' = entries \union {c} /\ q.at \notin {"none", "received", "done"}
  BY <1>2, <1>4, <1>5, <1>6
<1> QED
  BY <1>1, <1>4, <1>6, <1>7, <1>8, RequestMoves

\* The request begins to run, with what one capture gives.
LEMMA RequestIsCaptured ==
  ASSUME CmdInv, NEW c \in Requests, req[c].at = "locked", doc \in Docs, req[c].kind \in {"query", "bound"},
         req[c].kind = "bound" => SubmissionCurrent(c) /\ Routable(c),
         Step(c, Captured(c)), UNCHANGED <<world, offered, ran, entries>>
  PROVE  CmdInv'
<1>1. req \in [Requests -> RequestRecords] /\ ran \in [Requests -> Seq(Executed)] /\ offered \subseteq Contexts
      /\ gen \in 0..MaxGen /\ catalog \in Catalogs /\ abilities \in Abilities
      /\ Text \in [Docs -> Seq([kind : STRING, named : BOOLEAN])]
  BY CommandsAssumption DEF CmdInv, CmdTypeOK, RequestRecords
<1>2. PICK r \in RequestRecords : r = req[c]
  BY <1>1
<1>3. PICK d \in Docs, g \in 0..MaxGen, k \in Catalogs, a \in Abilities : d = doc /\ g = gen /\ k = catalog /\ a = abilities
  BY <1>1
<1> DEFINE q == [r EXCEPT !.at = "running", !.i = 1, !.cap = [doc |-> d, gen |-> g], !.cat = k]
<1>4. /\ q \in RequestRecords /\ q.at = "running" /\ q.kind = r.kind /\ q.cap = [doc |-> d, gen |-> g]
      /\ q.cap.doc = d /\ q.cap.gen = g /\ q.i = 1 /\ q.want = r.want /\ q.reply = r.reply
  BY DEF RequestRecords, Contexts
<1>5. /\ Told(r, ran[c]) /\ (c \in entries <=> r.at \notin {"none", "received", "done"})
      /\ changing # "locked"
  BY <1>2 DEF CmdInv, Holding
<1>6. ran[c] = <<>> /\ r.reply = "none" /\ r.at = "locked"
  BY <1>2, <1>5 DEF Told
<1>7. req' = [req EXCEPT ![c] = q] /\ ran' = [ran EXCEPT ![c] = <<>>] /\ UNCHANGED world /\ offered' = offered
      /\ entries' = entries
  BY <1>1, <1>2, <1>3, <1>6 DEF Captured, Step
<1> HIDE DEF q
<1>8. Told(q, <<>>)
  BY <1>1, <1>2, <1>4, <1>6 DEF Told, NoneStopped
<1>9. Prepared(q, a, g)
  <2>1. r.kind = "bound" => r.want = [doc |-> d, gen |-> g]
    BY <1>2, <1>3 DEF SubmissionCurrent
  <2>2. r.kind = "bound" => \A n \in DOMAIN Text[d] : Text[d][n].named => Method(Route(Text[d][n].kind, catalog), TRUE) # "none"
    BY <1>2, <1>3 DEF Routable
  <2>3. \A n \in DOMAIN Text[d] : Method(Route(Text[d][n].kind, catalog), TRUE) # "none" => Able(a, Text[d][n].kind)
    BY <1>3, MethodsAre
  <2>4. DOMAIN Text[d] = 1..Len(Text[d])
    BY <1>1
  <2> QED
    BY <1>4, <2>1, <2>2, <2>3, <2>4 DEF Prepared
<1>10. entries' = entries \union {c} /\ q.at \notin {"none", "received", "done"}
  BY <1>4, <1>5, <1>6, <1>7
<1>11. <<>> \in Seq(Executed)
  OBVIOUS
<1> QED
  BY <1>1, <1>3, <1>4, <1>5, <1>7, <1>8, <1>9, <1>10, <1>11, RequestMoves

\* One statement runs: by a method there is, and after none that was stopped.
LEMMA StatementRuns ==
  ASSUME CmdInv, NEW c \in Requests, NEW end \in Ends, RunStatement(c, end)
  PROVE  CmdInv'
<1>1. req \in [Requests -> RequestRecords] /\ ran \in [Requests -> Seq(Executed)] /\ offered \subseteq Contexts
      /\ gen \in 0..MaxGen /\ Text \in [Docs -> Seq([kind : STRING, named : BOOLEAN])]
  BY CommandsAssumption DEF CmdInv, CmdTypeOK, RequestRecords
<1>2. PICK r \in RequestRecords : r = req[c]
  BY <1>1
<1>3. PICK s \in Seq(Executed) : s = ran[c]
  BY <1>1
<1>4. PICK a, g : a = abilities /\ g = gen
  OBVIOUS
<1>5. r.at = "running" /\ r.i <= Len(Text[r.cap.doc])
  BY <1>2 DEF RunStatement
<1>6. Told(r, s) /\ Prepared(r, a, g) /\ (c \in entries <=> r.at \notin {"none", "received", "done"})
      /\ changing # "locked"
  BY <1>2, <1>3, <1>4, <1>5 DEF CmdInv, Holding
<1>7. /\ r.cap.doc \in Docs /\ r.i = Len(s) + 1 /\ NoneStopped(s, Len(s)) /\ r.kind \in {"query", "bound"}
      /\ r.reply = "none" /\ r.cap \in Contexts /\ \A n \in 1..Len(s) : s[n].i = n /\ s[n].method # "none"
  BY <1>5, <1>6 DEF Told, RequestRecords
<1>8. r.i \in 1..Len(Text[r.cap.doc])
  <2>1. Text[r.cap.doc] \in Seq([kind : STRING, named : BOOLEAN]) /\ Len(s) \in Nat /\ Len(Text[r.cap.doc]) \in Nat
    BY <1>1, <1>7
  <2> QED
    BY <1>5, <1>7, <2>1
<1>9. PICK method \in Methods : method = MethodOf(c, r.i)
  BY <1>2, <1>7, <1>8, MethodsAre DEF MethodOf, RouteOf, ArgsOf
<1>10. method # "none"
  <2> DEFINE args == r.kind = "bound" /\ Text[r.cap.doc][r.i].named
  <2>1. method = Method(Route(Text[r.cap.doc][r.i].kind, r.cat), args) /\ args \in BOOLEAN
    BY <1>2, <1>9 DEF MethodOf, RouteOf, ArgsOf
  <2>2. args => Able(abilities, Text[r.cap.doc][r.i].kind)
    BY <1>4, <1>5, <1>6, <1>8 DEF Prepared
  <2>3. args = TRUE \/ args = FALSE
    BY <2>1
  <2> HIDE DEF args
  <2> QED
    BY <2>1, <2>2, <2>3, MethodsAre
<1> DEFINE e == [doc |-> r.cap.doc, gen |-> r.cap.gen, i |-> r.i, method |-> method, end |-> end]
           t == Append(s, e)
<1>11. /\ e \in Executed /\ e.i = r.i /\ e.method = method /\ e.end = end
  BY <1>7, <1>8, <1>9 DEF Executed, RequestRecords, Contexts
<1>12. /\ ran' = [ran EXCEPT ![c] = t] /\ UNCHANGED world /\ offered' = offered /\ entries' = entries
  BY <1>2, <1>3, <1>9 DEF RunStatement
<1> HIDE DEF e
<1>13. /\ t \in Seq(Executed) /\ Len(t) = Len(s) + 1 /\ t[Len(t)] = e /\ t # <<>>
       /\ \A n \in 1..Len(s) : t[n] = s[n]
  BY <1>11
<1> HIDE DEF t
<1>14. /\ \A n \in 1..Len(t) : t[n].i = n /\ t[n].method # "none"
       /\ NoneStopped(t, Len(t) - 1) /\ (end # "stopped" => NoneStopped(t, Len(t)))
       /\ Len(s) \in Nat /\ Len(t) \in Nat
  BY <1>7, <1>10, <1>11, <1>13 DEF NoneStopped
<1>15. CASE end \in {"ok", "failed"} /\ req' = [req EXCEPT ![c] = [r EXCEPT !.i = @ + 1]]
  <2> DEFINE q == [r EXCEPT !.i = r.i + 1]
  <2>1. /\ q \in RequestRecords /\ q.at = "running" /\ q.i = r.i + 1 /\ q.cap = r.cap /\ q.kind = r.kind
        /\ q.want = r.want /\ q.reply = r.reply
    BY <1>5 DEF RequestRecords
  <2>2. req' = [req EXCEPT ![c] = q]
    BY <1>15
  <2> HIDE DEF q
  <2>3. Told(q, t)
    BY <1>1, <1>5, <1>7, <1>8, <1>13, <1>14, <1>15, <2>1 DEF Told
  <2>4. Prepared(q, abilities, gen)
    BY <1>4, <1>5, <1>6, <2>1 DEF Prepared
  <2>5. entries' = entries \union {c} /\ q.at \notin {"none", "received", "done"}
    BY <1>5, <1>6, <1>12, <2>1
  <2> QED
    BY <1>1, <1>6, <1>12, <1>13, <2>1, <2>2, <2>3, <2>4, <2>5, RequestMoves
<1>16. CASE \E o \in {"failed", "notice"} : (o = "notice" => end = "stopped") /\ Return(c, o)
  <2> PICK o \in {"failed", "notice"} : (o = "notice" => end = "stopped") /\ Return(c, o)
    BY <1>16
  <2> DEFINE q == [r EXCEPT !.at = "returned", !.out = o]
  <2>1. /\ q \in RequestRecords /\ q.at = "returned" /\ q.out = o /\ q.kind = r.kind /\ q.cap = r.cap
        /\ q.reply = r.reply
    BY DEF RequestRecords, Outs
  <2>2. req' = [req EXCEPT ![c] = q]
    BY <1>2 DEF Return, Step
  <2> HIDE DEF q
  <2>3. Explains(o, q, t)
    BY <1>11, <1>13 DEF Explains
  <2>4. Told(q, t) /\ Prepared(q, abilities, gen)
    BY <1>7, <1>14, <2>1, <2>3 DEF Told, Prepared
  <2>5. entries' = entries \union {c} /\ q.at \notin {"none", "received", "done"}
    BY <1>5, <1>6, <1>12, <2>1
  <2> QED
    BY <1>1, <1>6, <1>12, <1>13, <2>1, <2>2, <2>4, <2>5, RequestMoves
<1> QED
  <2>1. \/ end \in {"ok", "failed"} /\ Step(c, [req[c] EXCEPT !.i = @ + 1])
        \/ Return(c, "failed") \/ (end = "stopped" /\ Return(c, "notice"))
    BY DEF RunStatement, Ends
  <2> QED
    BY <1>2, <1>15, <1>16, <2>1 DEF Step

\* What begins, ends or is cancelled, and what looks before it runs anything.
LEMMA RequestKeepsCommands ==
  ASSUME CmdInv, NEW c \in Requests,
         \/ \E kind \in Kinds, want \in offered \union {NoContext} : Handle(c, kind, want)
         \/ Cancel(c) \/ RequestStep(c)
  PROVE  CmdInv'
<1>1. req \in [Requests -> RequestRecords] /\ ran \in [Requests -> Seq(Executed)] /\ offered \subseteq Contexts
      /\ NoContext \in Contexts
  BY CommandsAssumption DEF CmdInv, CmdTypeOK, RequestRecords, NoContext, Contexts
<1>2. PICK r \in RequestRecords : r = req[c]
  BY <1>1
<1>3. PICK s \in Seq(Executed) : s = ran[c]
  BY <1>1
<1>4. /\ Told(r, s) /\ Prepared(r, abilities, gen) /\ (c \in entries <=> r.at \notin {"none", "received", "done"})
      /\ (changing = "locked" => r.at \notin Holding) /\ ran = [ran EXCEPT ![c] = s] /\ entries \subseteq Requests
  BY <1>1, <1>2, <1>3 DEF CmdInv, CmdTypeOK
<1>5. r.at \in {"none", "received", "registered", "locked"} => s = <<>> /\ r.cap = NoContext
  BY <1>4 DEF Told
<1>6. CASE \E kind \in Kinds, want \in offered \union {NoContext} : Handle(c, kind, want)
  <2> PICK kind \in Kinds, want \in Contexts : Handle(c, kind, want)
    BY <1>1, <1>6
  <2> DEFINE q == [r EXCEPT !.at = "received", !.kind = kind, !.want = want]
  <2>1. q \in RequestRecords /\ q.at = "received" /\ q.cap = r.cap /\ q.reply = r.reply
    BY DEF RequestRecords
  <2>2. r.at = "none" /\ req' = [req EXCEPT ![c] = q] /\ ran' = [ran EXCEPT ![c] = s] /\ UNCHANGED world
        /\ offered' = offered /\ entries' = entries
    BY <1>2, <1>4 DEF Handle, Step
  <2> HIDE DEF q
  <2>3. Told(q, s) /\ Prepared(q, abilities, gen) /\ q.at \notin Holding /\ entries' = entries \ {c}
    BY <1>4, <2>1, <2>2 DEF Told, Prepared, Holding
  <2> QED
    BY <1>1, <2>1, <2>2, <2>3, RequestMoves
<1>7. CASE Cancel(c)
  <2> DEFINE q == [r EXCEPT !.cancelled = TRUE]
  <2>1. /\ q \in RequestRecords /\ q.at = r.at /\ q.cap = r.cap /\ q.reply = r.reply /\ q.kind = r.kind
        /\ q.i = r.i /\ q.out = r.out /\ q.want = r.want
    BY DEF RequestRecords
  <2>2. c \in entries /\ req' = [req EXCEPT ![c] = q] /\ ran' = [ran EXCEPT ![c] = s] /\ UNCHANGED world
        /\ offered' = offered /\ entries' = entries
    BY <1>2, <1>4, <1>7 DEF Cancel, Step
  <2> HIDE DEF q
  <2>3. Told(q, s)
    BY <1>4, <2>1 DEF Told, Explains
  <2>4. Prepared(q, abilities, gen) /\ entries' = entries \union {c} /\ q.at \notin {"none", "received", "done"}
        /\ (changing = "locked" => q.at \notin Holding)
    BY <1>4, <2>1, <2>2 DEF Prepared
  <2> QED
    BY <1>1, <2>1, <2>2, <2>3, <2>4, RequestMoves
<1>8. CASE Register(c)
  <2> DEFINE q == [r EXCEPT !.at = "registered"]
  <2>1. q \in RequestRecords /\ q.at = "registered" /\ q.cap = r.cap /\ q.reply = r.reply
    BY DEF RequestRecords
  <2>2. r.at = "received" /\ req' = [req EXCEPT ![c] = q] /\ ran' = [ran EXCEPT ![c] = s] /\ UNCHANGED world
        /\ offered' = offered /\ entries' = entries \union {c}
    BY <1>2, <1>4, <1>8 DEF Register, Step
  <2> HIDE DEF q
  <2>3. Told(q, s) /\ Prepared(q, abilities, gen) /\ q.at \notin Holding
    BY <1>4, <2>1, <2>2 DEF Told, Prepared, Holding
  <2> QED
    BY <1>1, <2>1, <2>2, <2>3, RequestMoves
<1>9. CASE AcquireReadyConnection(c)
  <2>1. r.at = "registered" /\ UNCHANGED <<world, offered, ran, entries>>
    BY <1>2, <1>9 DEF AcquireReadyConnection
  <2>2. CASE \E o \in {"cancelled", "changing", "unsupported", "notReady"} : Return(c, o)
    <3> PICK o \in {"cancelled", "changing", "unsupported", "notReady"} : Return(c, o)
      BY <2>2
    <3>1. o \in Outs /\ Explains(o, r, s)
      BY <1>5, <2>1 DEF Outs, Explains
    <3> QED
      BY <1>2, <1>3, <2>1, <3>1, RequestReturns
  <2>3. CASE changing = "no" /\ Step(c, [req[c] EXCEPT !.at = "locked"])
    <3> DEFINE q == [r EXCEPT !.at = "locked"]
    <3>1. q \in RequestRecords /\ q.at = "locked" /\ q.cap = r.cap /\ q.reply = r.reply
      BY DEF RequestRecords
    <3>2. req' = [req EXCEPT ![c] = q]
      BY <1>2, <2>3 DEF Step
    <3> HIDE DEF q
    <3>3. Told(q, s) /\ Prepared(q, abilities, gen) /\ entries' = entries \union {c}
      BY <1>4, <2>1, <3>1 DEF Told, Prepared
    <3>4. ran' = [ran EXCEPT ![c] = s] /\ UNCHANGED world /\ offered' = offered
      BY <1>4, <2>1
    <3> QED
      BY <1>1, <2>3, <3>1, <3>2, <3>3, <3>4, RequestMoves
  <2> QED
    BY <1>2, <1>9, <2>2, <2>3 DEF AcquireReadyConnection
<1>10. CASE CaptureQuery(c)
  <2>1. r.at = "locked" /\ r.kind = "query" /\ UNCHANGED <<world, offered, ran, entries>>
    BY <1>2, <1>10 DEF CaptureQuery
  <2>2. CASE \E o \in {"noDocument", "refused", "result", "failed"} : Return(c, o)
    <3> PICK o \in {"noDocument", "refused", "result", "failed"} : Return(c, o)
      BY <2>2
    <3>1. o \in Outs /\ Explains(o, r, s)
      BY <1>5, <2>1 DEF Outs, Explains
    <3> QED
      BY <1>2, <1>3, <2>1, <3>1, RequestReturns
  <2>3. CASE doc # NoDoc /\ Step(c, Captured(c))
    <3>1. doc \in Docs
      BY <2>3 DEF CmdInv, CmdTypeOK
    <3> QED
      BY <1>2, <2>1, <2>3, <3>1, RequestIsCaptured
  <2> QED
    BY <1>10, <2>2, <2>3 DEF CaptureQuery
<1>11. ASSUME NEW binds \in BOOLEAN, Preflight(c, binds) PROVE CmdInv'
  <2>1. r.at = "locked" /\ r.kind = "bound" /\ UNCHANGED <<world, offered, ran, entries>>
    BY <1>2, <1>11 DEF Preflight
  <2>2. CASE \E o \in {"noDocument", "stale", "refused"} : Return(c, o)
    <3> PICK o \in {"noDocument", "stale", "refused"} : Return(c, o)
      BY <2>2
    <3>1. o \in Outs /\ Explains(o, r, s)
      BY <1>5, <2>1 DEF Outs, Explains
    <3> QED
      BY <1>2, <1>3, <2>1, <3>1, RequestReturns
  <2>3. CASE doc # NoDoc /\ SubmissionCurrent(c) /\ Routable(c) /\ Step(c, Captured(c))
    <3>1. doc \in Docs
      BY <2>3 DEF CmdInv, CmdTypeOK
    <3> QED
      BY <1>2, <2>1, <2>3, <3>1, RequestIsCaptured
  <2> QED
    BY <1>11, <2>2, <2>3 DEF Preflight
<1>12. CASE Discover(c)
  <2>1. r.at = "locked" /\ r.kind = "discover" /\ UNCHANGED <<world, offered, ran, entries>> /\ changing # "locked"
    BY <1>2, <1>4, <1>12 DEF Discover, Holding
  <2>2. CASE \E o \in {"noDocument", "failed", "cancelled"} : Return(c, o)
    <3> PICK o \in {"noDocument", "failed", "cancelled"} : Return(c, o)
      BY <2>2
    <3>1. o \in Outs /\ Explains(o, r, s)
      BY <1>5, <2>1 DEF Outs, Explains
    <3> QED
      BY <1>2, <1>3, <2>1, <3>1, RequestReturns
  <2>3. CASE \E at \in {"describing", "returned"} : Step(c, [Captured(c) EXCEPT !.at = at, !.out = "discovery"])
    <3> PICK at \in {"describing", "returned"} : Step(c, [Captured(c) EXCEPT !.at = at, !.out = "discovery"])
      BY <2>3
    <3>1. doc \in Docs \union {NoDoc} /\ gen \in 0..MaxGen /\ catalog \in Catalogs
      BY DEF CmdInv, CmdTypeOK
    <3> PICK d \in Docs \union {NoDoc}, g \in 0..MaxGen, k \in Catalogs : d = doc /\ g = gen /\ k = catalog
      BY <3>1
    <3> DEFINE q == [[r EXCEPT !.at = "running", !.i = 1, !.cap = [doc |-> d, gen |-> g], !.cat = k]
                       EXCEPT !.at = at, !.out = "discovery"]
    <3>2. q \in RequestRecords /\ q.at = at /\ q.out = "discovery" /\ q.reply = r.reply
      <4> DEFINE b == [r EXCEPT !.at = "running", !.i = 1, !.cap = [doc |-> d, gen |-> g], !.cat = k]
      <4>1. b \in RequestRecords /\ b.reply = r.reply
        BY DEF RequestRecords, Contexts
      <4>2. q = [b EXCEPT !.at = at, !.out = "discovery"] /\ "discovery" \in Outs
        BY DEF Outs
      <4> HIDE DEF b, q
      <4> QED
        BY <4>1, <4>2 DEF RequestRecords
    <3>3. req' = [req EXCEPT ![c] = q]
      BY <1>2 DEF Captured, Step
    <3> HIDE DEF q
    <3>4. Told(q, s) /\ Prepared(q, abilities, gen) /\ entries' = entries \union {c}
      BY <1>4, <1>5, <2>1, <3>2 DEF Told, Prepared, Explains
    <3>5. ran' = [ran EXCEPT ![c] = s] /\ UNCHANGED world /\ offered' = offered
      BY <1>4, <2>1
    <3> QED
      BY <1>1, <2>1, <3>2, <3>3, <3>4, <3>5, RequestMoves
  <2> QED
    BY <1>12, <2>2, <2>3 DEF Discover
<1>13. CASE Describe(c)
  <2>1. PICK o \in {"cancelled", "discovery"} : Return(c, o)
    BY <1>13 DEF Describe
  <2>2. r.at = "describing" /\ s = <<>> /\ UNCHANGED <<world, offered, ran, entries>>
    BY <1>2, <1>4, <1>13 DEF Describe, Told
  <2>3. o \in Outs /\ Explains(o, r, s)
    BY <2>2 DEF Outs, Explains
  <2> QED
    BY <1>2, <1>3, <2>1, <2>2, <2>3, RequestReturns
<1>14. ASSUME NEW end \in Ends, Explain(c, end) PROVE CmdInv'
  <2>1. PICK o \in {"noDocument", "failed", "result", "notice"} : Return(c, o)
    BY <1>14 DEF Explain
  <2>2. r.at = "locked" /\ r.kind = "explain" /\ UNCHANGED <<world, offered, ran, entries>>
    BY <1>2, <1>14 DEF Explain
  <2>3. o \in Outs /\ Explains(o, r, s)
    BY <1>5, <2>2 DEF Outs, Explains
  <2> QED
    BY <1>2, <1>3, <2>1, <2>2, <2>3, RequestReturns
<1>15. CASE BatchEnds(c)
  <2>1. r.at = "running" /\ r.i > Len(Text[r.cap.doc]) /\ Return(c, "result") /\ UNCHANGED <<world, offered, ran, entries>>
    BY <1>2, <1>15 DEF BatchEnds
  <2>2. r.cap.doc \in Docs /\ r.i = Len(s) + 1 /\ Len(s) <= Len(Text[r.cap.doc]) /\ NoneStopped(s, Len(s))
    BY <1>4, <2>1 DEF Told
  <2>3. Text[r.cap.doc] \in Seq([kind : STRING, named : BOOLEAN]) /\ Len(s) \in Nat
    BY <2>2, CommandsAssumption
  <2>4. Len(s) = Len(Text[r.cap.doc])
    BY <2>1, <2>2, <2>3
  <2>5. "result" \in Outs /\ Explains("result", r, s)
    BY <2>2, <2>4 DEF Outs, Explains
  <2> QED
    BY <1>2, <1>3, <2>1, <2>5, RequestReturns
<1>16. CASE Answer(c)
  <2>1. PICK o \in Outs : o = ReplyOf(r) /\ (o = r.out \/ (o = "late" /\ r.out = "result"))
    <3>1. "late" \in Outs /\ r.out \in Outs
      BY DEF RequestRecords, Outs
    <3>2. ReplyOf(r) = r.out \/ (ReplyOf(r) = "late" /\ r.out = "result")
      BY Zenon DEF ReplyOf
    <3> QED
      BY <3>1, <3>2
  <2> DEFINE q == [r EXCEPT !.at = "answered", !.reply = o]
  <2>2. q \in RequestRecords /\ q.at = "answered" /\ q.cap = r.cap /\ q.reply = o /\ q.kind = r.kind
    BY DEF RequestRecords
  <2>3. r.at = "returned" /\ req' = [req EXCEPT ![c] = q] /\ ran' = [ran EXCEPT ![c] = s] /\ UNCHANGED world
        /\ offered' = offered /\ entries' = entries
    BY <1>2, <1>4, <1>16, <2>1 DEF Answer, Step
  <2> HIDE DEF q
  <2>4. Explains(o, q, s)
    BY <1>4, <2>1, <2>2, <2>3 DEF Told, Explains
  <2>5. Told(q, s) /\ Prepared(q, abilities, gen) /\ q.at \notin Holding /\ entries' = entries \union {c}
    BY <1>4, <2>2, <2>3, <2>4 DEF Told, Prepared, Holding
  <2> QED
    BY <1>1, <2>2, <2>3, <2>5, RequestMoves
<1>17. CASE Unregister(c)
  <2> DEFINE q == [r EXCEPT !.at = "done"]
  <2>1. q \in RequestRecords /\ q.at = "done" /\ q.cap = r.cap /\ q.reply = r.reply /\ q.kind = r.kind
    BY DEF RequestRecords
  <2>2. r.at = "answered" /\ req' = [req EXCEPT ![c] = q] /\ ran' = [ran EXCEPT ![c] = s] /\ UNCHANGED world
        /\ entries' = entries \ {c} /\ offered' \subseteq offered \union {r.cap}
    BY <1>2, <1>4, <1>17 DEF Unregister, Step
  <2> HIDE DEF q
  <2>3. Explains(q.reply, q, s) /\ offered' \subseteq Contexts
    BY <1>1, <1>4, <2>1, <2>2 DEF Told, Explains, RequestRecords
  <2>4. Told(q, s) /\ Prepared(q, abilities, gen) /\ q.at \notin Holding
    BY <1>4, <2>1, <2>2, <2>3 DEF Told, Prepared, Holding
  <2> QED
    BY <2>1, <2>2, <2>3, <2>4, RequestMoves
<1> QED
  BY <1>6, <1>7, <1>8, <1>9, <1>10, <1>11, <1>12, <1>13, <1>14, <1>15, <1>16, <1>17, StatementRuns DEF RequestStep

\* CmdInv is an invariant of the commands.
THEOREM CommandsInvariant == CmdSpec => []CmdInv
<1>1. CmdInv /\ [CmdNext]_cmdVars => CmdInv'
  <2> SUFFICES ASSUME CmdInv, [CmdNext]_cmdVars PROVE CmdInv'
    OBVIOUS
  <2>1. CASE UNCHANGED cmdVars
    BY <2>1 DEF cmdVars, CmdInv, CmdTypeOK
  <2> QED
    BY <2>1, WorldMoves, RequestKeepsCommands DEF CmdNext
<1> QED
  BY <1>1, InitCmdInv, PTL DEF CmdSpec

\* The reply to a command is the truth about what it executed, for any number of requests,
\* texts, drivers and connection changes (RepliesTellTheTruth).
THEOREM RepliesAreTrue == CmdSpec => []RepliesTellTheTruth
<1>1. ASSUME CmdInv PROVE RepliesTellTheTruth
  <2>1. CmdTypeOK /\ entries = InFlight
    BY <1>1 DEF CmdInv, CmdTypeOK, InFlight
  <2>2. ASSUME NEW c \in Requests
        PROVE  /\ \A n \in DOMAIN ran[c] : ran[c][n].i = n /\ ran[c][n].method # "none"
               /\ \A n \in 1..(Len(ran[c]) - 1) : ran[c][n].end # "stopped"
               /\ req[c].reply \in {"result", "late"} /\ req[c].cap # NoContext =>
                    Len(ran[c]) = Len(Text[req[c].cap.doc]) /\ \A n \in DOMAIN ran[c] : ran[c][n].end # "stopped"
               /\ req[c].reply = "notice" /\ req[c].kind # "explain" => ran[c] # <<>> /\ Last(ran[c]).end = "stopped"
               /\ req[c].reply \in {"stale", "refused", "changing", "notReady", "noDocument", "cancelled", "discovery"} =>
                    ran[c] = <<>>
    <3> PICK s \in Seq(Executed), r \in RequestRecords : s = ran[c] /\ r = req[c]
      BY <1>1 DEF CmdInv, CmdTypeOK, RequestRecords
    <3>1. Told(r, s) /\ DOMAIN s = 1..Len(s)
      BY <1>1 DEF CmdInv
    <3>2. r.reply # "none" => Explains(r.reply, r, s)
      BY <3>1 DEF Told, RequestRecords
    <3> QED
      BY <3>1, <3>2 DEF Told, Explains, NoneStopped, Last
  <2> QED
    BY <2>1, <2>2 DEF RepliesTellTheTruth
<1> QED
  BY <1>1, CommandsInvariant, PTL

\* A statement runs on the connection its batch was captured under, and with values only
\* what the client was shown (StatementsRunAsReviewed).
THEOREM StatementsAreReviewed == CmdSpec => StatementsRunAsReviewed
<1>1. CmdInv /\ [CmdNext]_cmdVars => [RunsAsReviewed]_cmdVars
  <2> SUFFICES ASSUME CmdInv, CmdNext, NEW c \in Requests, ran'[c] # ran[c]
               PROVE  LET e == Last(ran'[c]) IN
                      /\ e.gen = gen /\ changing # "locked"
                      /\ req[c].kind = "bound" => [doc |-> e.doc, gen |-> e.gen] = req[c].want
    BY DEF RunsAsReviewed
  <2>1. ran \in [Requests -> Seq(Executed)] /\ req \in [Requests -> RequestRecords]
    BY DEF CmdInv, CmdTypeOK, RequestRecords
  <2>2. PICK b \in Requests, end \in Ends : RunStatement(b, end)
    <3>1. CASE \E b \in Requests : RequestStep(b)
      <4> PICK b \in Requests : RequestStep(b)
        BY <3>1
      <4>1. CASE UNCHANGED ran
        BY <4>1
      <4>2. CASE ~UNCHANGED ran
        <5>1. ~(Register(b) \/ AcquireReadyConnection(b) \/ CaptureQuery(b) \/ BatchEnds(b) \/ Answer(b) \/ Unregister(b))
          BY <4>2 DEF Register, AcquireReadyConnection, CaptureQuery, BatchEnds, Answer, Unregister
        <5>2. ~(Discover(b) \/ Describe(b)) /\ ~\E binds \in BOOLEAN : Preflight(b, binds)
          BY <4>2 DEF Discover, Describe, Preflight
        <5>3. ~\E end \in Ends : Explain(b, end)
          BY <4>2 DEF Explain
        <5> QED
          BY <5>1, <5>2, <5>3 DEF RequestStep
      <4> QED
        BY <4>1, <4>2
    <3>2. CASE ~\E b \in Requests : RequestStep(b)
      BY <3>2 DEF CmdNext, Edit, ChangeWanted, ChangeBegins, ServerStops, ChangeEnds, CatalogLoads, Handle, Cancel
    <3> QED
      BY <3>1, <3>2
  <2>3. b = c
    BY <2>1, <2>2 DEF RunStatement
  <2> PICK r \in RequestRecords, s \in Seq(Executed) : r = req[c] /\ s = ran[c]
    BY <2>1
  <2>4. r.at = "running" /\ \E method : ran'[c] = Append(s, [doc |-> r.cap.doc, gen |-> r.cap.gen, i |-> r.i,
                                                            method |-> method, end |-> end])
    BY <2>1, <2>2, <2>3 DEF RunStatement
  <2>5. Prepared(r, abilities, gen) /\ Told(r, s) /\ changing # "locked"
    BY <2>4 DEF CmdInv, Holding
  <2>6. Last(ran'[c]).gen = r.cap.gen /\ Last(ran'[c]).doc = r.cap.doc
    BY <2>4 DEF Last
  <2>7. r.cap \in Contexts /\ r.cap = [doc |-> r.cap.doc, gen |-> r.cap.gen]
    BY DEF RequestRecords, Contexts
  <2> QED
    BY <2>4, <2>5, <2>6, <2>7 DEF Prepared
<1> QED
  BY <1>1, CommandsInvariant, PTL DEF CmdSpec, StatementsRunAsReviewed

-----------------------------------------------------------------------------
(* The definition snapshots.                                               *)

Stages == {"idle", "wants", "pruning", "base", "written", "published", "stale", "gone"}
AttemptRecords == [pc : Stages, generation : Nat, conn : Conns, dir : Dirs \union {NoDir}]
StoreRecords == [dir : Dirs \union {NoDir}, generation : Nat, pruned : BOOLEAN, created : SUBSET Dirs, down : BOOLEAN]

\* Everything has its type; a live process has a pid of its own.
SnapshotTypes ==
  /\ DOMAIN disk \subseteq Dirs /\ old \subseteq idled /\ idled \subseteq Dirs
  /\ pid \in [Procs -> Pids] /\ conn \in [Procs -> Conns] /\ connGeneration \in [Procs -> Nat]
  /\ bound \in [Procs -> BOOLEAN] /\ store \in [Procs -> StoreRecords] /\ mu \in [Procs -> Nat]
  /\ victim \in [Procs -> Dirs \union {NoDir}] /\ todo \in [Procs -> SUBSET Dirs]
  /\ cleanup \in [Procs -> {"no", "asked", "removing", "done"}]
  /\ DOMAIN att = Procs /\ (\A p \in Procs : att[p] \in [Attempts[p] -> AttemptRecords] /\ mu[p] \in Attempts[p] \union {Nobody})
  /\ \A p, q \in Procs : pid[p] = pid[q] => p = q

\* The store of a process knows the directories of its own pid; once the worker has its list
\* nobody holds the mutex, and the list names no directory of another.
StoresAreOwn ==
  \A p \in Procs :
    /\ \A d \in store[p].created : d[1] = pid[p]
    /\ store[p].dir # NoDir => store[p].dir \in store[p].created
    /\ cleanup[p] # "no" => store[p].down
    /\ cleanup[p] \in {"removing", "done"} => mu[p] = Nobody
    /\ cleanup[p] = "removing" => \A d \in todo[p] : d[1] = pid[p]
    /\ victim[p] # NoDir => victim[p] \in idled

\* An attempt writes under the mutex, below a directory of its process, which the worker
\* will find on its list.
AttemptsAreListed ==
  \A p \in Procs : \A a \in Attempts[p] :
    LET d == att[p][a].dir IN
    /\ att[p][a].pc \in {"pruning", "base"} => mu[p] = a
    /\ d # NoDir => d[1] = pid[p]
    /\ d # NoDir /\ cleanup[p] \in {"no", "asked"} => d \in store[p].created
    /\ cleanup[p] = "removing" => d \in todo[p] \/ d \notin DOMAIN disk
    /\ cleanup[p] = "done" => d \notin DOMAIN disk

\* A file is where its attempt put it, and there until it was published or withdrawn.
FilesArePlaced ==
  \A d \in DOMAIN disk : \A x \in disk[d] :
    \E p \in Procs : \E a \in Attempts[p] :
      x = <<p, a>> /\ d = att[p][a].dir /\ att[p][a].pc \in {"written", "published", "stale"}

\* What was written and not withdrawn is there, or its directory was idle.
FilesAreKept ==
  \A p \in Procs : \A a \in Attempts[p] :
    att[p][a].pc \in {"written", "published"} /\ cleanup[p] \in {"no", "asked"} =>
      OnDisk(p, a) \/ att[p][a].dir \in idled

SnapInv == SnapshotTypes /\ StoresAreOwn /\ AttemptsAreListed /\ FilesArePlaced /\ FilesAreKept

\* An attempt goes to another stage; the others are as they were.
LEMMA AttemptGoes ==
  ASSUME SnapInv, NEW p \in Procs, NEW a \in Attempts[p], NEW s \in Stages, Goes(p, a, s)
  PROVE  /\ DOMAIN att' = Procs /\ \A q \in Procs : att'[q] \in [Attempts[q] -> AttemptRecords]
         /\ att'[p][a].pc = s /\ att'[p][a].dir = att[p][a].dir
         /\ \A q \in Procs : \A b \in Attempts[q] : q # p \/ b # a => att'[q][b] = att[q][b]
<1>1. DOMAIN att = Procs /\ \A q \in Procs : att[q] \in [Attempts[q] -> AttemptRecords]
  BY DEF SnapInv, SnapshotTypes
<1> DEFINE r == [att[p][a] EXCEPT !.pc = s]
<1>2. r \in AttemptRecords /\ r.pc = s /\ r.dir = att[p][a].dir
  BY <1>1 DEF AttemptRecords
<1>3. att' = [att EXCEPT ![p][a] = r]
  BY <1>1 DEF Goes
<1> HIDE DEF r
<1>4. att'[p] = [att[p] EXCEPT ![a] = r] /\ DOMAIN att' = Procs /\ \A q \in Procs : q # p => att'[q] = att[q]
  BY <1>1, <1>3
<1> QED
  BY <1>1, <1>2, <1>4

\* No process has done anything.
LEMMA InitSnapInv == StoreInit => SnapInv
<1> SUFFICES ASSUME StoreInit PROVE SnapInv
  OBVIOUS
<1>1. Fresh \in AttemptRecords /\ Fresh.pc = "idle" /\ Fresh.dir = NoDir
  BY SnapshotAssumption DEF Fresh, AttemptRecords, Stages
<1>2. EmptyStore \in StoreRecords
  BY DEF EmptyStore, StoreRecords
<1>3. \A p \in Procs : /\ store[p] = EmptyStore /\ mu[p] = Nobody /\ victim[p] = NoDir /\ cleanup[p] = "no"
                       /\ \A a \in Attempts[p] : att[p][a] = Fresh
  BY DEF StoreInit
<1>4. DOMAIN disk = {}
  BY DEF StoreInit
<1>5. SnapshotTypes
  <2>1. pid \in [Procs -> Pids] /\ \A p, q \in Procs : pid[p] = pid[q] => p = q
    BY DEF StoreInit
  <2>2. /\ conn \in [Procs -> Conns] /\ connGeneration \in [Procs -> Nat] /\ bound \in [Procs -> BOOLEAN]
        /\ mu \in [Procs -> Nat] /\ victim \in [Procs -> Dirs \union {NoDir}] /\ todo \in [Procs -> SUBSET Dirs]
        /\ cleanup \in [Procs -> {"no", "asked", "removing", "done"}] /\ old = {} /\ idled = {}
    BY DEF StoreInit, Nobody
  <2>3. store \in [Procs -> StoreRecords]
    BY <1>2 DEF StoreInit
  <2>4. DOMAIN att = Procs /\ \A p \in Procs : att[p] \in [Attempts[p] -> AttemptRecords]
    BY <1>1 DEF StoreInit
  <2> QED
    BY <1>3, <1>4, <2>1, <2>2, <2>3, <2>4 DEF SnapshotTypes
<1>6. StoresAreOwn
  BY <1>3 DEF StoresAreOwn, EmptyStore
<1>7. AttemptsAreListed
  BY <1>1, <1>3 DEF AttemptsAreListed
<1>8. FilesArePlaced /\ FilesAreKept
  BY <1>1, <1>3, <1>4 DEF FilesArePlaced, FilesAreKept
<1> QED
  BY <1>5, <1>6, <1>7, <1>8 DEF SnapInv

\* The first look at the flag, and the mutex.
LEMMA BeginKeepsSnapshots ==
  ASSUME SnapInv, NEW p \in Procs, NEW a \in Attempts[p], Begin(p, a)
  PROVE  SnapInv'
<1>1. SnapshotTypes /\ UNCHANGED <<disk, old, pid, conn, connGeneration, bound, store, mu, todo, victim, cleanup, idled>>
  BY DEF Begin, SnapInv
<1>2. PICK r \in AttemptRecords : r.pc \in {"gone", "wants"} /\ r.dir = NoDir /\ att' = [att EXCEPT ![p][a] = r]
  <2>1. connGeneration[p] \in Nat /\ conn[p] \in Conns
    BY <1>1 DEF SnapshotTypes
  <2> DEFINE r(pc) == [pc |-> pc, generation |-> connGeneration[p], conn |-> conn[p], dir |-> NoDir]
  <2>2. \A pc \in {"gone", "wants"} : r(pc) \in AttemptRecords /\ r(pc).pc = pc /\ r(pc).dir = NoDir
    BY <2>1 DEF AttemptRecords, Stages
  <2>3. \E pc \in {"gone", "wants"} : att' = [att EXCEPT ![p][a] = r(pc)]
    BY DEF Begin
  <2> QED
    BY <2>2, <2>3
<1>3. /\ DOMAIN att' = Procs /\ \A q \in Procs : att'[q] \in [Attempts[q] -> AttemptRecords]
      /\ att'[p][a] = r
      /\ \A q \in Procs : \A b \in Attempts[q] : q # p \/ b # a => att'[q][b] = att[q][b]
  <2>1. DOMAIN att = Procs /\ \A q \in Procs : att[q] \in [Attempts[q] -> AttemptRecords]
    BY <1>1 DEF SnapshotTypes
  <2>2. att'[p] = [att[p] EXCEPT ![a] = r] /\ DOMAIN att' = Procs /\ \A q \in Procs : q # p => att'[q] = att[q]
    BY <1>2, <2>1
  <2> QED
    BY <2>1, <2>2
<1>4. att[p][a].pc = "idle"
  BY DEF Begin, At
<1>5. SnapshotTypes'
  BY <1>1, <1>3 DEF SnapshotTypes
<1>6. StoresAreOwn'
  BY <1>1 DEF SnapInv, StoresAreOwn
<1>7. AttemptsAreListed'
  BY <1>1, <1>2, <1>3, SnapshotAssumption DEF SnapInv, AttemptsAreListed, SnapshotTypes
<1>8. FilesArePlaced'
  BY <1>1, <1>3, <1>4 DEF SnapInv, FilesArePlaced
<1>9. FilesAreKept'
  BY <1>1, <1>2, <1>3 DEF SnapInv, FilesAreKept, OnDisk
<1> QED
  BY <1>5, <1>6, <1>7, <1>8, <1>9 DEF SnapInv

LEMMA LockKeepsSnapshots ==
  ASSUME SnapInv, NEW p \in Procs, NEW a \in Attempts[p], Lock(p, a)
  PROVE  SnapInv'
<1>1. SnapshotTypes /\ UNCHANGED <<disk, old, pid, conn, connGeneration, bound, victim, cleanup, idled>>
      /\ mu[p] = Nobody /\ att[p][a].pc = "wants"
  BY DEF Lock, At, SnapInv
<1>2. a \in Nat /\ a # Nobody
  BY SnapshotAssumption
<1>3. PICK s \in {"gone", "pruning"} :
        /\ Goes(p, a, s)
        /\ \/ s = "gone" /\ UNCHANGED <<mu, todo, store>>
           \/ /\ s = "pruning" /\ ~store[p].down /\ mu' = [mu EXCEPT ![p] = a]
              /\ \E t \in SUBSET Dirs : todo' = [todo EXCEPT ![p] = t]
              /\ store' = [store EXCEPT ![p].pruned = TRUE]
  <2>1. {d \in DOMAIN disk : d[1] # pid[p]} \in SUBSET Dirs
    BY <1>1 DEF SnapshotTypes
  <2> QED
    BY <2>1 DEF Lock, StillOpen
<1>4. /\ DOMAIN att' = Procs /\ \A q \in Procs : att'[q] \in [Attempts[q] -> AttemptRecords]
      /\ att'[p][a].pc = s /\ att'[p][a].dir = att[p][a].dir
      /\ \A q \in Procs : \A b \in Attempts[q] : q # p \/ b # a => att'[q][b] = att[q][b]
  BY <1>3, AttemptGoes DEF Stages
<1>5. /\ store' \in [Procs -> StoreRecords]
      /\ \A q \in Procs : /\ store'[q].created = store[q].created /\ store'[q].dir = store[q].dir
                          /\ store'[q].down = store[q].down
  <2> DEFINE r == [store[p] EXCEPT !.pruned = TRUE]
  <2>1. store \in [Procs -> StoreRecords]
    BY <1>1 DEF SnapshotTypes
  <2>2. r \in StoreRecords /\ r.created = store[p].created /\ r.dir = store[p].dir /\ r.down = store[p].down
    BY <2>1 DEF StoreRecords
  <2>3. store' = store \/ store' = [store EXCEPT ![p] = r]
    BY <1>3
  <2> HIDE DEF r
  <2> QED
    BY <2>1, <2>2, <2>3
<1>6. s = "pruning" => cleanup[p] = "no"
  BY <1>3 DEF SnapInv, StoresAreOwn
<1>7. SnapshotTypes'
  <2>1. mu' \in [Procs -> Nat] /\ (\A q \in Procs : mu'[q] \in Attempts[q] \union {Nobody}) /\ todo' \in [Procs -> SUBSET Dirs]
    BY <1>1, <1>2, <1>3 DEF SnapshotTypes
  <2> QED
    BY <1>1, <1>4, <1>5, <2>1 DEF SnapshotTypes
<1>8. \A q \in Procs : q # p => mu'[q] = mu[q] /\ todo'[q] = todo[q]
  BY <1>1, <1>3 DEF SnapshotTypes
<1>9. cleanup[p] # "no" => mu'[p] = mu[p] /\ todo'[p] = todo[p]
  BY <1>3, <1>6
<1>10. StoresAreOwn'
  BY <1>1, <1>5, <1>8, <1>9 DEF SnapInv, StoresAreOwn
<1>11. AttemptsAreListed'
  <2> SUFFICES ASSUME NEW q \in Procs, NEW b \in Attempts[q]
               PROVE  LET d == att'[q][b].dir IN
                      /\ att'[q][b].pc \in {"pruning", "base"} => mu'[q] = b
                      /\ d # NoDir => d[1] = pid'[q]
                      /\ d # NoDir /\ cleanup'[q] \in {"no", "asked"} => d \in store'[q].created
                      /\ cleanup'[q] = "removing" => d \in todo'[q] \/ d \notin DOMAIN disk'
                      /\ cleanup'[q] = "done" => d \notin DOMAIN disk'
    BY DEF AttemptsAreListed
  <2>1. att'[q][b].dir = att[q][b].dir
    BY <1>4
  <2>2. att'[q][b].pc \in {"pruning", "base"} => mu'[q] = b
    <3>1. CASE q = p /\ b = a
      BY <1>1, <1>3, <1>4, <3>1 DEF SnapshotTypes
    <3>2. CASE q = p /\ b # a
      <4>1. att[q][b].pc \notin {"pruning", "base"}
        BY <1>1, <3>2, SnapshotAssumption DEF SnapInv, AttemptsAreListed
      <4> QED
        BY <1>4, <3>2, <4>1
    <3>3. CASE q # p
      BY <1>4, <1>8, <3>3 DEF SnapInv, AttemptsAreListed
    <3> QED
      BY <3>1, <3>2, <3>3
  <2>3. cleanup[q] = "removing" => todo'[q] = todo[q]
    BY <1>8, <1>9
  <2> QED
    BY <1>1, <1>5, <2>1, <2>2, <2>3 DEF SnapInv, AttemptsAreListed
<1>12. FilesArePlaced'
  <2>1. \A q \in Procs : \A b \in Attempts[q] : att[q][b].pc \in {"written", "published", "stale"} => att'[q][b] = att[q][b]
    BY <1>1, <1>4
  <2> QED
    BY <1>1, <2>1 DEF SnapInv, FilesArePlaced
<1>13. FilesAreKept'
  BY <1>1, <1>3, <1>4 DEF SnapInv, FilesAreKept, OnDisk
<1> QED
  BY <1>7, <1>10, <1>11, <1>12, <1>13 DEF SnapInv

\* The pruning: what is removed was old, and only whoever holds the mutex prunes.
LEMMA PruneKeepsSnapshots ==
  ASSUME SnapInv, NEW p \in Procs, NEW a \in Attempts[p],
         (\E d \in Dirs : PruneLooks(p, a, d)) \/ PruneRemoves(p, a)
  PROVE  SnapInv'
<1>1. SnapshotTypes /\ UNCHANGED <<old, pid, conn, connGeneration, bound, store, mu, cleanup, att, idled>>
  BY DEF SnapInv, PruneLooks, PruneRemoves
<1>2. cleanup[p] \in {"no", "asked"}
  <2>1. att[p][a].pc = "pruning" /\ a # Nobody
    BY SnapshotAssumption DEF PruneLooks, PruneRemoves, At
  <2>2. mu[p] # Nobody
    BY <2>1 DEF SnapInv, AttemptsAreListed
  <2> QED
    BY <1>1, <2>2 DEF SnapInv, StoresAreOwn, SnapshotTypes
<1>3. CASE \E d \in Dirs : PruneLooks(p, a, d)
  <2> PICK d \in Dirs : PruneLooks(p, a, d)
    BY <1>3
  <2>1. /\ disk' = disk /\ todo' = [todo EXCEPT ![p] = @ \ {d}] /\ \E v \in {d, NoDir} : victim' = [victim EXCEPT ![p] = v]
    BY DEF PruneLooks
  <2>2. victim'[p] # NoDir => victim'[p] \in idled
    BY <1>1 DEF PruneLooks, Stale, SnapshotTypes
  <2>3. SnapshotTypes'
    BY <1>1, <2>1 DEF SnapshotTypes
  <2>4. \A q \in Procs : q # p => todo'[q] = todo[q] /\ victim'[q] = victim[q]
    BY <1>1, <2>1 DEF SnapshotTypes
  <2>5. StoresAreOwn'
    BY <1>1, <1>2, <2>2, <2>4 DEF SnapInv, StoresAreOwn
  <2>6. AttemptsAreListed'
    BY <1>1, <1>2, <2>1, <2>4 DEF SnapInv, AttemptsAreListed
  <2>7. FilesArePlaced' /\ FilesAreKept'
    BY <1>1, <2>1 DEF SnapInv, FilesArePlaced, FilesAreKept, OnDisk
  <2> QED
    BY <2>3, <2>5, <2>6, <2>7 DEF SnapInv
<1>4. CASE PruneRemoves(p, a)
  <2>1. /\ todo' = todo /\ victim' = [victim EXCEPT ![p] = NoDir] /\ victim[p] \in idled
        /\ DOMAIN disk' = DOMAIN disk \ {victim[p]} /\ \A d \in DOMAIN disk' : disk'[d] = disk[d]
    BY <1>4 DEF PruneRemoves, Without, SnapInv, StoresAreOwn
  <2>2. SnapshotTypes'
    BY <1>1, <2>1 DEF SnapshotTypes
  <2>3. StoresAreOwn'
    BY <1>1, <2>1 DEF SnapInv, StoresAreOwn, SnapshotTypes
  <2>4. AttemptsAreListed'
    BY <1>1, <2>1 DEF SnapInv, AttemptsAreListed
  <2>5. FilesArePlaced'
    BY <1>1, <2>1 DEF SnapInv, FilesArePlaced
  <2>6. FilesAreKept'
    <3>1. \A q \in Procs : \A b \in Attempts[q] : OnDisk(q, b) => OnDisk(q, b)' \/ att[q][b].dir = victim[p]
      <4> SUFFICES ASSUME NEW q \in Procs, NEW b \in Attempts[q], NEW d \in DOMAIN disk, <<q, b>> \in disk[d], d # att[q][b].dir
                   PROVE FALSE
        BY <1>1, <2>1 DEF OnDisk
      <4>1. PICK q2 \in Procs : \E b2 \in Attempts[q2] : <<q, b>> = <<q2, b2>> /\ d = att[q2][b2].dir
        BY DEF SnapInv, FilesArePlaced
      <4> QED
        BY <4>1
    <3> QED
      BY <1>1, <2>1, <3>1 DEF SnapInv, FilesAreKept
  <2> QED
    BY <2>2, <2>3, <2>4, <2>5, <2>6 DEF SnapInv
<1> QED
  BY <1>3, <1>4

\* The directory of the generation is made, or it is the one remembered.
LEMMA DirKeepsSnapshots ==
  ASSUME SnapInv, NEW p \in Procs, NEW a \in Attempts[p], ConnectionDir(p, a)
  PROVE  SnapInv'
<1>1. SnapshotTypes /\ UNCHANGED <<pid, conn, connGeneration, bound, mu, todo, victim, cleanup, idled>>
      /\ att[p][a].pc = "pruning" /\ att[p][a] \in AttemptRecords
  BY DEF SnapInv, SnapshotTypes, ConnectionDir, At
<1>2. cleanup[p] \in {"no", "asked"} /\ mu[p] = a
  <2>1. mu[p] # Nobody /\ mu[p] = a
    BY <1>1, SnapshotAssumption DEF SnapInv, AttemptsAreListed
  <2> QED
    BY <1>1, <2>1 DEF SnapInv, StoresAreOwn, SnapshotTypes
<1>3. PICK d \in Dirs, r \in AttemptRecords :
        /\ att' = [att EXCEPT ![p][a] = r] /\ r.pc = "base" /\ r.dir = d /\ d[1] = pid[p]
        /\ \/ d \in store[p].created /\ UNCHANGED <<disk, old, store>>
           \/ \E st \in StoreRecords :
                /\ store' = [store EXCEPT ![p] = st] /\ st.created = store[p].created \union {d} /\ st.dir = d /\ st.down = store[p].down
                /\ disk' = IF d \in DOMAIN disk THEN disk ELSE [e \in DOMAIN disk \union {d} |-> IF e = d THEN {} ELSE disk[e]]
                /\ old' = IF d \in DOMAIN disk THEN old ELSE old \ {d}
  <2>1. att[p] \in [Attempts[p] -> AttemptRecords] /\ DOMAIN att = Procs /\ store[p] \in StoreRecords
    BY <1>1 DEF SnapshotTypes
  <2>2. CASE store[p].dir # NoDir /\ store[p].generation = att[p][a].generation
    <3> DEFINE d == store[p].dir
               r == [att[p][a] EXCEPT !.pc = "base", !.dir = d]
    <3>1. d \in Dirs /\ d \in store[p].created /\ d[1] = pid[p]
      BY <1>1, <2>1, <2>2 DEF SnapInv, StoresAreOwn, StoreRecords
    <3>2. r \in AttemptRecords /\ r.pc = "base" /\ r.dir = d
      BY <1>1, <3>1 DEF AttemptRecords, Stages
    <3>3. att' = [att EXCEPT ![p][a] = r] /\ UNCHANGED <<disk, old, store>>
      BY <2>1, <2>2 DEF ConnectionDir
    <3> HIDE DEF r
    <3> QED
      BY <3>1, <3>2, <3>3
  <2>3. CASE ~(store[p].dir # NoDir /\ store[p].generation = att[p][a].generation)
    <3> DEFINE d == <<pid[p], att[p][a].conn>>
               r == [att[p][a] EXCEPT !.pc = "base", !.dir = d]
               st == [store[p] EXCEPT !.dir = d, !.generation = att[p][a].generation, !.created = @ \union {d}]
    <3>1. d \in Dirs /\ d[1] = pid[p] /\ att[p][a].generation \in Nat
      BY <1>1 DEF SnapshotTypes, Dirs, AttemptRecords
    <3>2. r \in AttemptRecords /\ r.pc = "base" /\ r.dir = d
      BY <1>1, <3>1 DEF AttemptRecords, Stages
    <3>3. st \in StoreRecords /\ st.created = store[p].created \union {d} /\ st.dir = d /\ st.down = store[p].down
      BY <2>1, <3>1 DEF StoreRecords
    <3>4. att' = [att EXCEPT ![p][a] = r]
      BY <2>1, <2>3 DEF ConnectionDir
    <3>5. store' = [store EXCEPT ![p] = st]
      BY <2>3 DEF ConnectionDir
    <3>6. disk' = IF d \in DOMAIN disk THEN disk ELSE [e \in DOMAIN disk \union {d} |-> IF e = d THEN {} ELSE disk[e]]
      BY <2>3, Zenon DEF ConnectionDir
    <3>7. old' = IF d \in DOMAIN disk THEN old ELSE old \ {d}
      BY <2>3 DEF ConnectionDir
    <3> HIDE DEF r, st, d
    <3> QED
      BY <3>1, <3>2, <3>3, <3>4, <3>5, <3>6, <3>7
  <2> QED
    BY <2>2, <2>3
<1>4. /\ DOMAIN att' = Procs /\ \A q \in Procs : att'[q] \in [Attempts[q] -> AttemptRecords]
      /\ att'[p][a] = r
      /\ \A q \in Procs : \A b \in Attempts[q] : q # p \/ b # a => att'[q][b] = att[q][b]
  <2>1. DOMAIN att = Procs /\ \A q \in Procs : att[q] \in [Attempts[q] -> AttemptRecords]
    BY <1>1 DEF SnapshotTypes
  <2>2. att'[p] = [att[p] EXCEPT ![a] = r] /\ DOMAIN att' = Procs /\ \A q \in Procs : q # p => att'[q] = att[q]
    BY <1>3, <2>1
  <2> QED
    BY <2>1, <2>2
<1>5. /\ DOMAIN disk \subseteq DOMAIN disk' /\ DOMAIN disk' \subseteq DOMAIN disk \union {d}
      /\ (\A e \in DOMAIN disk : disk'[e] = disk[e]) /\ (\A e \in DOMAIN disk' : e \notin DOMAIN disk => disk'[e] = {})
      /\ old' \subseteq old
  BY <1>3
<1>6. /\ store' \in [Procs -> StoreRecords] /\ d \in store'[p].created /\ store[p].created \subseteq store'[p].created
      /\ store'[p].created \subseteq store[p].created \union {d} /\ store'[p].dir \in {store[p].dir, d} /\ store'[p].down = store[p].down
      /\ \A q \in Procs : q # p => store'[q] = store[q]
  BY <1>1, <1>3 DEF SnapshotTypes
<1>7. SnapshotTypes'
  BY <1>1, <1>4, <1>5, <1>6 DEF SnapshotTypes
<1>8. StoresAreOwn'
  BY <1>1, <1>3, <1>6 DEF SnapInv, StoresAreOwn
<1>9. AttemptsAreListed'
  <2> SUFFICES ASSUME NEW q \in Procs, NEW b \in Attempts[q]
               PROVE  LET e == att'[q][b].dir IN
                      /\ att'[q][b].pc \in {"pruning", "base"} => mu'[q] = b
                      /\ e # NoDir => e[1] = pid'[q]
                      /\ e # NoDir /\ cleanup'[q] \in {"no", "asked"} => e \in store'[q].created
                      /\ cleanup'[q] = "removing" => e \in todo'[q] \/ e \notin DOMAIN disk'
                      /\ cleanup'[q] = "done" => e \notin DOMAIN disk'
    BY DEF AttemptsAreListed
  <2>1. CASE q = p /\ b = a
    BY <1>1, <1>2, <1>3, <1>4, <1>6, <2>1
  <2>2. CASE q = p /\ b # a
    BY <1>1, <1>2, <1>4, <1>6, <2>2 DEF SnapInv, AttemptsAreListed
  <2>3. CASE q # p
    <3>1. pid[q] # pid[p] /\ d # NoDir
      BY <1>1, <2>3, SnapshotAssumption DEF SnapshotTypes
    <3>2. att[q][b].dir # d
      BY <1>3, <3>1 DEF SnapInv, AttemptsAreListed
    <3> QED
      BY <1>1, <1>4, <1>5, <1>6, <2>3, <3>2 DEF SnapInv, AttemptsAreListed
  <2> QED
    BY <2>1, <2>2, <2>3
<1>10. FilesArePlaced'
  <2>1. \A q \in Procs : \A b \in Attempts[q] : att[q][b].pc \in {"written", "published", "stale"} => att'[q][b] = att[q][b]
    BY <1>1, <1>4
  <2> QED
    BY <1>5, <2>1 DEF SnapInv, FilesArePlaced
<1>11. FilesAreKept'
  <2>1. \A q \in Procs : \A b \in Attempts[q] : OnDisk(q, b) => OnDisk(q, b)'
    BY <1>5 DEF OnDisk
  <2> QED
    BY <1>1, <1>3, <1>4, <2>1 DEF SnapInv, FilesAreKept
<1> QED
  BY <1>7, <1>8, <1>9, <1>10, <1>11 DEF SnapInv

\* A file is another file's only if it is of the same attempt.
LEMMA FilesAreTheirOwn ==
  ASSUME SnapInv, NEW d \in DOMAIN disk, NEW p \in Procs, NEW a \in Attempts[p], <<p, a>> \in disk[d]
  PROVE  d = att[p][a].dir /\ att[p][a].pc \in {"written", "published", "stale"}
<1>1. PICK q \in Procs : \E b \in Attempts[q] :
        <<p, a>> = <<q, b>> /\ d = att[q][b].dir /\ att[q][b].pc \in {"written", "published", "stale"}
  BY DEF SnapInv, FilesArePlaced
<1> QED
  BY <1>1

\* The attempt writes its file, or fails.
LEMMA WriteKeepsSnapshots ==
  ASSUME SnapInv, NEW p \in Procs, NEW a \in Attempts[p], WriteFile(p, a)
  PROVE  SnapInv'
<1>1. SnapshotTypes /\ UNCHANGED <<pid, conn, connGeneration, bound, store, todo, victim, cleanup, idled>>
      /\ att[p][a].pc = "base" /\ mu' = [mu EXCEPT ![p] = Nobody]
  BY DEF SnapInv, WriteFile, At
<1>2. mu[p] = a
  BY <1>1, SnapshotAssumption DEF SnapInv, AttemptsAreListed
<1>3. PICK s \in {"gone", "written"} :
        /\ Goes(p, a, s) /\ old' \subseteq old
        /\ \/ s = "gone" /\ disk' = disk
           \/ s = "written" /\ att[p][a].dir \in DOMAIN disk /\ disk' = [disk EXCEPT ![att[p][a].dir] = @ \union {<<p, a>>}]
  BY DEF WriteFile
<1>4. /\ DOMAIN att' = Procs /\ \A q \in Procs : att'[q] \in [Attempts[q] -> AttemptRecords]
      /\ att'[p][a].pc = s /\ att'[p][a].dir = att[p][a].dir
      /\ \A q \in Procs : \A b \in Attempts[q] : q # p \/ b # a => att'[q][b] = att[q][b]
  <2>1. s \in Stages /\ Goes(p, a, s)
    BY <1>3 DEF Stages
  <2> QED
    BY <2>1, AttemptGoes
<1>5. /\ DOMAIN disk' = DOMAIN disk
      /\ \A e \in DOMAIN disk : /\ disk[e] \subseteq disk'[e] /\ disk'[e] \subseteq disk[e] \union {<<p, a>>}
                                /\ <<p, a>> \in disk'[e] => s = "written" /\ e = att[p][a].dir
      /\ s = "written" => att[p][a].dir \in DOMAIN disk /\ <<p, a>> \in disk'[att[p][a].dir]
  <2>1. \A e \in DOMAIN disk : <<p, a>> \notin disk[e]
    BY <1>1, FilesAreTheirOwn
  <2> QED
    BY <1>3, <2>1
<1>6. SnapshotTypes'
  <2>1. mu' \in [Procs -> Nat] /\ \A q \in Procs : mu'[q] \in Attempts[q] \union {Nobody}
    BY <1>1 DEF SnapshotTypes, Nobody
  <2> QED
    BY <1>1, <1>3, <1>4, <1>5, <2>1 DEF SnapshotTypes
<1>7. StoresAreOwn'
  BY <1>1 DEF SnapInv, StoresAreOwn, SnapshotTypes
<1>8. AttemptsAreListed'
  <2> SUFFICES ASSUME NEW q \in Procs, NEW b \in Attempts[q]
               PROVE  LET e == att'[q][b].dir IN
                      /\ att'[q][b].pc \in {"pruning", "base"} => mu'[q] = b
                      /\ e # NoDir => e[1] = pid'[q]
                      /\ e # NoDir /\ cleanup'[q] \in {"no", "asked"} => e \in store'[q].created
                      /\ cleanup'[q] = "removing" => e \in todo'[q] \/ e \notin DOMAIN disk'
                      /\ cleanup'[q] = "done" => e \notin DOMAIN disk'
    BY DEF AttemptsAreListed
  <2>1. att'[q][b].pc \in {"pruning", "base"} => mu'[q] = b
    <3>1. CASE q = p /\ b = a
      BY <1>3, <1>4, <3>1
    <3>2. CASE q = p /\ b # a
      BY <1>2, <1>4, <3>2 DEF SnapInv, AttemptsAreListed
    <3>3. CASE q # p
      BY <1>1, <1>4, <3>3 DEF SnapInv, AttemptsAreListed, SnapshotTypes
    <3> QED
      BY <3>1, <3>2, <3>3
  <2>2. att'[q][b].dir = att[q][b].dir
    BY <1>4
  <2> QED
    BY <1>1, <1>5, <2>1, <2>2 DEF SnapInv, AttemptsAreListed
<1>9. FilesArePlaced'
  <2> SUFFICES ASSUME NEW e \in DOMAIN disk, NEW x \in disk'[e]
               PROVE  \E q \in Procs : \E b \in Attempts[q] :
                        x = <<q, b>> /\ e = att'[q][b].dir /\ att'[q][b].pc \in {"written", "published", "stale"}
    BY <1>5 DEF FilesArePlaced
  <2>1. CASE x = <<p, a>>
    BY <1>4, <1>5, <2>1
  <2>2. CASE x # <<p, a>>
    <3>1. x \in disk[e]
      BY <1>5, <2>2
    <3>2. PICK q \in Procs : \E b \in Attempts[q] :
            x = <<q, b>> /\ e = att[q][b].dir /\ att[q][b].pc \in {"written", "published", "stale"}
      BY <3>1 DEF SnapInv, FilesArePlaced
    <3> QED
      BY <1>4, <2>2, <3>2
  <2> QED
    BY <2>1, <2>2
<1>10. FilesAreKept'
  <2>1. \A q \in Procs : \A b \in Attempts[q] : OnDisk(q, b) => OnDisk(q, b)'
    BY <1>5 DEF OnDisk
  <2>2. s = "written" => OnDisk(p, a)'
    BY <1>5 DEF OnDisk
  <2> QED
    BY <1>1, <1>3, <1>4, <2>1, <2>2 DEF SnapInv, FilesAreKept
<1> QED
  BY <1>6, <1>7, <1>8, <1>9, <1>10 DEF SnapInv

\* What was written is published, or found stale and withdrawn.
LEMMA PublishKeepsSnapshots ==
  ASSUME SnapInv, NEW p \in Procs, NEW a \in Attempts[p], Publish(p, a) \/ RemoveCandidate(p, a)
  PROVE  SnapInv'
<1>1. SnapshotTypes /\ UNCHANGED <<old, pid, conn, connGeneration, bound, store, mu, todo, victim, cleanup, idled>>
  BY DEF SnapInv, Publish, RemoveCandidate
<1>2. PICK s \in {"published", "stale", "gone"} :
        /\ Goes(p, a, s) /\ att[p][a].pc \in {"written", "stale"}
        /\ \/ s # "gone" /\ att[p][a].pc = "written" /\ disk' = disk
           \/ s = "gone" /\ disk' = Removed(p, a)
  BY DEF Publish, RemoveCandidate, At
<1>3. /\ DOMAIN att' = Procs /\ \A q \in Procs : att'[q] \in [Attempts[q] -> AttemptRecords]
      /\ att'[p][a].pc = s /\ att'[p][a].dir = att[p][a].dir
      /\ \A q \in Procs : \A b \in Attempts[q] : q # p \/ b # a => att'[q][b] = att[q][b]
  <2>1. s \in Stages /\ Goes(p, a, s)
    BY <1>2 DEF Stages
  <2> QED
    BY <2>1, AttemptGoes
<1>4. /\ DOMAIN disk' = DOMAIN disk
      /\ \A e \in DOMAIN disk : /\ disk'[e] \subseteq disk[e] /\ disk[e] \ {<<p, a>>} \subseteq disk'[e]
                                /\ s # "gone" => disk'[e] = disk[e]
                                /\ s = "gone" => <<p, a>> \notin disk'[e]
  <2>1. \A e \in DOMAIN disk : <<p, a>> \in disk[e] => e = att[p][a].dir
    BY FilesAreTheirOwn
  <2> QED
    BY <1>2, <2>1 DEF Removed
<1>5. SnapshotTypes'
  BY <1>1, <1>3, <1>4 DEF SnapshotTypes
<1>6. StoresAreOwn'
  BY <1>1 DEF SnapInv, StoresAreOwn
<1>7. AttemptsAreListed'
  BY <1>1, <1>2, <1>3, <1>4 DEF SnapInv, AttemptsAreListed
<1>8. FilesArePlaced'
  <2> SUFFICES ASSUME NEW e \in DOMAIN disk, NEW x \in disk'[e]
               PROVE  \E q \in Procs : \E b \in Attempts[q] :
                        x = <<q, b>> /\ e = att'[q][b].dir /\ att'[q][b].pc \in {"written", "published", "stale"}
    BY <1>4 DEF FilesArePlaced
  <2>1. x \in disk[e]
    BY <1>4
  <2>2. PICK q \in Procs : \E b \in Attempts[q] :
          x = <<q, b>> /\ e = att[q][b].dir /\ att[q][b].pc \in {"written", "published", "stale"}
    BY <2>1 DEF SnapInv, FilesArePlaced
  <2>3. x = <<p, a>> => s \in {"published", "stale"}
    BY <1>2, <1>4
  <2> QED
    BY <1>3, <2>2, <2>3
<1>9. FilesAreKept'
  <2> SUFFICES ASSUME NEW q \in Procs, NEW b \in Attempts[q], att'[q][b].pc \in {"written", "published"}, cleanup[q] \in {"no", "asked"}
               PROVE  OnDisk(q, b)' \/ att'[q][b].dir \in idled
    BY <1>1 DEF FilesAreKept
  <2>1. att[q][b].pc \in {"written", "published"} /\ att'[q][b].dir = att[q][b].dir
    BY <1>2, <1>3
  <2>2. OnDisk(q, b) \/ att[q][b].dir \in idled
    BY <2>1 DEF SnapInv, FilesAreKept
  <2>3. OnDisk(q, b) => OnDisk(q, b)'
    <3>1. CASE s # "gone"
      BY <1>4, <3>1 DEF OnDisk
    <3>2. CASE s = "gone"
      <4>1. <<q, b>> # <<p, a>>
        BY <1>3, <3>2
      <4> QED
        BY <1>4, <4>1 DEF OnDisk
    <3> QED
      BY <3>1, <3>2
  <2> QED
    BY <2>1, <2>2, <2>3
<1> QED
  BY <1>5, <1>6, <1>7, <1>8, <1>9 DEF SnapInv

\* The coordinator, Stop and the cleanup worker: the list is what every attempt wrote below,
\* and names nothing of another process.
LEMMA ServerKeepsSnapshots ==
  ASSUME SnapInv, NEW p \in Procs, Stop(p) \/ RemoveAll(p) \/ \E c \in Conns : Switch(p, c)
  PROVE  SnapInv'
<1>1. SnapshotTypes /\ UNCHANGED <<old, pid, mu, victim, att, idled>>
  BY DEF SnapInv, Stop, RemoveAll, Switch
<1>2. CASE \E c \in Conns : Switch(p, c)
  <2>1. UNCHANGED <<disk, bound, store, todo, cleanup>> /\ conn' \in [Procs -> Conns] /\ connGeneration' \in [Procs -> Nat]
    BY <1>1, <1>2 DEF Switch, SnapshotTypes
  <2>2. SnapshotTypes'
    BY <1>1, <2>1 DEF SnapshotTypes
  <2> QED
    BY <1>1, <2>1, <2>2 DEF SnapInv, StoresAreOwn, AttemptsAreListed, FilesArePlaced, FilesAreKept, OnDisk
<1>3. CASE Stop(p)
  <2> DEFINE st == [store[p] EXCEPT !.down = TRUE]
  <2>1. st \in StoreRecords /\ st.down /\ st.created = store[p].created /\ st.dir = store[p].dir
    <3>1. store[p] \in StoreRecords
      BY <1>1 DEF SnapshotTypes
    <3>2. st \in StoreRecords /\ st.created = store[p].created /\ st.dir = store[p].dir
      BY <3>1 DEF StoreRecords
    <3>3. st.down = TRUE
      BY <3>1 DEF StoreRecords
    <3> QED
      BY <3>2, <3>3
  <2>2. /\ cleanup[p] = "no" /\ cleanup' = [cleanup EXCEPT ![p] = "asked"] /\ bound' = [bound EXCEPT ![p] = FALSE]
        /\ store' = [store EXCEPT ![p] = st] /\ UNCHANGED <<disk, conn, connGeneration, todo>>
    BY <1>3 DEF Stop
  <2> HIDE DEF st
  <2>3. /\ store'[p] = st /\ cleanup'[p] = "asked"
        /\ \A q \in Procs : q # p => store'[q] = store[q] /\ cleanup'[q] = cleanup[q]
    BY <1>1, <2>2 DEF SnapshotTypes
  <2>4. SnapshotTypes'
    BY <1>1, <2>1, <2>2 DEF SnapshotTypes
  <2>5. StoresAreOwn'
    BY <1>1, <2>1, <2>2, <2>3 DEF SnapInv, StoresAreOwn
  <2>6. AttemptsAreListed'
    BY <1>1, <2>1, <2>2, <2>3 DEF SnapInv, AttemptsAreListed
  <2>7. FilesArePlaced' /\ FilesAreKept'
    BY <1>1, <2>2, <2>3 DEF SnapInv, FilesArePlaced, FilesAreKept, OnDisk
  <2> QED
    BY <2>4, <2>5, <2>6, <2>7 DEF SnapInv
<1>4. CASE cleanup[p] = "asked" /\ RemoveAll(p)
  <2> DEFINE st == [EmptyStore EXCEPT !.pruned = store[p].pruned, !.down = store[p].down]
  <2>1. st \in StoreRecords /\ st.down = store[p].down /\ st.created = {} /\ st.dir = NoDir /\ store[p].created \in SUBSET Dirs
    BY <1>1 DEF SnapshotTypes, StoreRecords, EmptyStore
  <2>2. /\ mu[p] = Nobody /\ cleanup' = [cleanup EXCEPT ![p] = "removing"] /\ todo' = [todo EXCEPT ![p] = store[p].created]
        /\ store' = [store EXCEPT ![p] = st] /\ UNCHANGED <<disk, conn, connGeneration, bound>>
    BY <1>4 DEF RemoveAll
  <2> HIDE DEF st
  <2>3. /\ store'[p] = st /\ cleanup'[p] = "removing" /\ todo'[p] = store[p].created
        /\ \A q \in Procs : q # p => store'[q] = store[q] /\ cleanup'[q] = cleanup[q] /\ todo'[q] = todo[q]
    BY <1>1, <2>2 DEF SnapshotTypes
  <2>4. SnapshotTypes'
    BY <1>1, <2>1, <2>2 DEF SnapshotTypes
  <2>5. StoresAreOwn'
    BY <1>1, <1>4, <2>1, <2>2, <2>3 DEF SnapInv, StoresAreOwn
  <2>6. AttemptsAreListed'
    <3>1. NoDir \notin DOMAIN disk
      BY <1>1, SnapshotAssumption DEF SnapshotTypes
    <3>2. \A a \in Attempts[p] : att[p][a].dir \in store[p].created \/ att[p][a].dir = NoDir
      BY <1>4 DEF SnapInv, AttemptsAreListed
    <3> QED
      BY <1>1, <2>2, <2>3, <3>1, <3>2 DEF SnapInv, AttemptsAreListed
  <2>7. FilesArePlaced' /\ FilesAreKept'
    BY <1>1, <1>4, <2>2, <2>3 DEF SnapInv, FilesArePlaced, FilesAreKept, OnDisk
  <2> QED
    BY <2>4, <2>5, <2>6, <2>7 DEF SnapInv
<1>5. CASE cleanup[p] = "removing" /\ RemoveAll(p)
  <2>1. UNCHANGED <<conn, connGeneration, bound, store>>
    BY <1>5 DEF RemoveAll
  <2>2. CASE todo[p] = {}
    <3>1. cleanup' = [cleanup EXCEPT ![p] = "done"] /\ disk' = disk /\ todo' = todo
      BY <1>5, <2>2 DEF RemoveAll
    <3>2. cleanup'[p] = "done" /\ \A q \in Procs : q # p => cleanup'[q] = cleanup[q]
      BY <1>1, <3>1 DEF SnapshotTypes
    <3>3. SnapshotTypes'
      BY <1>1, <2>1, <3>1 DEF SnapshotTypes
    <3>4. StoresAreOwn'
      BY <1>1, <1>5, <2>1, <3>1, <3>2 DEF SnapInv, StoresAreOwn
    <3>5. AttemptsAreListed'
      BY <1>1, <1>5, <2>1, <2>2, <3>1, <3>2 DEF SnapInv, AttemptsAreListed
    <3>6. FilesArePlaced' /\ FilesAreKept'
      BY <1>1, <1>5, <3>1, <3>2 DEF SnapInv, FilesArePlaced, FilesAreKept, OnDisk
    <3> QED
      BY <3>3, <3>4, <3>5, <3>6 DEF SnapInv
  <2>3. CASE todo[p] # {}
    <3>1. PICK d \in todo[p] : /\ disk' = Without(d) /\ todo' = [todo EXCEPT ![p] = @ \ {d}] /\ cleanup' = cleanup
      BY <1>5, <2>3 DEF RemoveAll
    <3>2. DOMAIN disk' = DOMAIN disk \ {d} /\ \A e \in DOMAIN disk' : disk'[e] = disk[e]
      BY <3>1 DEF Without
    <3>3. todo'[p] = todo[p] \ {d} /\ \A q \in Procs : q # p => todo'[q] = todo[q]
      BY <1>1, <3>1 DEF SnapshotTypes
    <3>4. d[1] = pid[p] /\ d \in Dirs
      BY <1>1, <1>5 DEF SnapInv, StoresAreOwn, SnapshotTypes
    <3>5. SnapshotTypes'
      BY <1>1, <2>1, <3>1, <3>2 DEF SnapshotTypes
    <3>6. StoresAreOwn'
      BY <1>1, <2>1, <3>1, <3>3 DEF SnapInv, StoresAreOwn
    <3>7. AttemptsAreListed'
      BY <1>1, <2>1, <3>1, <3>2, <3>3 DEF SnapInv, AttemptsAreListed
    <3>8. FilesArePlaced'
      BY <1>1, <3>2 DEF SnapInv, FilesArePlaced
    <3>9. FilesAreKept'
      <4> SUFFICES ASSUME NEW q \in Procs, NEW b \in Attempts[q], att[q][b].pc \in {"written", "published"}, cleanup[q] \in {"no", "asked"},
                          att[q][b].dir \notin idled
                   PROVE  OnDisk(q, b)'
        BY <1>1, <3>1 DEF FilesAreKept
      <4>1. PICK e \in DOMAIN disk : <<q, b>> \in disk[e]
        BY DEF SnapInv, FilesAreKept, OnDisk
      <4>2. e = att[q][b].dir
        BY <4>1, FilesAreTheirOwn
      <4>3. e # NoDir /\ pid[q] # pid[p]
        BY <1>1, <1>5, <4>1, SnapshotAssumption DEF SnapshotTypes
      <4>4. e # d
        BY <3>4, <4>2, <4>3 DEF SnapInv, AttemptsAreListed
      <4> QED
        BY <3>2, <4>1, <4>4 DEF OnDisk
    <3> QED
      BY <3>5, <3>6, <3>7, <3>8, <3>9 DEF SnapInv
  <2> QED
    BY <2>2, <2>3
<1> QED
  BY <1>2, <1>3, <1>4, <1>5 DEF RemoveAll

\* A process dies and another takes its place, under a pid no live one has.
LEMMA CrashKeepsSnapshots ==
  ASSUME SnapInv, NEW p \in Procs, NEW n \in Pids, Crash(p, n)
  PROVE  SnapInv'
<1>1. /\ SnapshotTypes /\ UNCHANGED <<old, conn, idled>> /\ \A q \in Procs \ {p} : pid[q] # n
      /\ pid' = [pid EXCEPT ![p] = n] /\ connGeneration' = [connGeneration EXCEPT ![p] = 1]
      /\ bound' = [bound EXCEPT ![p] = TRUE] /\ store' = [store EXCEPT ![p] = EmptyStore]
      /\ mu' = [mu EXCEPT ![p] = Nobody] /\ todo' = [todo EXCEPT ![p] = {}] /\ victim' = [victim EXCEPT ![p] = NoDir]
      /\ cleanup' = [cleanup EXCEPT ![p] = "no"] /\ att' = [att EXCEPT ![p] = [a \in Attempts[p] |-> Fresh]]
      /\ disk' = [d \in DOMAIN disk |-> disk[d] \ {x \in disk[d] : x[1] = p}]
  BY DEF Crash, SnapInv
<1>2. Fresh \in AttemptRecords /\ Fresh.pc = "idle" /\ Fresh.dir = NoDir
  BY SnapshotAssumption DEF Fresh, AttemptRecords, Stages
<1>3. EmptyStore \in StoreRecords /\ EmptyStore.created = {} /\ EmptyStore.dir = NoDir
  BY DEF EmptyStore, StoreRecords
<1>4. /\ store'[p] = EmptyStore /\ mu'[p] = Nobody /\ victim'[p] = NoDir /\ cleanup'[p] = "no"
      /\ \A a \in Attempts[p] : att'[p][a] = Fresh
      /\ \A q \in Procs : q # p => /\ store'[q] = store[q] /\ mu'[q] = mu[q] /\ victim'[q] = victim[q]
                                   /\ cleanup'[q] = cleanup[q] /\ todo'[q] = todo[q] /\ att'[q] = att[q] /\ pid'[q] = pid[q]
  BY <1>1 DEF SnapshotTypes
<1>5. DOMAIN disk' = DOMAIN disk /\ \A d \in DOMAIN disk : \A x : x \in disk'[d] <=> x \in disk[d] /\ x[1] # p
  BY <1>1
<1>6. SnapshotTypes'
  <2>1. /\ connGeneration' \in [Procs -> Nat] /\ bound' \in [Procs -> BOOLEAN] /\ store' \in [Procs -> StoreRecords]
        /\ mu' \in [Procs -> Nat] /\ victim' \in [Procs -> Dirs \union {NoDir}] /\ todo' \in [Procs -> SUBSET Dirs]
        /\ cleanup' \in [Procs -> {"no", "asked", "removing", "done"}] /\ pid' \in [Procs -> Pids]
    BY <1>1, <1>3 DEF SnapshotTypes, Nobody
  <2>2. DOMAIN att' = Procs /\ \A q \in Procs : att'[q] \in [Attempts[q] -> AttemptRecords] /\ mu'[q] \in Attempts[q] \union {Nobody}
    BY <1>1, <1>2 DEF SnapshotTypes
  <2>3. \A q, r \in Procs : pid'[q] = pid'[r] => q = r
    BY <1>1 DEF SnapshotTypes
  <2> QED
    BY <1>1, <1>5, <2>1, <2>2, <2>3 DEF SnapshotTypes
<1>7. StoresAreOwn'
  BY <1>1, <1>3, <1>4 DEF SnapInv, StoresAreOwn
<1>8. AttemptsAreListed'
  BY <1>1, <1>2, <1>4, <1>5 DEF SnapInv, AttemptsAreListed
<1>9. FilesArePlaced'
  <2> SUFFICES ASSUME NEW d \in DOMAIN disk, NEW x \in disk'[d]
               PROVE  \E q \in Procs : \E b \in Attempts[q] :
                        x = <<q, b>> /\ d = att'[q][b].dir /\ att'[q][b].pc \in {"written", "published", "stale"}
    BY <1>5 DEF FilesArePlaced
  <2>1. PICK q \in Procs : \E b \in Attempts[q] :
          x = <<q, b>> /\ d = att[q][b].dir /\ att[q][b].pc \in {"written", "published", "stale"}
    BY <1>5 DEF SnapInv, FilesArePlaced
  <2>2. q # p
    BY <1>5, <2>1
  <2> QED
    BY <1>4, <2>1, <2>2
<1>10. FilesAreKept'
  <2> SUFFICES ASSUME NEW q \in Procs, NEW b \in Attempts[q], att'[q][b].pc \in {"written", "published"}, cleanup'[q] \in {"no", "asked"}
               PROVE  OnDisk(q, b)' \/ att'[q][b].dir \in idled
    BY <1>1 DEF FilesAreKept
  <2>1. q # p
    BY <1>2, <1>4
  <2>2. OnDisk(q, b) \/ att[q][b].dir \in idled
    BY <1>4, <2>1 DEF SnapInv, FilesAreKept
  <2>3. OnDisk(q, b) => OnDisk(q, b)'
    BY <1>5, <2>1 DEF OnDisk
  <2> QED
    BY <1>4, <2>1, <2>2, <2>3
<1> QED
  BY <1>6, <1>7, <1>8, <1>9, <1>10 DEF SnapInv

\* SnapInv is an invariant of the definition snapshots.
THEOREM SnapshotInvariant == StoreSpec => []SnapInv
<1>1. SnapInv /\ [StoreNext]_storeVars => SnapInv'
  <2> SUFFICES ASSUME SnapInv, [StoreNext]_storeVars PROVE SnapInv'
    OBVIOUS
  <2>1. ASSUME NEW d \in Dirs, Ages(d) PROVE SnapInv'
    BY <2>1 DEF Ages, SnapInv, SnapshotTypes, StoresAreOwn, AttemptsAreListed, FilesArePlaced, FilesAreKept, OnDisk
  <2>2. CASE UNCHANGED storeVars
    BY <2>2 DEF storeVars, SnapInv, SnapshotTypes, StoresAreOwn, AttemptsAreListed, FilesArePlaced, FilesAreKept, OnDisk
  <2>3. \A p \in Followed : p \in Procs
    BY SnapshotAssumption
  <2> QED
    BY <2>1, <2>2, <2>3, BeginKeepsSnapshots, LockKeepsSnapshots, PruneKeepsSnapshots, DirKeepsSnapshots, WriteKeepsSnapshots,
       PublishKeepsSnapshots, ServerKeepsSnapshots, CrashKeepsSnapshots DEF StoreNext
<1> QED
  BY <1>1, InitSnapInv, PTL DEF StoreSpec

\* What the client was given is on disk, what it was not is withdrawn, and nothing is left
\* by a process that cleaned up, for any number of processes, attempts and crashes
\* (SnapshotsAccounted).
THEOREM SnapshotsAreAccountedFor == StoreSpec => []SnapshotsAccounted
<1>1. ASSUME SnapInv PROVE SnapshotsAccounted
  <2>1. \A d \in DOMAIN disk : \A x \in disk[d] : x[2] \in Attempts[x[1]]
    BY <1>1 DEF SnapInv, FilesArePlaced
  <2>2. StoreTypeOK
    BY <1>1, <2>1 DEF SnapInv, SnapshotTypes, StoreTypeOK
  <2>3. ASSUME NEW p \in Procs, NEW a \in Attempts[p]
        PROVE  /\ At(p, a, "published") /\ cleanup[p] \in {"no", "asked"} /\ ~OnDisk(p, a) => att[p][a].dir \in idled
               /\ att[p][a].pc \in {"idle", "wants", "gone"} => ~OnDisk(p, a)
               /\ cleanup[p] = "done" => att[p][a].dir \notin DOMAIN disk
    <3>1. OnDisk(p, a) => att[p][a].pc \in {"written", "published", "stale"}
      BY <1>1, FilesAreTheirOwn DEF OnDisk
    <3> QED
      BY <1>1, <3>1 DEF SnapInv, FilesAreKept, AttemptsAreListed, At
  <2> QED
    BY <2>2, <2>3 DEF SnapshotsAccounted
<1> QED
  BY <1>1, SnapshotInvariant, PTL

=============================================================================
