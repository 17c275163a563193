----------------------------- MODULE Diagnostics -----------------------------
(***************************************************************************)
(* What diagnostics the client is shown (handler/diagnostics_scheduler.go, *)
(* handler/diagnostics.go, and the handlers that call them): documents     *)
(* marked dirty by the read loop, by the connection coordinator and by     *)
(* metadata events, one consumer that analyses them, and the fence a       *)
(* result passes before it is sent.                                        *)
(*                                                                         *)
(* A document is a number, its text a revision.  The catalogue an analysis *)
(* used (lease, generation and revision of the snapshot) is one number, 0  *)
(* without a lease.  stateMu makes the look at the server one step;        *)
(* diagnosticsPublishMu is held from the fence to the end of the send.     *)
(***************************************************************************)
EXTENDS Naturals, FiniteSets

CONSTANTS
  Docs,         \* documents, numbered in the order of their names
  Dialects,     \* driver variants a configuration or a connection has
  MaxRevision, MaxPolicy, MaxGeneration, MaxCatalog,   \* bounds on what changes
  MayStop                                              \* bound: whether the server is stopped

ASSUME DiagnosticsAssumption ==
  /\ Docs \subseteq Nat \ {0} /\ IsFiniteSet(Docs) /\ Dialects # {} /\ MayStop \in BOOLEAN
  /\ {MaxRevision, MaxPolicy, MaxGeneration, MaxCatalog} \subseteq Nat

VARIABLES
  files, fileRevision, policyRevision,
  connGeneration, boundGeneration, variant,
  catalog, catalogs, event,     \* the bound lease's snapshot, snapshots so far, an unread event
  allOpen, documents, wake,     \* diagnosticAllOpen, diagnosticDocuments, diagnosticsWake
  reader, coordinator, watcher, \* goroutines that mark and signal
  consumer,
  client,                       \* what the client shows for each document
  lifecycleDone

docVars  == <<files, fileRevision, policyRevision>>
connVars == <<connGeneration, boundGeneration, variant>>
catVars  == <<catalog, catalogs, event>>
workVars == <<allOpen, documents, wake>>
vars == <<docVars, connVars, catVars, workVars, reader, coordinator, watcher, consumer, client, lifecycleDone>>

NoDoc == 0
Stamps == [revision : 0..MaxRevision, policy : 0..MaxPolicy, generation : 0..MaxGeneration,
           variant : Dialects, catalog : 0..MaxCatalog]
Nothing == [revision |-> 0, policy |-> 0, generation |-> 0, variant |-> CHOOSE v \in Dialects : TRUE, catalog |-> 0]

ConsumerAt == {"select", "take", "list", "next", "analyse", "send", "done"}
Consumers == [at : ConsumerAt, todo : SUBSET Docs, doc : Docs \union {NoDoc}, snap : Stamps]

TypeOK ==
  /\ files \in [Docs -> 0..MaxRevision] /\ fileRevision \in 0..MaxRevision /\ policyRevision \in 0..MaxPolicy
  /\ connGeneration \in 0..MaxGeneration /\ boundGeneration \in 0..connGeneration /\ variant \in Dialects
  /\ catalog \in 0..catalogs /\ catalogs \in 0..MaxCatalog /\ event \in BOOLEAN
  /\ allOpen \in BOOLEAN /\ documents \subseteq Docs /\ wake \in BOOLEAN /\ (allOpen => documents = {})
  /\ reader \in [at : {"idle", "mark", "markAll", "signal", "clear", "stop", "stopped"}, doc : Docs \union {NoDoc}]
  /\ reader.at \in {"mark", "clear"} => reader.doc \in Docs
  /\ coordinator \in {"idle", "begun", "signalBegun", "open", "bind", "bound", "signalBound"}
  /\ watcher \in {"idle", "mark", "signal", "done"}
  /\ consumer \in Consumers
  /\ client \in [Docs -> Stamps] /\ lifecycleDone \in BOOLEAN

\* Dialects are interchangeable, so it does not matter which one comes first.
Init ==
  /\ files = [d \in Docs |-> 0] /\ fileRevision = 0 /\ policyRevision = 0
  /\ connGeneration = 0 /\ boundGeneration = 0 /\ variant = Nothing.variant
  /\ catalog = 0 /\ catalogs = 0 /\ event = FALSE
  /\ allOpen = FALSE /\ documents = {} /\ wake = FALSE
  /\ reader = [at |-> "idle", doc |-> NoDoc] /\ coordinator = "idle" /\ watcher = "idle"
  /\ consumer = [at |-> "select", todo |-> {}, doc |-> NoDoc, snap |-> Nothing]
  /\ client = [d \in Docs |-> Nothing] /\ lifecycleDone = FALSE

Open == {d \in Docs : files[d] # 0}

PublishMuFree == consumer.at # "send"

\* captureEditorSnapshot: another generation's lease is not looked at.
Captured(d) ==
  [revision |-> files[d], policy |-> policyRevision, generation |-> connGeneration, variant |-> variant,
   catalog |-> IF connGeneration = boundGeneration THEN catalog ELSE 0]

-----------------------------------------------------------------------------
(* Marking and signalling.                                                 *)

MarkDocument(d) ==
  /\ documents' = IF allOpen THEN documents ELSE documents \union {d}
  /\ UNCHANGED <<allOpen, wake>>

MarkAll == allOpen' = TRUE /\ documents' = {} /\ UNCHANGED wake

\* One slot: a signal on top of another is dropped.
Signal == wake' = (wake \/ ~lifecycleDone) /\ UNCHANGED <<allOpen, documents>>

-----------------------------------------------------------------------------
(* The read loop: one handler at a time.                                   *)

UnlessReader == <<connVars, catVars, coordinator, watcher, consumer, lifecycleDone>>

\* connectionStopped, set for good by Stop
Stopped == reader.at = "stopped"

\* didOpen, didChange, and didSave with the text.
Edits(d) ==
  /\ reader.at = "idle" /\ fileRevision < MaxRevision
  /\ fileRevision' = fileRevision + 1 /\ files' = [files EXCEPT ![d] = fileRevision']
  /\ reader' = [at |-> "mark", doc |-> d]
  /\ UNCHANGED <<policyRevision, workVars, client, UnlessReader>>

Closes(d) ==
  /\ reader.at = "idle" /\ files[d] # 0
  /\ files' = [files EXCEPT ![d] = 0] /\ reader' = [at |-> "clear", doc |-> d]
  /\ UNCHANGED <<fileRevision, policyRevision, workVars, client, UnlessReader>>

\* Slip: the publication lock is not taken.
ClearsAtOnce ==
  /\ reader.at = "clear" /\ reader' = [at |-> "idle", doc |-> NoDoc]
  /\ client' = [client EXCEPT ![reader.doc] = Nothing]
  /\ UNCHANGED <<docVars, workVars, UnlessReader>>

\* clearClosedDiagnostics
Clears ==
  /\ reader.at = "clear" /\ PublishMuFree /\ reader' = [at |-> "idle", doc |-> NoDoc]
  /\ client' = [client EXCEPT ![reader.doc] = Nothing]
  /\ UNCHANGED <<docVars, workVars, UnlessReader>>

ConfigurationChanges ==
  /\ reader.at = "idle" /\ PublishMuFree /\ policyRevision < MaxPolicy
  /\ policyRevision' = policyRevision + 1 /\ reader' = [at |-> "markAll", doc |-> NoDoc]
  /\ UNCHANGED <<files, fileRevision, workVars, client, UnlessReader>>

ReaderMarks ==
  /\ reader' = [at |-> "signal", doc |-> NoDoc]
  /\ \/ reader.at = "mark" /\ MarkDocument(reader.doc)
     \/ reader.at = "markAll" /\ MarkAll
  /\ UNCHANGED <<docVars, client, UnlessReader>>

ReaderSignals ==
  /\ reader.at = "signal" /\ reader' = [at |-> "idle", doc |-> NoDoc] /\ Signal
  /\ UNCHANGED <<docVars, client, UnlessReader>>

\* shutdown, exit, or the end of the read loop: Stop.  A client sends nothing
\* but a second exit after it.
StopCancels ==
  /\ MayStop /\ reader.at = "idle" /\ lifecycleDone' = TRUE /\ reader' = [at |-> "stop", doc |-> NoDoc]
  /\ UNCHANGED <<docVars, connVars, catVars, workVars, coordinator, watcher, consumer, client>>

\* The locked part; what else Stop does is the subject of ConnectionCoordinator.
StopDetaches ==
  /\ reader.at = "stop" /\ reader' = [at |-> "stopped", doc |-> NoDoc] /\ catalog' = 0
  /\ UNCHANGED <<docVars, connVars, catalogs, event, workVars, coordinator, watcher, consumer, client, lifecycleDone>>

-----------------------------------------------------------------------------
(* The coordinator, as attachIntent and bindMetadata touch diagnostics.    *)

UnlessCoordinator == <<docVars, reader, watcher, consumer, client, lifecycleDone>>

\* Slip: a new generation does not wait for a publication under way.
AttemptMayBeginAtOnce == TRUE
AttemptMayBegin == PublishMuFree

\* curDBCfg changes too, and with it the configured variant.
AttemptBegins ==
  /\ coordinator = "idle" /\ AttemptMayBegin /\ ~Stopped /\ connGeneration < MaxGeneration
  /\ connGeneration' = connGeneration + 1 /\ variant' \in Dialects /\ coordinator' = "begun"
  /\ UNCHANGED <<boundGeneration, catVars, workVars, UnlessCoordinator>>

AttemptFails ==
  /\ coordinator = "open" /\ coordinator' = "idle"
  /\ UNCHANGED <<connVars, catVars, workVars, UnlessCoordinator>>

AttemptInstalls ==
  /\ coordinator = "open" /\ PublishMuFree /\ ~lifecycleDone /\ variant' \in Dialects /\ coordinator' = "bind"
  /\ UNCHANGED <<connGeneration, boundGeneration, catVars, workVars, UnlessCoordinator>>

\* A lease for the target, or none when it could not be acquired.
Binds ==
  /\ coordinator = "bind" /\ ~Stopped /\ coordinator' = "bound" /\ boundGeneration' = connGeneration
  /\ \/ catalogs < MaxCatalog /\ catalogs' = catalogs + 1 /\ catalog' = catalogs'
     \/ catalog' = 0 /\ UNCHANGED catalogs
  /\ event' \in BOOLEAN
  /\ UNCHANGED <<connGeneration, variant, workVars, UnlessCoordinator>>

\* Stop came first: the new lease is given back.
Abandons ==
  /\ coordinator = "bind" /\ Stopped /\ coordinator' = "bound"
  /\ UNCHANGED <<connVars, catVars, workVars, UnlessCoordinator>>

\* Slip: the end of an attach is not announced.
CoordinatorMarksOnce ==
  \/ coordinator = "begun" /\ coordinator' = "signalBegun" /\ MarkAll
  \/ coordinator = "bound" /\ coordinator' = "signalBound" /\ UNCHANGED workVars
CoordinatorMarks ==
  \/ coordinator = "begun" /\ coordinator' = "signalBegun" /\ MarkAll
  \/ coordinator = "bound" /\ coordinator' = "signalBound" /\ MarkAll

CoordinatorSignals ==
  \/ coordinator = "signalBegun" /\ coordinator' = "open" /\ Signal
  \/ coordinator = "signalBound" /\ coordinator' = "idle" /\ Signal

CoordinatorQueues == (CoordinatorMarks \/ CoordinatorSignals) /\ UNCHANGED <<connVars, catVars, UnlessCoordinator>>

-----------------------------------------------------------------------------
(* Metadata events.                                                        *)

UnlessWatcher == <<docVars, connVars, reader, coordinator, consumer, client, lifecycleDone>>

\* The store publishes a snapshot, then the event, coalescing with one
\* that is unread.
CatalogChanges ==
  /\ catalog # 0 /\ catalogs < MaxCatalog
  /\ catalogs' = catalogs + 1 /\ catalog' = catalogs' /\ event' = TRUE
  /\ UNCHANGED <<workVars, watcher, UnlessWatcher>>

\* watchMetadataEvents
WatcherReceives ==
  /\ watcher = "idle" /\ event /\ event' = FALSE /\ watcher' = "mark"
  /\ UNCHANGED <<catalog, catalogs, workVars, UnlessWatcher>>

WatcherEnds ==
  /\ watcher = "idle" /\ lifecycleDone /\ watcher' = "done"
  /\ UNCHANGED <<catVars, workVars, UnlessWatcher>>

WatcherQueues ==
  /\ \/ watcher = "mark" /\ watcher' = "signal" /\ MarkAll
     \/ watcher = "signal" /\ watcher' = "idle" /\ Signal
  /\ UNCHANGED <<catVars, UnlessWatcher>>

-----------------------------------------------------------------------------
(* The consumer.                                                           *)

UnlessConsumer == <<docVars, connVars, catVars, reader, coordinator, watcher, lifecycleDone>>

Wakes ==
  /\ consumer.at = "select" /\ wake /\ wake' = FALSE /\ consumer' = [consumer EXCEPT !.at = "take"]
  /\ UNCHANGED <<allOpen, documents, client, UnlessConsumer>>

\* takeDiagnosticWork
Takes ==
  /\ consumer.at = "take"
  /\ consumer' = [consumer EXCEPT !.at = IF allOpen THEN "list" ELSE "next", !.todo = documents]
  /\ allOpen' = FALSE /\ documents' = {}
  /\ UNCHANGED <<wake, client, UnlessConsumer>>

ListsOpen ==
  /\ consumer.at = "list" /\ consumer' = [consumer EXCEPT !.at = "next", !.todo = Open]
  /\ UNCHANGED <<workVars, client, UnlessConsumer>>

WorkIsQueued == allOpen \/ documents # {}

\* Slip: the consumer looks again whatever there is.
LooksAgainAlways == TRUE
LooksAgain == WorkIsQueued

TurnEnds ==
  /\ consumer.at = "next" /\ consumer.todo = {}
  /\ consumer' = [consumer EXCEPT !.at = IF LooksAgain THEN "take" ELSE "select"]
  /\ UNCHANGED <<workVars, client, UnlessConsumer>>

\* Once the server stops, what is left of a turn over all documents is skipped,
\* and one over the marked ones ends the consumer.  Which it was is left open.
TurnIsSkipped ==
  /\ consumer.at = "next" /\ consumer.todo # {} /\ lifecycleDone
  /\ consumer' \in {[consumer EXCEPT !.todo = {}], [consumer EXCEPT !.todo = {}, !.at = "done"]}
  /\ UNCHANGED <<workVars, client, UnlessConsumer>>

\* The documents of a turn are worked on in the order of their names.
PicksDocument ==
  \E d \in consumer.todo :
    LET looked == [consumer EXCEPT !.todo = @ \ {d}] IN
    /\ consumer.at = "next" /\ ~lifecycleDone /\ \A e \in consumer.todo : d <= e
    /\ consumer' = IF files[d] = 0 THEN looked ELSE [looked EXCEPT !.at = "analyse", !.doc = d, !.snap = Captured(d)]
    /\ UNCHANGED <<workVars, client, UnlessConsumer>>

\* diagnosticsSnapshotCurrent
SnapshotCurrent(d, s) ==
  /\ files[d] = s.revision /\ connGeneration = s.generation /\ policyRevision = s.policy /\ variant = s.variant
  /\ s.generation = boundGeneration /\ s.catalog = catalog

Fences ==
  /\ consumer.at = "analyse"
  /\ consumer' = IF SnapshotCurrent(consumer.doc, consumer.snap)
                 THEN [consumer EXCEPT !.at = "send"]
                 ELSE [consumer EXCEPT !.at = "next", !.doc = NoDoc, !.snap = Nothing]
  /\ UNCHANGED <<workVars, client, UnlessConsumer>>

Sends ==
  /\ consumer.at = "send" /\ client' = [client EXCEPT ![consumer.doc] = consumer.snap]
  /\ consumer' = [consumer EXCEPT !.at = "next", !.doc = NoDoc, !.snap = Nothing]
  /\ UNCHANGED <<workVars, UnlessConsumer>>

ConsumerEnds ==
  /\ consumer.at = "select" /\ lifecycleDone /\ consumer' = [consumer EXCEPT !.at = "done"]
  /\ UNCHANGED <<workVars, client, UnlessConsumer>>

Reader == Clears \/ ReaderMarks \/ ReaderSignals \/ StopDetaches

Attempt == AttemptFails \/ AttemptInstalls \/ Binds \/ Abandons \/ CoordinatorQueues

Watcher == WatcherReceives \/ WatcherEnds \/ WatcherQueues

Consumer ==
  \/ Wakes \/ Takes \/ ListsOpen \/ TurnEnds \/ TurnIsSkipped \/ PicksDocument \/ Fences \/ Sends \/ ConsumerEnds

GoroutinesRest == reader.at \in {"idle", "stopped"} /\ coordinator = "idle" /\ watcher \in {"idle", "done"}

AtRest ==
  /\ GoroutinesRest /\ ~event
  /\ consumer.at = "select" /\ ~wake /\ ~lifecycleDone

\* The server waits for the editor, or has stopped.
Rests == GoroutinesRest /\ consumer.at \in {"select", "done"}

Next ==
  \/ (\E d \in Docs : Edits(d) \/ Closes(d)) \/ ConfigurationChanges \/ Reader
  \/ AttemptBegins \/ Attempt
  \/ CatalogChanges \/ Watcher
  \/ Consumer \/ StopCancels
  \/ Rests /\ UNCHANGED vars

\* Handlers, attempts and the consumer go on once begun; nobody has to edit,
\* connect or stop.
Fairness == WF_vars(Reader) /\ WF_vars(Attempt) /\ WF_vars(Watcher) /\ WF_vars(Consumer)

Spec == Init /\ [][Next]_vars

FairSpec == Spec /\ Fairness

-----------------------------------------------------------------------------
(* Properties.                                                             *)

\* A result is sent under the connection, the configuration and the dialect
\* it was computed for, however long the analysis took: the fence and the
\* send share diagnosticsPublishMu with everything that changes those.
Sent(d) == client'[d] # client[d] /\ client'[d].revision # 0

SentWhileCurrent ==
  [][\A d \in Docs : Sent(d) =>
       /\ client'[d].generation = connGeneration /\ client'[d].policy = policyRevision
       /\ client'[d].variant = variant]_vars

\* Closing a document leaves nothing on the client's screen, not even when
\* a result for it was already past the fence.
ClosedIsCleared == TypeOK /\ \A d \in Docs : files[d] = 0 /\ reader # [at |-> "clear", doc |-> d] => client[d] = Nothing

\* When everything has come to rest under a connection whose metadata was
\* bound, or before the first attempt, the client shows every open document
\* as it is now: text, rules, dialect and catalogue.  Work that was marked while
\* the one wake was being consumed would be lost here.
RestIsCurrent ==
  AtRest /\ boundGeneration = connGeneration => \A d \in Open : client[d] = Captured(d)

\* README.md: "sqls publishes diagnostics as you edit", and "Unused hints
\* remain available without a catalog".  At rest, the text the client has
\* diagnostics for is the text it shows, connected or not.
RestIsPublished == AtRest => \A d \in Open : client[d].revision = files[d]

\* The consumer comes back to its select, however much is marked while it works,
\* and ends with the server.
ConsumerReturns ==
  /\ (consumer.at # "select") ~> (consumer.at \in {"select", "done"})
  /\ lifecycleDone ~> (consumer.at = "done")
=============================================================================
