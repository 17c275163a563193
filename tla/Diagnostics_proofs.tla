-------------------------- MODULE Diagnostics_proofs --------------------------
(***************************************************************************)
(* Proofs about Diagnostics: what is sent is sent under the connection,    *)
(* the configuration and the dialect it was computed for, and a closed     *)
(* document is cleared.  Both rest on diagnosticsPublishMu: between the    *)
(* fence and the end of the send nothing it compared can change, except    *)
(* the document itself, which is then cleared after the send.              *)
(***************************************************************************)
EXTENDS Diagnostics, TLAPS

\* An analysis is of a document that was open.
AnalysesOpen ==
  consumer.at \in {"analyse", "send"} => consumer.doc \in Docs /\ consumer.snap.revision # 0

\* Past the fence: the connection, the rules and the dialect are still those
\* of the result.
FenceHolds ==
  consumer.at = "send" =>
    /\ consumer.snap.generation = connGeneration /\ consumer.snap.policy = policyRevision
    /\ consumer.snap.variant = variant

\* Past the fence: the document is open, or its clearing waits for the send.
SendPrecedesClear ==
  consumer.at = "send" => files[consumer.doc] # 0 \/ reader = [at |-> "clear", doc |-> consumer.doc]

IInv == ClosedIsCleared /\ AnalysesOpen /\ FenceHolds /\ SendPrecedesClear

-----------------------------------------------------------------------------
(* Type correctness.                                                       *)

USE DiagnosticsAssumption

\* What the client shows before anything was sent is a snapshot's stamp.
LEMMA NothingIsStamp == Nothing \in Stamps /\ Nothing.revision = 0
  BY DEF Nothing, Stamps

\* A capture is a stamp.
LEMMA CapturedIsStamp ==
  ASSUME TypeOK, NEW d \in Docs
  PROVE  Captured(d) \in Stamps /\ Captured(d).revision = files[d]
  BY DEF TypeOK, Captured, Stamps

\* The initial state is type correct.
LEMMA InitTypeOK == Init => TypeOK
  <1>1. Nothing \in Stamps /\ Nothing.variant \in Dialects
    BY NothingIsStamp DEF Stamps
  <1> SUFFICES ASSUME Init PROVE TypeOK
    OBVIOUS
  <1>2. consumer \in Consumers
    BY <1>1 DEF Init, Consumers, ConsumerAt, NoDoc
  <1>3. event \in BOOLEAN /\ allOpen \in BOOLEAN /\ wake \in BOOLEAN /\ lifecycleDone \in BOOLEAN
    BY Zenon DEF Init
  <1>4. client \in [Docs -> Stamps] /\ variant \in Dialects
    BY <1>1 DEF Init
  <1>5. reader \in [at : {"idle", "mark", "markAll", "signal", "clear", "stop", "stopped"}, doc : Docs \union {NoDoc}]
    BY DEF Init, NoDoc
  <1> QED  BY <1>2, <1>3, <1>4, <1>5 DEF Init, TypeOK

\* Marking and signalling keep the dirty set's type, and its two forms apart.
LEMMA WorkTypeOK ==
  ASSUME TypeOK, MarkAll \/ Signal \/ \E d \in Docs : MarkDocument(d)
  PROVE  allOpen' \in BOOLEAN /\ documents' \subseteq Docs /\ wake' \in BOOLEAN /\ (allOpen' => documents' = {})
  <1>1. CASE MarkAll
    BY <1>1, Zenon DEF TypeOK, MarkAll
  <1>2. CASE Signal
    <2>1. wake' \in BOOLEAN
      BY <1>2, Zenon DEF TypeOK, Signal
    <2> QED  BY <1>2, <2>1, Zenon DEF TypeOK, Signal
  <1>3. ASSUME NEW d \in Docs, MarkDocument(d) PROVE documents' \subseteq Docs /\ (allOpen' => documents' = {})
    BY <1>3 DEF TypeOK, MarkDocument
  <1>4. ASSUME NEW d \in Docs, MarkDocument(d) PROVE allOpen' \in BOOLEAN /\ wake' \in BOOLEAN
    BY <1>4, Zenon DEF TypeOK, MarkDocument
  <1> QED  BY <1>1, <1>2, <1>3, <1>4

\* An update of the consumer's fields leaves a consumer, with the fields given.
LEMMA ConsumerUpdate ==
  ASSUME NEW c \in Consumers, NEW a \in ConsumerAt, NEW t \in SUBSET Docs, NEW d \in Docs \union {NoDoc}, NEW s \in Stamps
  PROVE  /\ [c EXCEPT !.at = a] \in Consumers /\ [c EXCEPT !.todo = t] \in Consumers
         /\ [c EXCEPT !.at = a, !.todo = t] \in Consumers /\ [c EXCEPT !.todo = t, !.at = a] \in Consumers
         /\ [c EXCEPT !.at = a, !.doc = d, !.snap = s] \in Consumers
         /\ [c EXCEPT !.todo = t, !.at = a, !.doc = d, !.snap = s] \in Consumers
  BY DEF Consumers

\* The handlers of the read loop, Stop among them, keep every type.
LEMMA ReaderTypeOK ==
  ASSUME TypeOK, (\E d \in Docs : Edits(d) \/ Closes(d)) \/ ConfigurationChanges \/ Reader \/ StopCancels
  PROVE  TypeOK'
  <1> USE NothingIsStamp DEF TypeOK, connVars, catVars, workVars, docVars, UnlessReader, NoDoc
  <1>1. ASSUME NEW d \in Docs, Edits(d) PROVE TypeOK'
    BY <1>1 DEF Edits
  <1>2. ASSUME NEW d \in Docs, Closes(d) PROVE TypeOK'
    BY <1>2 DEF Closes
  <1>3. CASE ConfigurationChanges
    BY <1>3 DEF ConfigurationChanges
  <1>4. CASE Clears
    BY <1>4 DEF Clears
  <1>5. CASE ReaderMarks
    <2>1. allOpen' \in BOOLEAN /\ documents' \subseteq Docs /\ wake' \in BOOLEAN /\ (allOpen' => documents' = {})
      <3>1. CASE reader.at = "mark" /\ MarkDocument(reader.doc)
        <4>1. reader.doc \in Docs
          BY <3>1
        <4> QED  BY <3>1, <4>1, WorkTypeOK
      <3>2. CASE reader.at = "markAll" /\ MarkAll
        BY <3>2, WorkTypeOK
      <3> QED  BY <1>5, <3>1, <3>2 DEF ReaderMarks
    <2> QED  BY <1>5, <2>1 DEF ReaderMarks
  <1>6. CASE ReaderSignals
    BY <1>6 DEF ReaderSignals, Signal
  <1>7. CASE StopDetaches
    BY <1>7 DEF StopDetaches
  <1>8. CASE StopCancels
    BY <1>8 DEF StopCancels
  <1> QED  BY <1>1, <1>2, <1>3, <1>4, <1>5, <1>6, <1>7, <1>8 DEF Reader

\* An attempt and the binding of its metadata keep every type.
LEMMA CoordinatorTypeOK ==
  ASSUME TypeOK, AttemptBegins \/ Attempt
  PROVE  TypeOK'
  <1> USE DEF TypeOK, connVars, catVars, workVars, docVars, UnlessCoordinator
  <1>1. CASE AttemptBegins
    BY <1>1 DEF AttemptBegins
  <1>2. CASE AttemptFails
    BY <1>2 DEF AttemptFails
  <1>3. CASE AttemptInstalls
    BY <1>3 DEF AttemptInstalls
  <1>4. CASE Binds
    BY <1>4 DEF Binds
  <1>5. CASE Abandons
    BY <1>5 DEF Abandons
  <1>6. CASE CoordinatorQueues
    <2>1. allOpen' \in BOOLEAN /\ documents' \subseteq Docs /\ wake' \in BOOLEAN /\ (allOpen' => documents' = {})
      BY <1>6, WorkTypeOK, Zenon DEF CoordinatorQueues, CoordinatorMarks, CoordinatorSignals
    <2>2. coordinator' \in {"idle", "begun", "signalBegun", "open", "bind", "bound", "signalBound"}
      BY <1>6, Zenon DEF CoordinatorQueues, CoordinatorMarks, CoordinatorSignals
    <2> QED  BY <1>6, <2>1, <2>2 DEF CoordinatorQueues
  <1> QED  BY <1>1, <1>2, <1>3, <1>4, <1>5, <1>6 DEF Attempt

\* Catalogue changes and the watcher keep every type.
LEMMA WatcherTypeOK ==
  ASSUME TypeOK, CatalogChanges \/ Watcher
  PROVE  TypeOK'
  <1> USE DEF TypeOK, connVars, catVars, workVars, docVars, UnlessWatcher
  <1>1. CASE CatalogChanges
    BY <1>1 DEF CatalogChanges
  <1>2. CASE WatcherReceives
    BY <1>2 DEF WatcherReceives
  <1>3. CASE WatcherEnds
    BY <1>3 DEF WatcherEnds
  <1>4. CASE WatcherQueues
    <2>1. allOpen' \in BOOLEAN /\ documents' \subseteq Docs /\ wake' \in BOOLEAN /\ (allOpen' => documents' = {})
      BY <1>4, WorkTypeOK, Zenon DEF WatcherQueues
    <2> QED  BY <1>4, <2>1 DEF WatcherQueues
  <1> QED  BY <1>1, <1>2, <1>3, <1>4 DEF Watcher

\* Every step of the consumer keeps every type.
LEMMA ConsumerTypeOK ==
  ASSUME TypeOK, Consumer
  PROVE  TypeOK'
  <1> USE DEF connVars, catVars, workVars, docVars, UnlessConsumer
  <1>0. consumer \in Consumers
    BY DEF TypeOK
  <1>1. ASSUME consumer' \in Consumers, client' \in [Docs -> Stamps], UNCHANGED <<workVars, UnlessConsumer>>
        PROVE  TypeOK'
    BY <1>1 DEF TypeOK
  <1>2. \A a \in ConsumerAt, t \in SUBSET Docs :
          /\ [consumer EXCEPT !.at = a] \in Consumers /\ [consumer EXCEPT !.todo = t] \in Consumers
          /\ [consumer EXCEPT !.at = a, !.todo = t] \in Consumers /\ [consumer EXCEPT !.todo = t, !.at = a] \in Consumers
    BY <1>0, ConsumerUpdate, NothingIsStamp
  <1>3. client \in [Docs -> Stamps] /\ Nothing \in Stamps /\ NoDoc \in Docs \union {NoDoc}
    BY NothingIsStamp DEF TypeOK
  <1>4. {"select", "take", "list", "next", "analyse", "send", "done"} \subseteq ConsumerAt
    BY DEF ConsumerAt
  <1>5. [consumer EXCEPT !.at = "next", !.doc = NoDoc, !.snap = Nothing] \in Consumers
    BY <1>0, <1>3, <1>4, ConsumerUpdate
  <1>6. ASSUME consumer' \in Consumers, UNCHANGED <<client, UnlessConsumer>>,
                allOpen' \in BOOLEAN, wake' \in BOOLEAN, documents' \subseteq Docs, allOpen' => documents' = {}
         PROVE  TypeOK'
    BY <1>6 DEF TypeOK
  <1>7. CASE Wakes
    <2>1. consumer' \in Consumers
      BY <1>2, <1>4, <1>7 DEF Wakes
    <2>2. wake' \in BOOLEAN /\ UNCHANGED <<allOpen, documents, client, UnlessConsumer>>
      BY <1>7, Zenon DEF Wakes
    <2> QED  BY <1>6, <2>1, <2>2 DEF TypeOK
  <1>8. CASE Takes
    <2>1. (IF allOpen THEN "list" ELSE "next") \in ConsumerAt /\ documents \in SUBSET Docs
      BY <1>4 DEF TypeOK
    <2>2. consumer' \in Consumers
      BY <1>2, <1>8, <2>1 DEF Takes
    <2>3. allOpen' \in BOOLEAN /\ ~allOpen' /\ documents' = {} /\ UNCHANGED <<wake, client, UnlessConsumer>>
      BY <1>8, Zenon DEF Takes
    <2> QED  BY <1>6, <2>2, <2>3 DEF TypeOK
  <1>9. CASE ListsOpen
    <2>1. Open \in SUBSET Docs
      BY DEF Open
    <2> QED  BY <1>1, <1>2, <1>3, <1>4, <1>9, <2>1 DEF ListsOpen
  <1>10. CASE TurnEnds
    <2>1. (IF LooksAgain THEN "take" ELSE "select") \in ConsumerAt
      BY <1>4
    <2> QED  BY <1>1, <1>2, <1>3, <1>10, <2>1 DEF TurnEnds
  <1>11. CASE TurnIsSkipped
    <2>1. {} \in SUBSET Docs
      OBVIOUS
    <2>2. consumer' \in Consumers
      BY <1>2, <1>4, <1>11, <2>1 DEF TurnIsSkipped
    <2> QED  BY <1>1, <1>3, <1>11, <2>2 DEF TurnIsSkipped
  <1>12. CASE PicksDocument
    <2>1. PICK d \in consumer.todo :
            \/ consumer' = [consumer EXCEPT !.todo = consumer.todo \ {d}]
            \/ consumer' = [consumer EXCEPT !.todo = consumer.todo \ {d}, !.at = "analyse", !.doc = d, !.snap = Captured(d)]
      BY <1>12, Zenon DEF PicksDocument
    <2>2. d \in Docs /\ consumer.todo \ {d} \in SUBSET Docs
      BY <1>0, <2>1 DEF Consumers
    <2>3. Captured(d) \in Stamps
      BY <2>2, CapturedIsStamp
    <2>4. [consumer EXCEPT !.todo = consumer.todo \ {d}, !.at = "analyse", !.doc = d, !.snap = Captured(d)] \in Consumers
      BY <1>0, <1>4, <2>2, <2>3, ConsumerUpdate
    <2>5. [consumer EXCEPT !.todo = consumer.todo \ {d}] \in Consumers
      BY <1>2, <1>4, <2>2
    <2>6. consumer' \in Consumers
      BY <2>1, <2>4, <2>5
    <2> QED  BY <1>1, <1>3, <1>12, <2>6 DEF PicksDocument
  <1>13. CASE Fences
    <2>1. consumer' \in Consumers
      BY <1>2, <1>4, <1>5, <1>13, Zenon DEF Fences
    <2> QED  BY <1>1, <1>3, <1>13, <2>1 DEF Fences
  <1>14. CASE Sends
    <2>1. client' \in [Docs -> Stamps]
      BY <1>0, <1>3, <1>14 DEF Sends, Consumers
    <2> QED  BY <1>1, <1>5, <1>14, <2>1 DEF Sends
  <1>15. CASE ConsumerEnds
    BY <1>1, <1>2, <1>3, <1>4, <1>15 DEF ConsumerEnds
  <1> QED  BY <1>7, <1>8, <1>9, <1>10, <1>11, <1>12, <1>13, <1>14, <1>15 DEF Consumer

\* Every variable of Diagnostics keeps its type.
LEMMA NextTypeOK == TypeOK /\ [Next]_vars => TypeOK'
  <1> SUFFICES ASSUME TypeOK, [Next]_vars PROVE TypeOK'
    OBVIOUS
  <1>1. CASE UNCHANGED vars
    BY <1>1 DEF TypeOK, vars, docVars, connVars, catVars, workVars
  <1> QED  BY <1>1, ReaderTypeOK, CoordinatorTypeOK, WatcherTypeOK, ConsumerTypeOK DEF Next

-----------------------------------------------------------------------------
(* What a publication under way excludes.                                  *)

\* Nothing is shown, analysed or sent at first.
LEMMA InitIInv == Init => IInv
  <1> SUFFICES ASSUME Init PROVE IInv
    OBVIOUS
  <1> QED  BY InitTypeOK, NothingIsStamp DEF Init, IInv, ClosedIsCleared, AnalysesOpen, FenceHolds, SendPrecedesClear

\* The read loop: a document that was sent to the client is cleared after it
\* is closed, and Clears waits for a send under way.
LEMMA ReaderIInv ==
  ASSUME IInv, TypeOK', (\E d \in Docs : Edits(d) \/ Closes(d)) \/ ConfigurationChanges \/ Reader \/ StopCancels
  PROVE  IInv'
  <1> USE DEF IInv, ClosedIsCleared, AnalysesOpen, FenceHolds, SendPrecedesClear, UnlessReader, connVars
  <1>1. ASSUME NEW d \in Docs, Edits(d) PROVE IInv'
    BY <1>1 DEF Edits, TypeOK
  <1>2. ASSUME NEW d \in Docs, Closes(d) PROVE IInv'
    BY <1>2 DEF Closes, TypeOK
  <1>3. CASE ConfigurationChanges
    BY <1>3 DEF ConfigurationChanges, PublishMuFree, TypeOK
  <1>4. CASE Clears
    BY <1>4 DEF Clears, PublishMuFree, docVars, TypeOK
  <1>5. CASE ReaderMarks
    BY <1>5 DEF ReaderMarks, docVars
  <1>6. CASE ReaderSignals
    BY <1>6 DEF ReaderSignals, docVars
  <1>7. CASE StopDetaches
    BY <1>7 DEF StopDetaches, docVars
  <1>8. CASE StopCancels
    BY <1>8 DEF StopCancels, docVars
  <1> QED  BY <1>1, <1>2, <1>3, <1>4, <1>5, <1>6, <1>7, <1>8 DEF Reader

\* The coordinator and the watcher: what the fence compares changes only when
\* no publication is under way.
LEMMA OthersIInv ==
  ASSUME IInv, TypeOK', AttemptBegins \/ Attempt \/ CatalogChanges \/ Watcher
  PROVE  IInv'
  <1> USE DEF IInv, ClosedIsCleared, AnalysesOpen, FenceHolds, SendPrecedesClear, docVars, connVars
  <1>1. CASE AttemptBegins
    BY <1>1 DEF AttemptBegins, AttemptMayBegin, PublishMuFree, UnlessCoordinator
  <1>2. CASE AttemptInstalls
    BY <1>2 DEF AttemptInstalls, PublishMuFree, UnlessCoordinator
  <1>3. CASE AttemptFails \/ Binds \/ Abandons \/ CoordinatorQueues
    BY <1>3 DEF AttemptFails, Binds, Abandons, CoordinatorQueues, UnlessCoordinator
  <1>4. CASE CatalogChanges \/ Watcher
    BY <1>4 DEF CatalogChanges, Watcher, WatcherReceives, WatcherEnds, WatcherQueues, UnlessWatcher
  <1> QED  BY <1>1, <1>2, <1>3, <1>4 DEF Attempt

\* The consumer: the fence establishes what the send relies on.
LEMMA ConsumerIInv ==
  ASSUME IInv, TypeOK', Consumer
  PROVE  IInv'
  <1> USE DEF IInv, ClosedIsCleared, AnalysesOpen, FenceHolds, SendPrecedesClear, UnlessConsumer, docVars, connVars
  <1>0. consumer \in [at : ConsumerAt, todo : SUBSET Docs, doc : Docs \union {NoDoc}, snap : Stamps]
    BY DEF TypeOK, Consumers
  <1>1. ASSUME consumer'.at \notin {"analyse", "send"}, UNCHANGED <<client, UnlessConsumer>>
        PROVE  IInv'
    BY <1>1
  <1>2. CASE Wakes \/ Takes \/ ListsOpen \/ TurnEnds \/ TurnIsSkipped \/ ConsumerEnds
    <2>1. consumer'.at \notin {"analyse", "send"}
      BY <1>0, <1>2 DEF Wakes, Takes, ListsOpen, TurnEnds, TurnIsSkipped, ConsumerEnds
    <2> QED  BY <1>1, <1>2, <2>1 DEF Wakes, Takes, ListsOpen, TurnEnds, TurnIsSkipped, ConsumerEnds
  <1>3. CASE PicksDocument
    <2>1. PICK d \in consumer.todo :
            /\ consumer.at = "next"
            /\ \/ consumer' = [consumer EXCEPT !.todo = consumer.todo \ {d}]
               \/ /\ files[d] # 0
                  /\ consumer' = [consumer EXCEPT !.todo = consumer.todo \ {d}, !.at = "analyse", !.doc = d, !.snap = Captured(d)]
      BY <1>3, Zenon DEF PicksDocument
    <2>2. d \in Docs /\ Captured(d).revision = files[d]
      BY <1>0, <2>1, CapturedIsStamp
    <2>3. consumer'.at # "send" /\ (consumer'.at = "analyse" => consumer'.doc \in Docs /\ consumer'.snap.revision # 0)
      BY <1>0, <2>1, <2>2
    <2>4. UNCHANGED <<client, UnlessConsumer>>
      BY <1>3 DEF PicksDocument
    <2> QED  BY <2>3, <2>4
  <1>4. CASE Fences
    <2>1. CASE SnapshotCurrent(consumer.doc, consumer.snap)
      <3>1. consumer' = [consumer EXCEPT !.at = "send"]
        BY <1>4, <2>1 DEF Fences
      <3>2. consumer'.at = "send" /\ consumer'.doc = consumer.doc /\ consumer'.snap = consumer.snap
        BY <1>0, <3>1
      <3> QED  BY <1>4, <2>1, <3>2 DEF Fences, SnapshotCurrent
    <2>2. CASE ~SnapshotCurrent(consumer.doc, consumer.snap)
      <3>1. consumer'.at = "next"
        BY <1>0, <1>4, <2>2 DEF Fences
      <3> QED  BY <1>1, <1>4, <3>1 DEF Fences
    <2> QED  BY <2>1, <2>2
  <1>5. CASE Sends
    <2>1. consumer'.at = "next"
      BY <1>0, <1>5 DEF Sends
    <2>2. ASSUME NEW d \in Docs, files'[d] = 0, reader' # [at |-> "clear", doc |-> d] PROVE client'[d] = Nothing
      <3>1. d # consumer.doc
        BY <1>5, <2>2 DEF Sends
      <3> QED  BY <1>5, <2>2, <3>1 DEF Sends, TypeOK
    <2> QED  BY <2>1, <2>2
  <1> QED  BY <1>2, <1>3, <1>4, <1>5 DEF Consumer

\* The invariant holds in every reachable state.
LEMMA Invariance == Spec => []IInv
  <1>1. IInv /\ [Next]_vars => IInv'
    <2> SUFFICES ASSUME IInv, [Next]_vars PROVE IInv'
      OBVIOUS
    <2>1. TypeOK'
      BY NextTypeOK DEF IInv, ClosedIsCleared
    <2>2. CASE UNCHANGED vars
      BY <2>1, <2>2 DEF IInv, ClosedIsCleared, AnalysesOpen, FenceHolds, SendPrecedesClear, vars, docVars, connVars
    <2> QED  BY <2>1, <2>2, ReaderIInv, OthersIInv, ConsumerIInv DEF Next
  <1> QED  BY <1>1, InitIInv, PTL DEF Spec

-----------------------------------------------------------------------------
(* What is shown at rest.                                                  *)

\* A document whose analysis is still to come: it is marked, or somebody is
\* about to mark it, or the consumer has it on its list.
Owed(d) ==
  \/ event \/ watcher = "mark" \/ coordinator = "bound"
  \/ reader.at = "markAll" \/ reader = [at |-> "mark", doc |-> d]
  \/ allOpen \/ d \in documents \/ d \in consumer.todo \/ consumer.at = "list"

\* A document the consumer has taken and is not done with.
InHand(d) == consumer.at \in {"analyse", "send"} /\ consumer.doc = d

\* Shown as it is now, and nothing else about to be sent over it.
Shown(d) == client[d] = Captured(d) /\ ~(consumer.at = "send" /\ consumer.doc = d)

\* An open document is owed an analysis, has one under way of what it is now,
\* or is shown as it is now.
Accounted(d) == Owed(d) \/ (InHand(d) /\ consumer.snap = Captured(d)) \/ Shown(d)

Handled == ~lifecycleDone /\ connGeneration = boundGeneration => \A d \in Open : Accounted(d)

\* Where the goroutines are says what they have left undone.
Steps ==
  /\ consumer.at = "done" \/ watcher = "done" \/ reader.at \in {"stop", "stopped"} => lifecycleDone
  /\ consumer.at \in {"select", "take", "list"} => consumer.todo = {}
  /\ coordinator \in {"begun", "signalBegun", "open"} => connGeneration # boundGeneration
  /\ reader.at = "clear" => files[reader.doc] = 0

\* Marked work is not forgotten: the slot is full, a signal is on its way, or
\* the consumer is awake.
Wake ==
  ~lifecycleDone /\ WorkIsQueued =>
    \/ wake \/ consumer.at \notin {"select", "done"}
    \/ reader.at = "signal" \/ coordinator \in {"signalBegun", "signalBound"} \/ watcher = "signal"

RestInv == IInv /\ Steps /\ Wake /\ Handled

\* At first nothing is open and nobody is under way.
LEMMA InitRest == Init => RestInv
  <1> SUFFICES ASSUME Init PROVE RestInv
    OBVIOUS
  <1>1. IInv
    BY InitIInv
  <1>2. Open = {}
    BY DEF Init, Open
  <1>3. consumer.at = "select" /\ consumer.todo = {} /\ watcher = "idle" /\ coordinator = "idle" /\ reader.at = "idle"
    BY DEF Init
  <1>4. ~WorkIsQueued
    BY Zenon DEF Init, WorkIsQueued
  <1> QED  BY <1>1, <1>2, <1>3, <1>4 DEF RestInv, Steps, Wake, Handled

\* A capture depends on the document, the rules, the connection and the
\* catalogue, and on nothing else.
LEMMA CaptureIsStable ==
  ASSUME NEW d \in Docs, files'[d] = files[d], UNCHANGED <<policyRevision, connVars, catalog>>
  PROVE  Captured(d)' = Captured(d)
  BY DEF Captured, connVars

\* A document stays accounted for when it, what it is captured from, the
\* consumer and the client stay, and nothing that is owed is forgotten.
LEMMA AccountedStays ==
  ASSUME NEW d \in Docs, Accounted(d), files'[d] = files[d], UNCHANGED <<policyRevision, connVars, catalog, consumer>>,
         client'[d] = client[d], Owed(d) => Owed(d)'
  PROVE  Accounted(d)'
  <1>1. Captured(d)' = Captured(d)
    BY CaptureIsStable
  <1> QED  BY <1>1 DEF Accounted, InHand, Shown

\* What marking and signalling do to the work and its wake.
LEMMA MarkingAndSignalling ==
  /\ \A d \in Docs : MarkDocument(d) => (allOpen' \/ d \in documents') /\ UNCHANGED <<allOpen, wake>> /\ documents \subseteq documents'
  /\ MarkAll => allOpen' /\ UNCHANGED wake
  /\ Signal /\ ~lifecycleDone => wake' /\ UNCHANGED <<allOpen, documents>>
  <1>1. \A d \in Docs : MarkDocument(d) => (allOpen' \/ d \in documents') /\ UNCHANGED <<allOpen, wake>> /\ documents \subseteq documents'
    <2> SUFFICES ASSUME NEW d \in Docs, MarkDocument(d)
                 PROVE  (allOpen' \/ d \in documents') /\ UNCHANGED <<allOpen, wake>> /\ documents \subseteq documents'
      OBVIOUS
    <2>1. UNCHANGED <<allOpen, wake>>
      BY Zenon DEF MarkDocument
    <2>2. CASE allOpen
      BY <2>1, <2>2 DEF MarkDocument
    <2>3. CASE ~allOpen
      BY <2>1, <2>3 DEF MarkDocument
    <2> QED  BY <2>1, <2>2, <2>3
  <1>2. MarkAll => allOpen' /\ UNCHANGED wake
    BY Zenon DEF MarkAll
  <1>3. Signal /\ ~lifecycleDone => wake' /\ UNCHANGED <<allOpen, documents>>
    BY Zenon DEF Signal
  <1> QED  BY <1>1, <1>2, <1>3

\* The read loop.  An edit of the text or of the rules is followed by a mark
\* and a signal; Stop ends what is promised.
LEMMA ReaderRest ==
  ASSUME RestInv, TypeOK', (\E d \in Docs : Edits(d) \/ Closes(d)) \/ ConfigurationChanges \/ Reader \/ StopCancels
  PROVE  Steps' /\ Wake' /\ Handled'
  <1> USE DEF UnlessReader
  <1>0. TypeOK /\ Steps /\ Wake /\ Handled
    BY DEF RestInv, IInv, ClosedIsCleared
  <1>1. ASSUME NEW d \in Docs, Edits(d) PROVE Steps' /\ Wake' /\ Handled'
    <2>1. /\ reader.at = "idle" /\ reader' = [at |-> "mark", doc |-> d] /\ files' = [files EXCEPT ![d] = fileRevision']
          /\ UNCHANGED <<policyRevision, connVars, catalog, event, consumer, client, watcher, coordinator, allOpen, documents, wake, lifecycleDone>>
      BY <1>1 DEF Edits, workVars, catVars
    <2>2. UNCHANGED <<connGeneration, boundGeneration>>
      BY <2>1 DEF connVars
    <2>3. Steps'
      BY <1>0, <2>1, <2>2 DEF Steps
    <2>4. Wake'
      BY <1>0, <2>1 DEF Wake, WorkIsQueued
    <2>5. ASSUME Handled, ~lifecycleDone', (connGeneration = boundGeneration)', NEW e \in Docs, files'[e] # 0 PROVE Accounted(e)'
      <3>1. CASE e = d
        BY <2>1, <3>1 DEF Accounted, Owed
      <3>2. CASE e # d
        <4>1. files'[e] = files[e]
          BY <1>0, <2>1, <3>2 DEF TypeOK
        <4>2. Accounted(e)
          BY <2>1, <2>2, <2>5, <4>1 DEF Handled, Open
        <4>3. Owed(e) => Owed(e)'
          BY <2>1 DEF Owed
        <4> QED  BY <2>1, <4>1, <4>2, <4>3, AccountedStays
      <3> QED  BY <3>1, <3>2
    <2>6. Handled'
      BY <1>0, <2>5 DEF Handled, Open
    <2> QED  BY <2>3, <2>4, <2>6
  <1>2. ASSUME NEW d \in Docs, Closes(d) PROVE Steps' /\ Wake' /\ Handled'
    <2>1. /\ reader.at = "idle" /\ reader' = [at |-> "clear", doc |-> d] /\ files' = [files EXCEPT ![d] = 0]
          /\ UNCHANGED <<policyRevision, connVars, catalog, event, consumer, client, watcher, coordinator, allOpen, documents, wake, lifecycleDone>>
      BY <1>2 DEF Closes, workVars, catVars
    <2>2. UNCHANGED <<connGeneration, boundGeneration>>
      BY <2>1 DEF connVars
    <2>3. files'[d] = 0 /\ \A e \in Docs : e # d => files'[e] = files[e]
      BY <1>0, <2>1 DEF TypeOK
    <2>4. Steps'
      BY <1>0, <2>1, <2>2, <2>3 DEF Steps
    <2>5. Wake'
      BY <1>0, <2>1 DEF Wake, WorkIsQueued
    <2>6. ASSUME ~lifecycleDone', (connGeneration = boundGeneration)', NEW e \in Docs, files'[e] # 0 PROVE Accounted(e)'
      <3>1. files'[e] = files[e]
        BY <2>3, <2>6
      <3>2. Accounted(e)
        BY <1>0, <2>1, <2>2, <2>6, <3>1 DEF Handled, Open
      <3>3. Owed(e) => Owed(e)'
        BY <2>1 DEF Owed
      <3> QED  BY <2>1, <3>1, <3>2, <3>3, AccountedStays
    <2>7. Handled'
      BY <2>6 DEF Handled, Open
    <2> QED  BY <2>4, <2>5, <2>7
  <1>3. CASE ConfigurationChanges
    <2>1. /\ reader.at = "idle" /\ reader'.at = "markAll"
          /\ UNCHANGED <<files, connVars, consumer, watcher, coordinator, allOpen, documents, wake, lifecycleDone>>
      BY <1>3 DEF ConfigurationChanges, workVars, catVars
    <2>2. UNCHANGED <<connGeneration, boundGeneration>>
      BY <2>1 DEF connVars
    <2>3. Steps'
      BY <1>0, <2>1, <2>2 DEF Steps
    <2>4. Wake'
      BY <1>0, <2>1 DEF Wake, WorkIsQueued
    <2>5. Handled'
      BY <2>1 DEF Handled, Accounted, Owed
    <2> QED  BY <2>3, <2>4, <2>5
  <1>4. CASE Clears
    <2>1. /\ reader.at = "clear" /\ reader'.at = "idle" /\ client' = [client EXCEPT ![reader.doc] = Nothing] /\ consumer.at # "send"
          /\ UNCHANGED <<files, policyRevision, connVars, catalog, event, consumer, watcher, coordinator, allOpen, documents, wake, lifecycleDone>>
      BY <1>4 DEF Clears, PublishMuFree, docVars, workVars, catVars
    <2>2. UNCHANGED <<connGeneration, boundGeneration>>
      BY <2>1 DEF connVars
    <2>3. Steps'
      BY <1>0, <2>1, <2>2 DEF Steps
    <2>4. Wake'
      BY <1>0, <2>1 DEF Wake, WorkIsQueued
    <2>5. ASSUME ~lifecycleDone', (connGeneration = boundGeneration)', NEW e \in Docs, files'[e] # 0 PROVE Accounted(e)'
      <3>1. files[e] # 0 /\ Accounted(e)
        BY <1>0, <2>1, <2>2, <2>5 DEF Handled, Open
      <3>2. e # reader.doc
        BY <1>0, <2>1, <3>1 DEF Steps
      <3>3. client'[e] = client[e]
        BY <1>0, <2>1, <3>2 DEF TypeOK
      <3>4. Owed(e) => Owed(e)'
        BY <2>1 DEF Owed
      <3> QED  BY <2>1, <3>1, <3>3, <3>4, AccountedStays
    <2>6. Handled'
      BY <2>5 DEF Handled, Open
    <2> QED  BY <2>3, <2>4, <2>6
  <1>5. CASE ReaderMarks
    <2>1. /\ reader'.at = "signal"
          /\ UNCHANGED <<files, policyRevision, connVars, catalog, event, consumer, client, watcher, coordinator, lifecycleDone>>
      BY <1>5 DEF ReaderMarks, docVars, catVars
    <2>2. UNCHANGED <<connGeneration, boundGeneration>>
      BY <2>1 DEF connVars
    <2>3. Steps'
      BY <1>0, <2>1, <2>2 DEF Steps
    <2>4. Wake'
      BY <2>1 DEF Wake
    <2>5. ASSUME ~lifecycleDone', (connGeneration = boundGeneration)', NEW e \in Docs, files'[e] # 0 PROVE Accounted(e)'
      <3>1. Accounted(e)
        BY <1>0, <2>1, <2>2, <2>5 DEF Handled, Open
      <3>2. Owed(e) => Owed(e)'
        <4>1. CASE reader.at = "markAll" /\ MarkAll
          BY <4>1, MarkingAndSignalling DEF Owed
        <4>2. CASE reader.at = "mark" /\ MarkDocument(reader.doc)
          <5>1. PICK d \in Docs : d = reader.doc
            BY <1>0, <4>2 DEF TypeOK
          <5>2. (allOpen' \/ d \in documents') /\ UNCHANGED <<allOpen, wake>> /\ documents \subseteq documents'
            BY <4>2, <5>1, MarkingAndSignalling
          <5>3. reader = [at |-> "mark", doc |-> e] => e = d
            BY <5>1
          <5> QED  BY <2>1, <4>2, <5>2, <5>3 DEF Owed
        <4> QED  BY <1>5, <4>1, <4>2 DEF ReaderMarks
      <3> QED  BY <2>1, <3>1, <3>2, AccountedStays
    <2>6. Handled'
      BY <2>5 DEF Handled, Open
    <2> QED  BY <2>3, <2>4, <2>6
  <1>6. CASE ReaderSignals
    <2>1. /\ reader.at = "signal" /\ reader'.at = "idle" /\ Signal
          /\ UNCHANGED <<files, policyRevision, connVars, catalog, event, consumer, client, watcher, coordinator, lifecycleDone>>
      BY <1>6 DEF ReaderSignals, docVars, catVars
    <2>2. UNCHANGED <<connGeneration, boundGeneration>>
      BY <2>1 DEF connVars
    <2>3. Steps'
      BY <1>0, <2>1, <2>2 DEF Steps
    <2>4. Wake'
      BY <2>1, MarkingAndSignalling DEF Wake
    <2>5. ASSUME ~lifecycleDone', (connGeneration = boundGeneration)', NEW e \in Docs, files'[e] # 0 PROVE Accounted(e)'
      <3>1. Accounted(e) /\ ~lifecycleDone
        BY <1>0, <2>1, <2>2, <2>5 DEF Handled, Open
      <3>2. UNCHANGED <<allOpen, documents>>
        BY <2>1, <3>1, MarkingAndSignalling
      <3>3. Owed(e) => Owed(e)'
        BY <2>1, <3>2 DEF Owed
      <3> QED  BY <2>1, <3>1, <3>3, AccountedStays
    <2>6. Handled'
      BY <2>5 DEF Handled, Open
    <2> QED  BY <2>3, <2>4, <2>6
  <1>7. CASE StopDetaches \/ StopCancels
    <2>0. reader.at = "stop" => lifecycleDone
      BY <1>0, Zenon DEF Steps
    <2>1. lifecycleDone'
      <3>1. CASE StopDetaches
        <4>1. reader.at = "stop" /\ UNCHANGED lifecycleDone
          BY <3>1 DEF StopDetaches
        <4> QED  BY <2>0, <4>1, Zenon
      <3>2. CASE StopCancels
        BY <3>2, Zenon DEF StopCancels
      <3> QED  BY <1>7, <3>1, <3>2
    <2>2. reader'.at \in {"stop", "stopped"} /\ UNCHANGED <<files, connVars, coordinator, consumer>>
      BY <1>7 DEF StopDetaches, StopCancels, docVars
    <2>3. Steps'
      BY <1>0, <2>1, <2>2 DEF Steps, connVars
    <2> QED  BY <2>1, <2>3 DEF Wake, Handled
  <1> QED  BY <1>1, <1>2, <1>3, <1>4, <1>5, <1>6, <1>7 DEF Reader

\* The coordinator: a new generation has no bound metadata until everything
\* is marked again, and both ends of an attempt are announced.
LEMMA CoordinatorRest ==
  ASSUME RestInv, TypeOK', AttemptBegins \/ Attempt
  PROVE  Steps' /\ Wake' /\ Handled'
  <1> USE DEF UnlessCoordinator
  <1>0. TypeOK /\ Steps /\ Wake /\ Handled
    BY DEF RestInv, IInv, ClosedIsCleared
  <1>1. CASE AttemptBegins
    <2>1. /\ coordinator = "idle" /\ coordinator' = "begun" /\ connGeneration' = connGeneration + 1
          /\ UNCHANGED <<boundGeneration, files, consumer, watcher, reader, allOpen, documents, wake, lifecycleDone>>
      BY <1>1 DEF AttemptBegins, workVars, docVars
    <2>2. connGeneration \in Nat /\ boundGeneration \in Nat /\ boundGeneration <= connGeneration
      BY <1>0 DEF TypeOK
    <2>3. connGeneration' # boundGeneration'
      BY <2>1, <2>2
    <2>4. Steps'
      BY <1>0, <2>1, <2>3 DEF Steps
    <2>5. Wake'
      BY <1>0, <2>1 DEF Wake, WorkIsQueued
    <2> QED  BY <2>3, <2>4, <2>5 DEF Handled
  <1>2. CASE AttemptFails
    <2>1. /\ coordinator = "open" /\ coordinator' = "idle"
          /\ UNCHANGED <<connGeneration, boundGeneration, files, consumer, watcher, reader, allOpen, documents, wake, lifecycleDone>>
      BY <1>2 DEF AttemptFails, workVars, docVars, connVars
    <2>2. Steps'
      BY <1>0, <2>1 DEF Steps
    <2>3. Wake'
      BY <1>0, <2>1 DEF Wake, WorkIsQueued
    <2>4. connGeneration' # boundGeneration'
      BY <1>0, <2>1 DEF Steps
    <2> QED  BY <2>2, <2>3, <2>4 DEF Handled
  <1>3. CASE AttemptInstalls
    <2>1. /\ coordinator = "open" /\ coordinator' = "bind"
          /\ UNCHANGED <<connGeneration, boundGeneration, files, consumer, watcher, reader, allOpen, documents, wake, lifecycleDone>>
      BY <1>3 DEF AttemptInstalls, workVars, docVars
    <2>2. Steps'
      BY <1>0, <2>1 DEF Steps
    <2>3. Wake'
      BY <1>0, <2>1 DEF Wake, WorkIsQueued
    <2>4. connGeneration' # boundGeneration'
      BY <1>0, <2>1 DEF Steps
    <2> QED  BY <2>2, <2>3, <2>4 DEF Handled
  <1>4. CASE Binds
    <2>1. /\ coordinator = "bind" /\ coordinator' = "bound"
          /\ UNCHANGED <<files, consumer, watcher, reader, allOpen, documents, wake, lifecycleDone>>
      BY <1>4 DEF Binds, workVars, docVars
    <2>2. Steps'
      BY <1>0, <2>1 DEF Steps
    <2>3. Wake'
      BY <1>0, <2>1 DEF Wake, WorkIsQueued
    <2> QED  BY <2>1, <2>2, <2>3 DEF Handled, Accounted, Owed
  <1>5. CASE Abandons
    <2>1. /\ coordinator = "bind" /\ coordinator' = "bound" /\ reader.at = "stopped"
          /\ UNCHANGED <<connGeneration, boundGeneration, files, consumer, watcher, reader, allOpen, documents, wake, lifecycleDone>>
      BY <1>5 DEF Abandons, Stopped, workVars, docVars, connVars
    <2>2. Steps'
      BY <1>0, <2>1 DEF Steps
    <2>3. Wake'
      BY <1>0, <2>1 DEF Wake, WorkIsQueued
    <2> QED  BY <2>1, <2>2, <2>3 DEF Handled, Accounted, Owed
  <1>6. CASE CoordinatorQueues
    <2>1. UNCHANGED <<files, policyRevision, connVars, catalog, event, consumer, client, watcher, reader, lifecycleDone>>
      BY <1>6 DEF CoordinatorQueues, docVars, catVars
    <2>2. UNCHANGED <<connGeneration, boundGeneration>>
      BY <2>1 DEF connVars
    <2>3. \/ coordinator = "begun" /\ coordinator' = "signalBegun" /\ MarkAll
          \/ coordinator = "bound" /\ coordinator' = "signalBound" /\ MarkAll
          \/ coordinator = "signalBegun" /\ coordinator' = "open" /\ Signal
          \/ coordinator = "signalBound" /\ coordinator' = "idle" /\ Signal
      BY <1>6 DEF CoordinatorQueues, CoordinatorMarks, CoordinatorSignals
    <2>4. Steps'
      BY <1>0, <2>1, <2>2, <2>3 DEF Steps
    <2>5. Wake'
      BY <2>1, <2>3, MarkingAndSignalling DEF Wake
    <2>6. ASSUME ~lifecycleDone', (connGeneration = boundGeneration)', NEW e \in Docs, files'[e] # 0 PROVE Accounted(e)'
      <3>1. Accounted(e) /\ ~lifecycleDone
        BY <1>0, <2>1, <2>2, <2>6 DEF Handled, Open
      <3>2. Owed(e) => Owed(e)'
        BY <2>1, <2>3, <3>1, MarkingAndSignalling DEF Owed
      <3> QED  BY <2>1, <3>1, <3>2, AccountedStays
    <2>7. Handled'
      BY <2>6 DEF Handled, Open
    <2> QED  BY <2>4, <2>5, <2>7
  <1> QED  BY <1>1, <1>2, <1>3, <1>4, <1>5, <1>6 DEF Attempt

\* A new snapshot comes with its event, and the watcher turns an event into a
\* mark and a signal.
LEMMA WatcherRest ==
  ASSUME RestInv, TypeOK', CatalogChanges \/ Watcher
  PROVE  Steps' /\ Wake' /\ Handled'
  <1> USE DEF UnlessWatcher
  <1>0. TypeOK /\ Steps /\ Wake /\ Handled
    BY DEF RestInv, IInv, ClosedIsCleared
  <1>1. UNCHANGED <<files, policyRevision, connVars, consumer, client, reader, coordinator, lifecycleDone>>
    BY DEF CatalogChanges, Watcher, WatcherReceives, WatcherEnds, WatcherQueues, docVars
  <1>2. UNCHANGED <<connGeneration, boundGeneration>>
    BY <1>1 DEF connVars
  <1>3. ASSUME UNCHANGED <<allOpen, documents, wake>>, watcher # "signal" PROVE Wake'
    BY <1>0, <1>1, <1>3 DEF Wake, WorkIsQueued
  <1>4. ASSUME watcher' # "done" PROVE Steps'
    BY <1>0, <1>1, <1>2, <1>4 DEF Steps
  <1>5. ASSUME UNCHANGED catalog, \A e \in Docs : Owed(e) /\ ~lifecycleDone => Owed(e)' PROVE Handled'
    <2>1. ASSUME ~lifecycleDone', (connGeneration = boundGeneration)', NEW e \in Docs, files'[e] # 0 PROVE Accounted(e)'
      <3>1. Accounted(e) /\ ~lifecycleDone
        BY <1>0, <1>1, <1>2, <2>1 DEF Handled, Open
      <3> QED  BY <1>1, <1>5, <3>1, AccountedStays
    <2> QED  BY <2>1 DEF Handled, Open
  <1>6. CASE CatalogChanges
    <2>1. event' /\ UNCHANGED <<allOpen, documents, wake, watcher>>
      BY <1>6, Zenon DEF CatalogChanges, workVars
    <2>2. Wake'
      BY <1>0, <1>1, <2>1 DEF Wake, WorkIsQueued
    <2>3. Steps'
      BY <1>0, <1>1, <1>2, <2>1 DEF Steps
    <2> QED  BY <2>1, <2>2, <2>3 DEF Handled, Accounted, Owed
  <1>7. CASE WatcherReceives
    <2>1. watcher = "idle" /\ watcher' = "mark" /\ UNCHANGED <<allOpen, documents, wake, catalog>>
      BY <1>7 DEF WatcherReceives, workVars
    <2>2. Wake' /\ Steps'
      BY <1>3, <1>4, <2>1
    <2>3. Handled'
      BY <2>1 DEF Handled, Accounted, Owed
    <2> QED  BY <2>2, <2>3
  <1>8. CASE WatcherEnds
    <2>1. watcher = "idle" /\ watcher' = "done" /\ lifecycleDone /\ UNCHANGED <<allOpen, documents, wake>>
      BY <1>8 DEF WatcherEnds, workVars
    <2>2. Steps'
      BY <1>0, <1>1, <1>2, <2>1 DEF Steps
    <2> QED  BY <1>1, <1>3, <2>1, <2>2 DEF Handled
  <1>9. CASE WatcherQueues
    <2>1. \/ watcher = "mark" /\ watcher' = "signal" /\ MarkAll
          \/ watcher = "signal" /\ watcher' = "idle" /\ Signal
      BY <1>9 DEF WatcherQueues
    <2>2. UNCHANGED <<catalog, event>>
      BY <1>9 DEF WatcherQueues, catVars
    <2>3. Wake'
      BY <1>1, <2>1, MarkingAndSignalling DEF Wake
    <2>4. ASSUME NEW e \in Docs, Owed(e), ~lifecycleDone PROVE Owed(e)'
      BY <1>1, <2>1, <2>2, <2>4, MarkingAndSignalling DEF Owed
    <2>5. Handled'
      BY <1>5, <2>2, <2>4
    <2> QED  BY <1>4, <2>1, <2>3, <2>5
  <1> QED  BY <1>6, <1>7, <1>8, <1>9 DEF Watcher

\* The consumer: work it takes is on its list until it is analysed, and what
\* passes the fence is what the document is now.
LEMMA ConsumerRest ==
  ASSUME RestInv, TypeOK', Consumer
  PROVE  Steps' /\ Wake' /\ Handled'
  <1> USE DEF UnlessConsumer
  <1>0. TypeOK /\ Steps /\ Wake /\ Handled
    BY DEF RestInv, IInv, ClosedIsCleared
  <1>1. UNCHANGED <<files, policyRevision, connVars, catalog, event, reader, coordinator, watcher, lifecycleDone>>
    BY DEF Consumer, Wakes, Takes, ListsOpen, TurnEnds, TurnIsSkipped, PicksDocument, Fences, Sends, ConsumerEnds, docVars, catVars
  <1>2. UNCHANGED <<connGeneration, boundGeneration>>
    BY <1>1 DEF connVars
  <1>3. consumer \in [at : ConsumerAt, todo : SUBSET Docs, doc : Docs \union {NoDoc}, snap : Stamps]
    BY <1>0 DEF TypeOK, Consumers
  <1>4. \A e \in Docs : Captured(e)' = Captured(e)
    BY <1>1, CaptureIsStable
  <1>5. ASSUME consumer'.at # "done", consumer'.at \in {"select", "take", "list"} => consumer'.todo = {} PROVE Steps'
    BY <1>0, <1>1, <1>2, <1>5 DEF Steps
  <1>6. ASSUME consumer'.at \notin {"select", "done"} PROVE Wake'
    BY <1>6 DEF Wake
  <1>7. ASSUME \A e \in Docs : files[e] # 0 /\ Accounted(e) /\ ~lifecycleDone /\ connGeneration = boundGeneration => Accounted(e)'
        PROVE  Handled'
    BY <1>0, <1>1, <1>2, <1>7 DEF Handled, Open
  <1>8. ASSUME UNCHANGED client, consumer.at \notin {"analyse", "send"}, consumer'.at \notin {"analyse", "send"},
               \A e \in Docs : files[e] # 0 /\ Owed(e) => Owed(e)'
        PROVE  Handled'
    <2>1. ASSUME NEW e \in Docs, files[e] # 0, Accounted(e) PROVE Accounted(e)'
      BY <1>4, <1>8, <2>1 DEF Accounted, InHand, Shown
    <2> QED  BY <1>7, <2>1
  <1>9. CASE Wakes
    <2>1. consumer.at = "select" /\ consumer' = [consumer EXCEPT !.at = "take"] /\ UNCHANGED <<client, allOpen, documents>>
      BY <1>9 DEF Wakes
    <2>2. consumer'.at = "take" /\ consumer'.todo = consumer.todo
      BY <1>3, <2>1
    <2>3. consumer.todo = {}
      BY <1>0, <2>1 DEF Steps
    <2>4. \A e \in Docs : Owed(e) => Owed(e)'
      BY <1>1, <2>1, <2>2 DEF Owed
    <2> QED  BY <1>5, <1>6, <1>8, <2>1, <2>2, <2>3, <2>4
  <1>10. CASE Takes
    <2>1. /\ consumer.at = "take" /\ UNCHANGED client
          /\ consumer' = [consumer EXCEPT !.at = IF allOpen THEN "list" ELSE "next", !.todo = documents]
      BY <1>10 DEF Takes
    <2>2. consumer'.at = (IF allOpen THEN "list" ELSE "next") /\ consumer'.todo = documents
      BY <1>3, <2>1
    <2>3. consumer.todo = {} /\ (allOpen => documents = {})
      BY <1>0, <2>1 DEF Steps, TypeOK
    <2>4. ASSUME NEW e \in Docs, Owed(e) PROVE Owed(e)'
      BY <1>1, <2>1, <2>2, <2>3, <2>4 DEF Owed
    <2>5. consumer'.at \in {"list", "next"} /\ (consumer'.at = "list" => consumer'.todo = {})
      BY <2>2, <2>3
    <2> QED  BY <1>5, <1>6, <1>8, <2>1, <2>4, <2>5
  <1>11. CASE ListsOpen
    <2>1. /\ consumer.at = "list" /\ UNCHANGED <<client, allOpen, documents, wake>>
          /\ consumer' = [consumer EXCEPT !.at = "next", !.todo = Open]
      BY <1>11 DEF ListsOpen, workVars
    <2>2. consumer'.at = "next" /\ consumer'.todo = Open
      BY <1>3, <2>1
    <2>3. ASSUME NEW e \in Docs, files[e] # 0 PROVE Owed(e)'
      BY <2>2, <2>3 DEF Owed, Open
    <2> QED  BY <1>5, <1>6, <1>8, <2>1, <2>2, <2>3
  <1>12. CASE TurnEnds
    <2>1. /\ consumer.at = "next" /\ consumer.todo = {} /\ UNCHANGED <<client, allOpen, documents, wake>>
          /\ consumer' = [consumer EXCEPT !.at = IF LooksAgain THEN "take" ELSE "select"]
      BY <1>12 DEF TurnEnds, workVars
    <2>2. consumer'.at = (IF LooksAgain THEN "take" ELSE "select") /\ consumer'.todo = {}
      BY <1>3, <2>1
    <2>3. \A e \in Docs : Owed(e) => Owed(e)'
      BY <1>1, <2>1, <2>2 DEF Owed
    <2>4. Handled'
      BY <1>8, <2>1, <2>2, <2>3
    <2>5. Steps'
      BY <1>5, <2>2
    <2>6. Wake'
      BY <2>1, <2>2 DEF Wake, LooksAgain, WorkIsQueued
    <2> QED  BY <2>4, <2>5, <2>6
  <1>13. CASE TurnIsSkipped \/ ConsumerEnds
    <2>1. lifecycleDone
      BY <1>13, Zenon DEF TurnIsSkipped, ConsumerEnds
    <2>2. lifecycleDone'
      BY <1>1, <2>1, Zenon
    <2>3. consumer'.at \in {"select", "take", "list"} => consumer'.todo = {}
      BY <1>3, <1>13 DEF TurnIsSkipped, ConsumerEnds
    <2>4. Steps'
      BY <1>0, <1>1, <1>2, <2>2, <2>3 DEF Steps
    <2> QED  BY <2>2, <2>4 DEF Wake, Handled
  <1>14. CASE PicksDocument
    <2>1. PICK d \in consumer.todo :
            /\ consumer.at = "next"
            /\ consumer' = IF files[d] = 0 THEN [consumer EXCEPT !.todo = consumer.todo \ {d}]
                           ELSE [consumer EXCEPT !.todo = consumer.todo \ {d}, !.at = "analyse", !.doc = d, !.snap = Captured(d)]
      BY <1>14, Zenon DEF PicksDocument
    <2>2. d \in Docs
      BY <1>3, <2>1
    <2>3. consumer'.todo = consumer.todo \ {d}
      BY <1>3, <2>1
    <2>4. files[d] # 0 => consumer'.at = "analyse" /\ consumer'.doc = d /\ consumer'.snap = Captured(d)
      BY <1>3, <2>1
    <2>5. consumer'.at \in {"next", "analyse"}
      BY <1>3, <2>1
    <2>6. UNCHANGED <<client, allOpen, documents, wake>>
      BY <1>14 DEF PicksDocument, workVars
    <2>7. ASSUME NEW e \in Docs, files[e] # 0, Accounted(e) PROVE Accounted(e)'
      <3>1. CASE e = d
        BY <1>4, <2>4, <2>7, <3>1 DEF Accounted, InHand
      <3>2. CASE e # d
        <4>1. Owed(e) => Owed(e)'
          BY <1>1, <2>1, <2>3, <2>6, <3>2 DEF Owed
        <4>2. Shown(e) => Shown(e)'
          BY <1>4, <2>5, <2>6 DEF Shown
        <4> QED  BY <2>1, <2>7, <4>1, <4>2 DEF Accounted, InHand
      <3> QED  BY <3>1, <3>2
    <2> QED  BY <1>5, <1>6, <1>7, <2>5, <2>7
  <1>15. CASE Fences
    <2>1. consumer.at = "analyse" /\ UNCHANGED <<client, allOpen, documents, wake>>
      BY <1>15 DEF Fences, workVars
    <2>2. PICK d \in Docs : d = consumer.doc
      BY <2>1 DEF RestInv, IInv, AnalysesOpen
    <2>3. connGeneration = boundGeneration => (SnapshotCurrent(d, consumer.snap) <=> consumer.snap = Captured(d))
      BY <1>3 DEF SnapshotCurrent, Captured, Stamps
    <2>4. consumer' = IF SnapshotCurrent(d, consumer.snap) THEN [consumer EXCEPT !.at = "send"]
                      ELSE [consumer EXCEPT !.at = "next", !.doc = NoDoc, !.snap = Nothing]
      BY <1>15, <2>2 DEF Fences
    <2>5. consumer'.at = (IF SnapshotCurrent(d, consumer.snap) THEN "send" ELSE "next") /\ consumer'.todo = consumer.todo
      BY <1>3, <2>4
    <2>6. SnapshotCurrent(d, consumer.snap) => consumer'.doc = d /\ consumer'.snap = consumer.snap
      BY <1>3, <2>2, <2>4
    <2>7. ASSUME NEW e \in Docs, files[e] # 0, Accounted(e), connGeneration = boundGeneration PROVE Accounted(e)'
      <3>1. Owed(e) => Owed(e)'
        BY <1>1, <2>1, <2>5 DEF Owed
      <3>2. CASE e = d /\ consumer.snap = Captured(d)
        BY <1>4, <2>3, <2>5, <2>6, <2>7, <3>2 DEF Accounted, InHand
      <3>3. CASE ~(e = d /\ consumer.snap = Captured(d))
        <4>1. Shown(e) => Shown(e)'
          BY <1>4, <2>1, <2>3, <2>5, <2>6, <2>7, <3>3 DEF Shown
        <4> QED  BY <2>2, <2>7, <3>1, <3>3, <4>1 DEF Accounted, InHand
      <3> QED  BY <3>2, <3>3
    <2>8. consumer'.at \in {"send", "next"}
      BY <2>5
    <2> QED  BY <1>5, <1>6, <1>7, <2>7, <2>8
  <1>16. CASE Sends
    <2>1. consumer.at = "send" /\ client' = [client EXCEPT ![consumer.doc] = consumer.snap] /\ UNCHANGED <<allOpen, documents, wake>>
      BY <1>16 DEF Sends, workVars
    <2>2. consumer'.at = "next" /\ consumer'.todo = consumer.todo
      BY <1>3, <1>16 DEF Sends
    <2>3. PICK d \in Docs : d = consumer.doc
      BY <2>1 DEF RestInv, IInv, AnalysesOpen
    <2>4. client'[d] = consumer.snap /\ \A e \in Docs : e # d => client'[e] = client[e]
      BY <1>0, <2>1, <2>3 DEF TypeOK
    <2>5. ASSUME NEW e \in Docs, files[e] # 0, Accounted(e) PROVE Accounted(e)'
      <3>1. Owed(e) => Owed(e)'
        BY <1>1, <2>1, <2>2 DEF Owed
      <3>2. CASE e = d
        BY <1>4, <2>1, <2>2, <2>3, <2>4, <2>5, <3>1, <3>2 DEF Accounted, InHand, Shown
      <3>3. CASE e # d
        BY <1>4, <2>2, <2>3, <2>4, <2>5, <3>1, <3>3 DEF Accounted, InHand, Shown
      <3> QED  BY <3>2, <3>3
    <2> QED  BY <1>5, <1>6, <1>7, <2>2, <2>5
  <1> QED  BY <1>9, <1>10, <1>11, <1>12, <1>13, <1>14, <1>15, <1>16 DEF Consumer

\* What is owed is accounted for in every reachable state.
LEMMA RestInvariance == Spec => []RestInv
  <1>1. RestInv /\ [Next]_vars => Steps' /\ Wake' /\ Handled'
    <2> SUFFICES ASSUME RestInv, [Next]_vars PROVE Steps' /\ Wake' /\ Handled'
      OBVIOUS
    <2>1. TypeOK'
      BY NextTypeOK DEF RestInv, IInv, ClosedIsCleared
    <2>2. CASE UNCHANGED vars
      <3>1. UNCHANGED <<files, policyRevision, connVars, catalog, event, reader, coordinator, watcher, consumer, client,
                        allOpen, documents, wake, lifecycleDone, connGeneration, boundGeneration>>
        BY <2>2 DEF vars, docVars, connVars, catVars, workVars
      <3>2. Steps' /\ Wake'
        BY <3>1 DEF RestInv, Steps, Wake, WorkIsQueued
      <3>3. ASSUME ~lifecycleDone', (connGeneration = boundGeneration)', NEW e \in Docs, files'[e] # 0 PROVE Accounted(e)'
        <4>1. Accounted(e)
          BY <3>1, <3>3 DEF RestInv, Handled, Open
        <4>2. Owed(e) => Owed(e)'
          BY <3>1 DEF Owed
        <4> QED  BY <3>1, <4>1, <4>2, AccountedStays
      <3>4. Handled'
        BY <3>3 DEF Handled, Open
      <3> QED  BY <3>2, <3>4
    <2> QED  BY <2>1, <2>2, ReaderRest, CoordinatorRest, WatcherRest, ConsumerRest DEF Next
  <1>2. IInv /\ IInv' /\ RestInv /\ [Next]_vars => RestInv'
    BY <1>1 DEF RestInv
  <1> QED  BY <1>2, InitRest, Invariance, PTL DEF Spec

-----------------------------------------------------------------------------
(* The results.                                                            *)

\* Closing a document leaves nothing on the client's screen once its handler
\* is through clearClosedDiagnostics, whatever publication was under way.
THEOREM ClosedDocumentsAreCleared == Spec => []ClosedIsCleared
  BY Invariance, PTL DEF IInv

\* publishDiagnosticsSnapshot sends a result under the connection generation,
\* the rules and the dialect it was computed for.
THEOREM ResultsAreSentWhileCurrent == Spec => SentWhileCurrent
  <1> DEFINE Current(d) == /\ client'[d].generation = connGeneration /\ client'[d].policy = policyRevision
                           /\ client'[d].variant = variant
             Step == \A d \in Docs : Sent(d) => Current(d)
  <1>1. IInv /\ [Next]_vars => [Step]_vars
    <2> SUFFICES ASSUME IInv, Next, NEW d \in Docs, Sent(d) PROVE Current(d)
      BY DEF Sent
    <2>1. CASE Sends
      BY <2>1 DEF Sends, Sent, IInv, FenceHolds, ClosedIsCleared, TypeOK
    <2>2. CASE Clears
      BY <2>2, NothingIsStamp DEF Clears, Sent, IInv, ClosedIsCleared, TypeOK
    <2>3. CASE UNCHANGED client
      BY <2>3 DEF Sent
    <2>4. Sends \/ Clears \/ UNCHANGED client
      BY DEF Next, Edits, Closes, ConfigurationChanges, Reader, ReaderMarks, ReaderSignals, StopDetaches, StopCancels,
             AttemptBegins, Attempt, AttemptFails, AttemptInstalls, Binds, Abandons, CoordinatorQueues, UnlessCoordinator,
             CatalogChanges, Watcher, WatcherReceives, WatcherEnds, WatcherQueues, UnlessWatcher,
             Consumer, Wakes, Takes, ListsOpen, TurnEnds, TurnIsSkipped, PicksDocument, Fences, ConsumerEnds, vars
    <2> QED  BY <2>1, <2>2, <2>3, <2>4
  <1> QED  BY <1>1, Invariance, PTL DEF Spec, SentWhileCurrent

\* At rest under a connection whose metadata was bound, the client shows every
\* open document as it is now: no mark is lost however marks, signals, takes
\* and the consumer's two looks at its work interleave.
THEOREM RestShowsThePresent == Spec => []RestIsCurrent
  <1>1. RestInv => RestIsCurrent
    <2> SUFFICES ASSUME RestInv, AtRest, boundGeneration = connGeneration, NEW d \in Docs, files[d] # 0
                 PROVE  client[d] = Captured(d)
      BY DEF RestIsCurrent, Open
    <2>1. ~lifecycleDone /\ ~event /\ ~wake
      BY Zenon DEF AtRest
    <2>2. /\ consumer.at = "select" /\ reader.at \in {"idle", "stopped"} /\ coordinator = "idle"
          /\ watcher \in {"idle", "done"} /\ consumer.todo = {}
      BY DEF AtRest, GoroutinesRest, RestInv, Steps
    <2>3. ~allOpen /\ documents = {}
      BY <2>1, <2>2 DEF RestInv, Wake, WorkIsQueued
    <2>4. ~Owed(d)
      BY <2>1, <2>2, <2>3 DEF Owed
    <2> QED  BY <2>1, <2>2, <2>4 DEF RestInv, Handled, Accounted, InHand, Shown, Open
  <1> QED  BY <1>1, RestInvariance, PTL

=============================================================================
