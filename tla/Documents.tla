------------------------------ MODULE Documents ------------------------------
(***************************************************************************)
(* The open documents and the analyses kept for them (handler/handler.go,  *)
(* language/document_cache.go).  The read loop changes the document under  *)
(* stateMu and, in a second step, advances the insertion epoch of the      *)
(* cache and drops the document's entry; the diagnostics consumer captures *)
(* the document and asks the cache for its analysis at any time, and the   *)
(* read loop does so between two notifications.  A text is the file        *)
(* revision it came with; parsing is a function of the text and the        *)
(* dialect and is left out.                                                *)
(***************************************************************************)
EXTENDS Naturals

CONSTANTS
  URIs,              \* documents
  Workers,           \* goroutines that ask for analyses
  MaxRevision,       \* bound: edits
  MaxEditorVersion,  \* bound: the client's version numbers
  MaxBinding         \* bound: connection generations

ASSUME DocumentsAssumption == MaxRevision \in Nat /\ MaxEditorVersion \in Nat /\ MaxBinding \in Nat

VARIABLES
  fileRevision, files,    \* Server: revision and text are 0 when the document is closed
  binding,                \* Server.connGeneration
  loop,                   \* the document the read loop has changed and not yet invalidated
  cacheEpoch, documents,  \* language.Service
  worker                  \* what each worker captured, and the analysis it was given

docVars == <<fileRevision, files, binding, loop, cacheEpoch, documents, worker>>

Closed == [text |-> 0, version |-> 0]
NoEntry == [text |-> 0, version |-> 0, binding |-> 0]
NoWork == [at |-> "idle"]
Identity == [text : 1..MaxRevision, version : 1..MaxEditorVersion, binding : 0..MaxBinding]

DocTypeOK ==
  /\ fileRevision \in 0..MaxRevision /\ binding \in 0..MaxBinding
  /\ files \in [URIs -> [text : 1..MaxRevision, version : 1..MaxEditorVersion] \union {Closed}]
  /\ loop \in {NoWork} \union [at : {"changed"}, uri : URIs]
  /\ cacheEpoch \in Nat
  /\ documents \in [URIs -> Identity \union {NoEntry}]
  /\ worker \in [Workers -> {NoWork} \union [at : {"captured"}, uri : URIs, epoch : 0..cacheEpoch, doc : Identity]
                                   \union [at : {"given"}, uri : URIs, epoch : 0..cacheEpoch, doc : Identity, entry : Identity]]

DocInit ==
  /\ fileRevision = 0 /\ files = [u \in URIs |-> Closed] /\ binding = 0 /\ loop = NoWork
  /\ cacheEpoch = 0 /\ documents = [u \in URIs |-> NoEntry]
  /\ worker = [w \in Workers |-> NoWork]

-----------------------------------------------------------------------------
(* Notifications, on the read loop.                                        *)

Replaces(u, version) ==
  /\ fileRevision' = fileRevision + 1 /\ loop' = [at |-> "changed", uri |-> u]
  /\ files' = [files EXCEPT ![u] = [text |-> fileRevision + 1, version |-> version]]
  /\ UNCHANGED <<binding, cacheEpoch, documents, worker>>

\* openFileAtVersion: whatever was there goes.
DidOpen(u, version) == loop = NoWork /\ fileRevision < MaxRevision /\ Replaces(u, version)

\* updateFileVersion: a change of an older version is ignored.
DidChange(u, version) ==
  /\ loop = NoWork /\ fileRevision < MaxRevision /\ files[u] # Closed /\ version >= files[u].version
  /\ Replaces(u, version)

\* updateFileAtRevision, for a save that carries the text.
DidSave(u) ==
  /\ loop = NoWork /\ fileRevision < MaxRevision /\ files[u] # Closed /\ Replaces(u, files[u].version)

\* closeFile.  Closing what is not open only invalidates, and is left out.
DidClose(u) ==
  /\ loop = NoWork /\ files[u] # Closed
  /\ files' = [files EXCEPT ![u] = Closed] /\ loop' = [at |-> "changed", uri |-> u]
  /\ UNCHANGED <<fileRevision, binding, cacheEpoch, documents, worker>>

\* A plausible mistake: the entry is dropped and the epoch stays.
InvalidateEntryOnly ==
  /\ loop # NoWork /\ loop' = NoWork
  /\ documents' = [documents EXCEPT ![loop.uri] = NoEntry]
  /\ UNCHANGED <<fileRevision, files, binding, cacheEpoch, worker>>

InvalidateDocument ==
  /\ loop # NoWork /\ loop' = NoWork
  /\ cacheEpoch' = cacheEpoch + 1 /\ documents' = [documents EXCEPT ![loop.uri] = NoEntry]
  /\ UNCHANGED <<fileRevision, files, binding, worker>>

\* attachIntent begins an attempt.
Rebind ==
  /\ binding < MaxBinding /\ binding' = binding + 1
  /\ UNCHANGED <<fileRevision, files, loop, cacheEpoch, documents, worker>>

-----------------------------------------------------------------------------
(* Workers.                                                                *)

\* captureEditorSnapshot: document, generation and epoch under stateMu.
Capture(w, u) ==
  /\ worker[w] = NoWork /\ files[u] # Closed
  /\ worker' = [worker EXCEPT ![w] =
       [at |-> "captured", uri |-> u, epoch |-> cacheEpoch,
        doc |-> [text |-> files[u].text, version |-> files[u].version, binding |-> binding]]]
  /\ UNCHANGED <<fileRevision, files, binding, loop, cacheEpoch, documents>>

\* Service.documentAnalysis: a hit shares the entry; a stale capture, or one of an
\* older version, gets a detached one; any other is inserted.
Detached(r) ==
  \/ r.epoch # cacheEpoch
  \/ /\ documents[r.uri] \notin {NoEntry, r.doc}
     /\ documents[r.uri].binding = r.doc.binding /\ r.doc.version < documents[r.uri].version

DocumentAnalysis(w) ==
  LET r == worker[w] IN
  /\ r.at = "captured"
  /\ worker' = [worker EXCEPT ![w] = [at |-> "given", uri |-> r.uri, epoch |-> r.epoch, doc |-> r.doc,
                                      entry |-> IF documents[r.uri] = r.doc THEN documents[r.uri] ELSE r.doc]]
  /\ documents' = IF Detached(r) THEN documents ELSE [documents EXCEPT ![r.uri] = r.doc]
  /\ UNCHANGED <<fileRevision, files, binding, loop, cacheEpoch>>

Finish(w) ==
  /\ worker[w].at = "given" /\ worker' = [worker EXCEPT ![w] = NoWork]
  /\ UNCHANGED <<fileRevision, files, binding, loop, cacheEpoch, documents>>

DocNext ==
  \/ \E u \in URIs, v \in 1..MaxEditorVersion : DidOpen(u, v) \/ DidChange(u, v)
  \/ \E u \in URIs : DidSave(u) \/ DidClose(u)
  \/ InvalidateDocument \/ Rebind
  \/ \E w \in Workers : (\E u \in URIs : Capture(w, u)) \/ DocumentAnalysis(w) \/ Finish(w)

DocSpec == DocInit /\ [][DocNext]_docVars

-----------------------------------------------------------------------------
(* Properties.                                                             *)

\* Between two notifications the cache holds an analysis of the document as it is, or
\* none: whatever was captured before an edit, a close or a reopening, under whichever
\* connection and whenever it reaches the cache, puts back nothing older
\* (InvalidateDocument, documentAnalysis).
CacheHoldsTheDocument ==
  /\ DocTypeOK
  /\ \A u \in URIs : documents[u] # NoEntry /\ loop # [at |-> "changed", uri |-> u] =>
       /\ documents[u].text = files[u].text
       /\ documents[u].version = files[u].version
=============================================================================
