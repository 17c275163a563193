# Verification of sqls

TLA+ models of the concurrent core of sqls, of the way its catalogue is read, merged
and shown, and of what its diagnostics claim about SQL, the TLC instances that check them, and
proofs that TLAPS checks about every module of the concurrent core (loader, permits, registry, store,
details, coordinator, diagnostics, events, documents, commands and definition files), about the
merging of the catalogue and about what a detail is of. Paths below are relative to the
repository's root.

- [The system](#the-system)
- [Modules](#modules)
- [Runs](#runs)
- [Fairness and rest](#fairness-and-rest)
- [Proofs](#proofs)
- [Divergences](#divergences)
- [Not modelled](#not-modelled)
- [Plan](#plan)

## The system

sqls is a language server for SQL. It answers an editor over JSON-RPC, keeps one
database connection, and reads the database's catalogue in the background so that
completion, hover and diagnostics can answer from memory. Its own core logic is
not SQL text but coordination: who may load what, when a result is too old to be
used, and what happens when the user switches connection or leaves in the middle.

```
 editor --requests--> dispatch (one read loop; commands run on goroutines)
                        |  documents            |  switch, configuration
                        v                       v
                   diagnostics  <--marks--  connection coordinator --> cleanup worker
                        ^                       | Acquire / Refresh / Release
                        | events                v
                        +---- event hub ---- metadata registry --> finalizers
                                                | one track per (Key, Scope)
                                                v
                                   store: lease operations, maintenance
                                       |                  |
                                       v                  v
                                    loader            detail store
                                       \__ permit budget __/   --> provider (driver)
```

| Component | State it keeps | Operations | Hard because | Correct when |
|---|---|---|---|---|
| Loader (`metadata/loader.go`) | the published snapshot, one job context and one Done channel per generation, the count of goroutines | Reset, Start, MarkStartFailed, installSettled, MarkStale, Stop, Wait; a schedule goroutine per generation, a runner per category | retired schedulers and runners go on beside the current ones; statuses are written under `l.mu`, decisions made outside | a snapshot is of one generation and its cache matches its status; jobs see their prerequisites; generations settle; Wait means idle |
| Budget (`metadata/budget.go`) | permits per host, per store; wake epochs | tryAcquire, acquire, release, retain | permits are taken in two steps, a failed second one is rolled back, and epochs are captured before the attempts | permits match holders; no wakeup is lost; no busy spin |
| Registry (`metadata/registry.go`) | table of entries and tracks, reference counts, owned tracks | Acquire, Release, Close, createTrack, finalizeTrack | creation, last release, retirement and Close interleave; a store may be recreated while the old one drains | one referenced store per scope; no provider leaks or closes under its load; Close returns after everything |
| Store (`metadata/lease.go`, `watch_refresh.go`) | the current and the staging loader, the detail fence, the maintenance baseline and epoch | Refresh, RefreshInBackground, Maintain, Invalidate, Detail | each operation is several critical sections, with native reads in between | what is fresh was read after every Invalidate; a trusted baseline misses no change |
| Detail store (`metadata/details.go`) | entries by coverage, an LRU list, byte count, drained channel, generation and stale flag | acquire, run, settle, beginGeneration, markStale, wait | loads outlive the fence they started under; readers join and leave | one load per coverage and fence; answers belong to the fence asked under |
| Event hub (`metadata/events.go`, `registry.go`) | subscribers with one-slot channels | subscribe, publish, unsubscribe, closeAll; publishTrackEvent | a publisher looks at the snapshot and publishes in two steps; a full slot is overwritten | a watcher with nothing left to read has read the current snapshot; nothing is sent on a closed channel |
| Connection coordinator (`internal/handler/connection_lifecycle.go`, `handler.go`) | pending and active request, last key; connection, state, generation; bound lease; cleanup queue | request, run, attachIntent, bindMetadata, Stop, cleanup worker, acquireReadyConnection | requests displace one another and the attempt under way; Stop at any point | everyone is answered once; no connection or lease leaks; queries keep their connection |
| Diagnostics (`internal/handler/diagnostics*.go`, `editor_snapshot.go`) | dirty documents, one wake, the consumer, the publication mutex | queue, signal, take, capture, fence, publish, clear | three goroutines mark, one consumes, results are slow | what is sent is current; at rest the client is up to date |
| Dispatch and commands (`internal/handler/dispatch.go`, `execute_command.go`, `query_parameters.go`, `explain.go`) | cancel functions by request; for each command its captured context and its position in the batch | Handle, register, cancel, unregister; executeQuery, getQueryParameters, executeQuery with values, explainQuery | commands run on goroutines beside edits, cancellations and switches; a prompt is answered later than it was asked | a reply tells what was executed; statements run on the text and the connection that were reviewed |
| Documents (`handler.go`, `language/document_cache.go`) | open files with revisions, one analysis per document, an insertion epoch | didOpen, didChange, didSave, didClose, documentAnalysis, InvalidateDocument | the change and the invalidation are two steps; an analysis outlives the text it was asked for | what is cached is of the open text, and of this insertion epoch |
| Definition snapshots (`internal/handler/snapshot_store.go`, `editor_snapshot.go`, `definition.go`) | directories created, the current one, a shutdown flag; the files of several processes | write, writeCandidate, removeCandidate, prune, RemoveAll, BeginShutdown, publication | writing races pruning, switching, shutdown, and other processes and their crashes | a file that is shown is not removed; nothing stays after a clean stop; what a crash leaves is pruned |
| Merging (`metadata/merge.go`, `internal/database/interbase_metadata_*.go`) | the catalogue cache, by category | the readers of InterBase's categories, mergeMetadata, validateMetadataPayload | categories finish in any order, names fold, columns are enriched by keys and by views | the order of the jobs does not show in the result |
| Incremental refresh (`metadata/watch_refresh.go`, `watch_merge.go`, `internal/database/interbase_watch_*.go`) | the cache and the fingerprint it was made under | ReadFingerprint, mapWatchedChanges, ReadWatchedChanges, MergeObjects, ReadWatchedFull | the tables are read one after the other while statements change them; one row touches many objects | the cache is what a full load gives |
| Descriptors (`internal/database/interbase_catalog.go`, `interbase_cache_bulk.go`, `interbase_metadata_detail.go`, `interbase_ddl.go`) | none: functions of catalogue rows | the readers of columns, domains, parameters, indexes, triggers and keys; their rendering as statements | a declaration passes through rows that do not record all of it, and is read by two readers | each reader says what was declared, or refuses |
| Detail plans and navigation (`interbase_metadata_detail.go`, `mysql_metadata_detail.go`, `duckdb_metadata_detail.go`, `language/navigation_target.go`, `navigation_detail.go`) | the details of a generation | MetadataDetailPlan of three engines, Detail, Definition and Hover | a name is resolved by its fold, its detail is planned from a snapshot and read later | what is shown is of the object asked for, as it was in the generation it names |
| Symbol analysis (`internal/sqlsymbol`, `language/navigation.go`) | none: functions of a text and a catalogue | binding, references, rename, outline; findings on names, locals, flow, singletons and assignments | names mean what scopes, aliases, triggers and earlier statements make of them; loops, EXIT, rounding, NULL, outer joins | what a name denotes, every run, every database and every value bears the finding out; a rename changes no binding |

The remaining components (the other language requests, parser, formatter, dialects,
drivers, per-engine providers, configuration) are text or I/O; `PROJECT.json` lists
every one with the reason it is left out.

## Modules

Each module starts with what one step is and what is abstracted. One action stands
for one critical section, one channel operation or one context check of the code,
so everything between two of them can interleave. `PROJECT.json` maps each
definition to its lines. Definitions introduced by a comment that begins with
"Slip:" or "A plausible mistake:" are what a bug would make of the definition they precede;
they are not part of any specification and exist to show that a property can fail.

**MetadataLoader** models one `metadata.Loader`. `generation ... cache` are the
fields of the immutable snapshot, `ctx` and `done` the context and channel of each
generation, `active` the wait group of `Wait`. `pc, plan, local, hand, staged` are
the schedule goroutine of each generation: `local` is its private copy of the
statuses, `hand` the job it holds between two critical sections. `runner, input,
outcome, results` are the runners and the buffered result channel. A cached
category is `<<kind, generation of the job that read it>>`, which is what tells a
mixed snapshot from a clean one. Operations (`Reset, Start, MarkStartFailed,
InstallSettled, MarkStale, Stop, ParentEnds`) are the API, allowed at any time;
`Scheduler(g)` and `RunnerStep(g, k)` are the goroutines; `NativeReturn` is the
driver. Permits are one pool here; the scheduler wakes when one is free, which is
what MetadataBudget shows about the epochs.

**MetadataBudget** models what the loader leaves out: store and host permits,
taken in that order, the rollback when the second is refused, the two wake epochs
a schedule loop captures before its attempts and parks on, and the loads of the
detail store that block on the same permits. Jobs have no dependencies here.

**NativeCalls** is what the permits are for, with neither epochs nor loops: a job or a detail
load makes one native call, as long as the host and the store have room for it, and a
call that nobody waits for any more counts until it returns. `MetadataBudget!BoundsCalls` is
the refinement.

**MetadataRegistry** models `Registry` and the end of `Lease`: the table (`tracks`,
`entry`), tracks with `refs`, `retired`, `creation`, `provider`, `load`, the
finalizer's stages `fin`, the permit sets of the budget with their reference
counts, and callers that acquire, abandon, release or close. `r.mu` makes look-up,
creation of the table entry and retirement single steps, as in the code; the
factory, the drain and the provider's Close are steps of their own.

**MetadataStore** models one live track from inside: `loader` and `staging` among a
few loaders, each with its generation, load state and stale flag; the detail store
as its fence (`dgen`, `dstale`) and the readers that hold it; the maintenance
baseline and `invalidations` (the maintenance epoch); the stages of the operation
under way `op`, of an `Invalidate` (`inv`), and of the finalizer (`fin`). The
database's schema is a number that can only grow; `covers[l]` is the schema a
loader's cache is known to include. `track.refreshMu` serializes the three
refreshing operations, so one `op` is enough; Invalidate and the finalizer do not
take it. Retirement is one action here; the table is MetadataRegistry's.

**DetailStore** models `detailStore`: `entries` and `lru` are the map and the list,
`run` the loads by number with the fence they started under, `drained` the channel
of the current burst, `closer` the finalizer's markStale and wait. What a load
costs and whether its coverage may be kept are constants; what it returns is a
choice. Permits are granted by fairness of MetadataBudget.

**DetailPromise** is what a reader may rely on, with neither map, list nor
goroutines: a request is refused exactly when the store is stale or of another
generation, and otherwise answered by a value loaded for its coverage since the
fence it saw, by the load's failure, or by stale if a fence was raised meanwhile.
`DetailStore!KeepsPromise` is the refinement; the mapping `AnswerOf` reads a
reader's answer off its run.

**ConnectionCoordinator** models requests (numbered in order of arrival), the
coordinator goroutine (`pc` names the point in `run`, `attachIntent` and
`bindMetadata`), `Server`'s connection fields, connections and leases by number,
Stop and the cleanup worker, queries under `connMu` and the watcher of metadata
events. What a driver's open, `Acquire` and `Refresh` return is a choice.
`connGeneration` is written by this goroutine alone, so the comparisons of an
attempt with the generation it started are true and left out; the metadata target
is identified with the connection's key; the `initialized` flag is left out; the
steps of Stop that follow its unlock work on values it has taken and are one step
with it; `stateMu` is held from `AttachChecks` to `AttachInstalls`.

**Diagnostics** models the dirty set, the wake and the goroutines around them: the
read loop (`reader`), the coordinator as far as it touches diagnostics, the metadata
watcher and the consumer, with `client` the last diagnostics sent for each document.
What an analysis finds is left out: a diagnostic is identified with the snapshot it
was computed from. There is one read loop, so `didSave` is an edit whose revision
check cannot fail. Stop runs on the read loop or after its end, and a client is
assumed to send nothing but `exit` after `shutdown`.

**EventHub** models the subscribers' slots, the publishers and the hub's mutex: `version`
is the snapshot of the current loader, and an event carries the version its publisher
saw. A publisher that has changed something `Owes` a look; it takes `hubMu`, finds the
open subscriptions, and sends to one after another, dropping an unread event and sending
as separate steps, before it unlocks. Watchers receive and read in between; who
subscribes, leaves or closes waits for the mutex. The channels that `closeAll` closes
close in one step, since each watcher sees its own only.

**Commands** models `workspace/executeCommand`: requests that are received, register
a cancel function, wait for the connection's read lock, run the statements of a
text one by one and answer. `req[c].cap` is the context captured at the start,
`offered` the contexts a parameter prompt has shown the client, `ran` what was sent
to the database under which connection. The routing of a statement
(`Route`, `Method`) depends on the catalogue, which may not be loaded yet, and on
what the driver can do.

**Documents** models open files under `stateMu` and the analysis cache, whose entry is
replaced, detached or invalidated; workers capture a document, and ask for its
analysis later.

**SnapshotStore** models several processes over one directory tree: each write is
the sequence of file-system calls the code makes under its mutex, with the fences
before and after it; a process may crash between any two of them and its pid may
come back.

**CatalogCache** has the catalogue as data: what the InterBase readers return for
every category (`Read`), what `mergeMetadata` makes of it (`Merge`, `MergeColumns`,
`Rekeyed`) and the derived maps. **MetadataMerge** runs the jobs of one generation in
any order the plan allows. **WatchedRefresh** runs the incremental refresh on the
same cache: `Fingerprint` is the set of system-table rows, `Mapping` and `Select`
are `mapWatchedChanges`, `ReadScoped` and `ReadChanges` the scoped reads, `MergeObjects`
the replacement. `Statement` is DDL between refreshes; in `RefreshTorn` a statement
commits between two of the reads.

**CatalogDescriptors** follows a declaration through the catalogue. `Field` and `ColumnRow` are how
the engine stores it (external); `DriverColumn` and `BulkColumn` are the two readers,
`ColumnDescription`, `DomainDescription`, `IndexDescription` and the like the descriptors, and
the statements are rendered from those. A declaration is a record, a statement the record of what it says. There
is no behaviour: one state per declaration. What the engine takes as one is
`DeclarationsAreWritten`: numbers of up to 18 digits, 15 in dialect 1, a scale within them,
defaults that say something. `Renders` makes one exception, which the code's own comment
names (`interbase_catalog.go:95`): a number of dialect 1 without scale in a double, whose precision
the catalog does not record, is shown as DOUBLE PRECISION.

**DetailPlans** has the catalogue of a generation as objects with versions, and readers
that ask for details or navigate to one: `DetailPlan` is `MetadataDetailPlan` of InterBase,
MySQL and DuckDB, `NavigationTarget` the look-ups of the language service. Objects are
altered, dropped and created between the steps, and a refresh starts a new generation.

**ProcedureSyntax** and **FlowAnalysis** model the flow findings. A procedure is a tree of
statements; `ReportOf` computes the findings as `analyzeFlowScope` does (abstract
states, fixed-point rounds, the scan for dead stores); the actions then run the
procedure in every possible way and record what the findings speak of.

**SingletonSelect** models `keysBound` and the acceptance rules of the check that a
SELECT INTO returns one row, against the rows it returns from small tables that
respect their keys.

**ProcedureSyntax** and **Assignments** model what is said of assignments. A statement
is a tree that is spelled as tokens; `FactOf`, `WidthOf`, `Edges` and `Compatibility`
work on tokens the way the code does (splitting at top-level operators, pairing
sources with destinations, resolving names scope by scope), and `Outcomes` gives what
the tree means to the engine: every value, NULL or error. The engine is external and
modelled from `doc/interbase-diagnostic-semantics.md`.

**ScriptSyntax** has scripts as trees, their spelling as tokens, and what each written name
denotes to the engine (external). **SymbolAnalysis** models what navigation and diagnostics
share: procedures and their declarations, the context of each token, queries and the
relations they read, and what a name is taken for. **SymbolBinding** renames locals over and
over and compares occurrences, alias definitions and the outline with what is denoted.
**NameChecks** models the diagnostic model of a script (statements, triggers, WITH, the outputs
of queries, DDL earlier in the script) and the findings on names that come from it, under
every subset of the metadata that may be loaded. What the code is known to say wrongly is
excepted by name in its property (Divergences 20 to 26). `MCScriptData` writes the scripts.

The interfaces between modules are choices on one side and properties on the
other: permits (MetadataBudget provides, MetadataLoader and DetailStore use), a
store's end (MetadataRegistry and MetadataStore describe the same finalizer from
outside and inside), leases (MetadataRegistry provides, ConnectionCoordinator
uses), connection generations (ConnectionCoordinator and Diagnostics).

## Runs

All bounds are constants of the modules; every configuration names them. Liveness
is checked on complete instances, never under a state constraint.

| Run | Bounds, and why they are enough | Shows |
|---|---|---|
| `loader_safety` | 2 generations, 2 categories, one depending on the other, 1 permit, parallelism 2: a retired generation beside the current one is the interesting case, and one permit makes them compete | snapshots never mix, jobs see inputs, who waits is told the truth (`WaitersAreToldTheTruth`: `Done` closes settled, `Wait` returns idle), revisions order, settled stays |
| `loader_live` | 2 generations, 1 category, 1 permit | `LoadsSettleAndDrain`: a generation parked on the permit of a retired one settles if native calls return; cancellation and Stop settle without them |
| `budget` | 1 host permit, 1 permit per store. Two loops on two stores, a job each, and a detail load, one loop can be cancelled: both levels are contended. Or two loops of one store, two jobs each, started while the load is in a native call that does not return: each can find both levels full in one pass and wake the other | permits match holders; native calls stay within both bounds, a call per job (refinement of NativeCalls); every job gets its turn; a loop stops polling unless another loop of its store polls for ever too (Divergences, 5) |
| `stores` | 1 key, 2 scopes, 3 callers, 2 stores: a holder, a waiter and a closer; one store retired while the next is created. Beside it: a database of 4 relations, every order of the jobs; 3 relations and 2 statements, at any point of a refresh; every declaration over some fifteen types in two dialects, with and without domains, defaults and flags; nine catalogues of objects whose names fold alike, two readers, one change, two generations | one referenced store per scope, permits shared, drained before closed, nobody stranded; the order of jobs does not show, an incremental refresh is a full load; descriptors say what was declared; a detail is of the object asked for |
| `store` | two instances side by side: 3 generations, 2 schema changes, 2 invalidations, all three operations and no reader; Refresh and Maintain with a reader, 1 schema change, 1 invalidation | what is fresh was read after every Invalidate, and a trusted baseline misses nothing; details follow the loader; retirement inside an operation ends, and closes the provider under nobody |
| `store_background` (violation) | the second with RefreshInBackground | see Divergences, 1 |
| `detail` | 2 readers, 2 kept coverages and a volatile one, room for one entry, 2 loads, 2 generations, 1 further fence | joins, withdrawal, eviction, a load that outlives its fence; refinement of DetailPromise |
| `coordinator` | three instances side by side: 3 requests for 2 connections, the first for a given one since they are alike, with a queue of 1 (the code has 2, which needs more requests to fill); 2 requests and a query; 2 requests, a query and Stop at any point | nothing leaks, after the end of the cleanup least of all; queries and metadata match the connection, the last switch takes, Stop ends the cleanup, everyone is answered |
| `diagnostics` | 1 document of 2 revisions, 1 dialect (what an attempt can change of it shows in its generation already), 1 configuration change, 1 attempt, 2 catalogues, Stop at any point between handlers. Beside it: procedures of three statements, one nesting and a loop, over 2 locals; queries of one or two tables of at most 2 rows, and 2 columns; some 15,000 assignments whose sources nest to depth 3; scripts of one to three statements over a few tables, views and procedures, each query nested at most once, quoted names among them, and every set of loaded metadata; two renames of each local of a script to each of a few names | the fence, the lost wake, closing, rest; findings are borne out by every run and every value, and names are judged as they are meant, apart from the exceptions under Divergences 13 and 19 to 26, all of which occur; what is accepted as a singleton returns one row; references, renames, alias definitions and the outline follow what names denote |
| `diag_offline` (violation) | 1 document, 1 attempt that may fail | see Divergences, 2 |
| `editor` | side by side: 2 publishers, 2 subscribers, 3 versions; 2 commands, 2 texts, 2 connections, the driver of the first with every ability; 2 documents, 2 workers, 2 revisions; 2 processes with pids 1 and 2, 2 attempts, 1 crash | watchers catch up, nothing is sent after close; replies tell the truth, statements run as reviewed; the cache holds the document; files are accounted for |
| `name_scopes` (violation) | a trigger with or without SQL in its body, then a statement with or without a nested query | see Divergences, 3 |

Parts that stand side by side in one run share no state; `part` tells them apart and
the other parts' variables keep their first values.

The runs of the registry, the loader, the budget, the store and the detail store
do not check deadlock: their counters are bounded (generations, tracks, loads),
callers owe nothing, and an instance in which all is used up stops. What must not
stop is stated by the liveness properties and by `NobodyIsStranded`. The
coordinator and diagnostics runs check deadlock; their stuttering end is an action
of its own (`Done`, `Rests`) guarded by the states in which the server may rest.

`TypeOK` of each module is checked by a run, as the first conjunct of a safety property
(`CacheMatchesStatus`, `PermitsMatchHolders`,
`OneStoreWhileLeased`, `Drained`, `CacheConsistent`, `ClosedIsCleared`, `RepliesTellTheTruth`,
`CacheHoldsTheDocument`, `SnapshotsAccounted`, ...). The coordinator's is part of the invariant
that is proved.

## Fairness and rest

Fairness is that of the Go scheduler: a goroutine that can take a step takes one
eventually (weak fairness of `Scheduler(g)`, `RunnerStep`, `LoopStep`, the
coordinator, the consumer and so on). A blocking channel send is first in, first
out, so the steps of a detail load (`LoadStep`), which wait for permits, are strongly fair.
API calls, edits, cancellations and Stop are never fair.

Native calls deserve care, since nothing bounds a driver. The loader and budget
modules assume nothing about them: `LoadsSettleAndDrain` and
`EveryJobRunsNobodySpins` carry `CallsReturn` as a hypothesis where they need it, and what must hold without it
(a cancelled generation settles, a loop does not spin) is stated without it. The
store's and the coordinator's specifications assume that reads, opens and registry
calls return, which is what their liveness means there.

The registry and the detail store would need large fair instances, and in them
nothing can spin: every step that goes on by itself takes a goroutine or a caller
closer to its end. Liveness is stated there at rest: when no step that goes on by
itself is enabled (`AtRest`), nobody is waiting and every retired store is
finalized.

## Proofs

Each component has its theorems in a module of its own. They hold for every value of the
constants that satisfies the assumption of the component's module: any number of callers,
requests, categories, documents, processes, and any of the bounds, which are thereby no
more than names. The assumptions say that sets which are counted are finite, that
bounds are numbers, that none of the values that stand for "nothing" is a real one, and that a
detail store has a coverage to load. What a catalogue or a database may be is assumed as it is
written (`CatalogsAreWritten`, `WorldsAreDatabases`): the names of a category differ, rows lead to
rows that exist, folding a folded name changes nothing; and a declaration as the engine takes it
(`DeclarationsAreWritten`). TLC evaluates all of them on every run.

What is proved is an inductive invariant and what follows from it. TLC checked each
invariant before it was proved, on the instances of the runs.

| Module | Invariant | Theorem | States |
|---|---|---|---|
| `MetadataLoader_proofs` | `IInv`, `ToldInv` | `TypeCorrect` | `Spec => []TypeOK` |
| | | `SnapshotsNeverMix` | `Spec => []CacheMatchesStatus`, `TypeOK` included |
| | | `JobsSeeTheirInputs` | `Spec => []InputsLoaded` |
| | | `RevisionOrdersSnapshots` | `Spec => RevisionOrder` |
| | | `SettledForGood` | `Spec => SettledStays` |
| | | `WaitersHearTheTruth` | `Spec => []WaitersAreToldTheTruth` |
| | `DetailInv` | `DetailsAreOfWhatIsAsked` | `DetailSpec => []DetailsAreOfTheObject` (module DetailPlans) |
| | none | `DeclarationsAreSaid` | `DescriptorInit => DescriptorsSayWhatIsDeclared` (module CatalogDescriptors), for subjects with `DeclarationsAreWritten` |
| `MetadataBudget_proofs` | `IInv` | `PermitsAreAccountedFor` | `Spec => []PermitsMatchHolders` |
| | | `PermitsBoundCalls` | `Spec => BoundsCalls`: the permits implement NativeCalls |
| `MetadataRegistry_proofs` | `RInv` | `StoresAreShared` | `Spec => []OneStoreWhileLeased` |
| | | `OverlappingStoresSharePermits` | `Spec => []SharedPermits` |
| | | `NothingOutlivesClose` | `Spec => []ClosedMeansDrained` |
| | | `NobodyWaitsInVain` | somebody waits, or a retired store is not finalized, only while a guard holds |
| | `MergeInv` | `JobsMergeInAnyOrder` | `MergeSpec => []MergedInAnyOrder` (module MetadataMerge), for databases that are `WorldsAreDatabases` |
| `MetadataStore_proofs` | `SInv` | `FreshIsCurrent` | `Spec => []FreshAndCovered` |
| | | `DetailsAreFenced` | `Spec => []DetailsFollow` |
| | | `NothingRunsAfterClose` | `Spec => []Drained` |
| `DetailStore_proofs` | `DInv`, `ListInv` | `WaitIsForAll` | `Spec => []WaitDrains` |
| | | `DetailsAreConsistent` | `Spec => []CacheConsistent` |
| | | `LoadsAreShared` | `Spec => [](OneLoadPerCoverage /\ EntriesAreCurrent)` |
| | | `DetailsKeepPromise` | `Spec => KeepsPromise`: the store implements DetailPromise |
| | | `NobodyWaitsInVain` | a reader or the finalizer waits only while a guard holds |
| `ConnectionCoordinator_proofs` | `CInv`, `SwitchInv` | `NothingIsLeaked` | `Spec => []NothingLeaks` |
| | | `QueriesHaveTheConnection` | `Spec => []QueriesMatch` |
| | | `LastSwitchIsWhatRemains` | `Spec => []SwitchTakes` |
| `Diagnostics_proofs` | `IInv`, `RestInv` | `ClosedDocumentsAreCleared` | `Spec => []ClosedIsCleared` |
| | | `ResultsAreSentWhileCurrent` | `Spec => SentWhileCurrent` |
| | | `RestShowsThePresent` | `Spec => []RestIsCurrent` |
| `Editor_proofs` | `HubInv` | `Watched` | `HubSpec => []WatchersCatchUp` |
| | | `ClosedIsSilent` | `HubSpec => NothingAfterClose` |
| | `DocInv` | `CacheIsOfTheDocument` | `DocSpec => []CacheHoldsTheDocument` |
| | `CmdInv` | `RepliesAreTrue` | `CmdSpec => []RepliesTellTheTruth` |
| | | `StatementsAreReviewed` | `CmdSpec => StatementsRunAsReviewed` |
| | `SnapInv` | `SnapshotsAreAccountedFor` | `StoreSpec => []SnapshotsAccounted` |

The theorems about one module share its invariant, whose own theorem is called
`Inductive`, `...Invariant` or, in the diagnostics, the lemma `Invariance`. An action property
follows from the invariant at both ends of a step. Each proof goes by action, with a lemma
for the steps that leave what it speaks of alone.

### Why the invariants say what they say

**Loader.** A scheduler publishes from its private `local` states and its staged cache, so
one must know that while its generation is current and its context live, those agree with
the published ones (`LocalAgrees`); that the job in hand is still pending with its
prerequisites ready, or marked in `local` when its result is merged (`HandInv`); that a
runner which owes a result belongs to a category its scheduler has marked loading
(`RunnersAreLoading`); and that what has not begun is empty (`BeforeStart`, `FutureUntouched`,
`IdleIsEmpty`). `ToldInv` adds what those who wait rely on: whoever ends the current context, or
closes its Done, has settled what was unsettled (`EndsAreSettled`), because the scheduler
leaves its loop with nothing of its own unsettled and the snapshot shows it
(`TerminalAgrees`); and `active` and `slots` are the numbers of live goroutines and
permits out (`Counted`), which is where finite cardinalities come in.

**Budget.** `PermitsMatchHolders` is nearly inductive: `TriesWhatIsPending` adds that the job a
loop takes permits for has no runner yet, since otherwise it could be counted twice
(`Shapes` only says that the variables are functions). The counting lemmas say that one actor more or less at
the stages that hold a permit is one permit more or less. The refinement maps a grant to the
start of a call and a return to its end; that a call starts only where there is
room is the counting again, of the actors of one store and of the host.

**Registry.** `OneStoreWhileLeased` speaks of referenced stores only; the invariant says of
every track how it got there. References are counted by the callers that have not let go
(`CallersCounted`); the table leads to exactly the tracks that are not retired
(`TablesLead`); a finalizer that has come to a stage has left the earlier ones
(`FinalizersWait`); Close awaits what was live when it began (`CloseWaits`); a permit set is
the key's, and counted by the tracks that have not released it (`PermitsCounted`).

**Store.** `FreshAndCovered` says nothing of an operation half-way, and there the code is
delicate. An operation of `refreshMu` stands with the loader it began with; native work
runs only for the published and for the staging loader (`Places`, `Running`); the finalizer's
list holds every loader that may still run some (`Finalizing`), because the swap and the
retirement exclude each other under `r.mu`. What is not stale was read after the last
Invalidate, except between a swap and its trailing mark (`Fresh`). A fingerprint is never
ahead of what its cache was read from (`Covered`). The detail fence is the published generation
except between two steps of a replacement (`DetailFence`), and without RefreshInBackground
nothing opens a finalized detail store to anybody who asks (`Unseen`).

**Detail store.** `active` counts the loads in flight and the channel is open as long as
there is one (`LoadsCounted`); a load that has not settled is the entry of its coverage unless
a fence overtook it (`EntriesFenced`), which is what makes it single; how it ended agrees with
the fences since it started (`OutcomesFenced`, `ReadersFenced`); and the channel the
finalizer captured is of the present burst unless a generation was begun since
(`CloserInv`). In the refinement each step is mapped to the answer it gives a reader, or to
a stutter. The list and the byte count are an induction of their own (`ListInv`): the list
has each kept entry once (`Without` removes a coverage, appending one puts it last), and the byte
count is the sum of their sizes, a recursive function over the list, so that evicting from its
front ends within the bound and takes off exactly what was there. The inductions are over sets
of numbers, which the library's theorem on naturals reaches without an operator as parameter.

**Merging.** `CacheInv` says of each category whether it has been merged, and of each derived
part of the cache what it is made of: what is known of the keys waits for the columns
(`KeysKnown`), and a view's columns for both (`ViewsKnown`). Two jobs whose merges touch the
same columns, keys and columns or views and columns, leave the same behind in either
order, because the later one completes what the earlier one could not.

**Details.** `DetailInv` says what a detail is on its way. `Found` is what the plan finds; the
lemma behind everything is that it is what the request denotes, since no two candidates
have one name (`FoundIsDenoted`). A coverage stands for one meaning: the object, the facet, the plan
(`SharedMeaning`), which is why a detail loaded for one request is right for another
(`HoldsRight`, `AsksRight`); a plan that leaves the spelling out of its coverage answers with the
spelling of the generation. Versions only grow, so what was read stays no older than its
generation. What is kept is no generator's, hence is right however much later it is asked for
(`KeptRight`); and a navigation's request is for what its name leads to, of which a shown
text must declare the name (`GoalRight`, `ShownRight`).

**Descriptors.** There is no step to preserve anything. A number is shown with its own digits
where they are recorded, else with the most its code can store (`ShowsNumber`), which is no
less because the engine chose the code by the digits; a text with its characters or its bytes
(`ShowsCharacters`). The readers and the renderers agree because only some facts of a row count
(`SameType`) and a descriptor keeps these (`KeepsFacts`). A foreign key's two lists pair up
by position because a strictly increasing map of n numbers into n is the identity, by counting
(`SameWidthIsIdentity`).

**Coordinator.** `NothingLeaks` needs to know whose hands are empty where: `HandsEmpty` says it
for every point of `run`, `attachIntent` and Stop, `Apart` that no connection is in two hands or
twice in the queue, and that it is closed exactly when it is in none. `QueriesLock` says that a
query which has its read lock keeps the coordinator out of the steps that replace the
connection, `MetadataFollows` that the lease about to be bound is for the attempt's own key.
`SwitchTakes` adds `SwitchInv`: what waits behind an attempt asks for something else,
since it would have coalesced (`Overtaken`); from the driver's open to the answer the
connection is the one asked for (`Carried`); and after the answer to the last switch the
coordinator has nothing else in hand (`Settled`).

**Diagnostics.** `IInv` says what `diagnosticsPublishMu` protects: past the fence the result's
generation, rules and dialect are the server's (`FenceHolds`), and the document is open or its
clearing waits for the send (`SendPrecedesClear`). The catalogue is not part of it: a lease
can publish a snapshot between fence and send, and the event that follows has the document
analysed again. That is `RestIsCurrent`, and its invariant is about promises:
every open document is owed an analysis, has one under way of what it is now, or is shown as it is
now (`Handled`), and marked work always has a wake, a signal on its way or a consumer awake
(`Wake`).

**Event hub.** As long as a watcher's knowledge is older than the snapshot, either an event
waits in its slot, or a publisher still owes one and will look at a snapshot at least as
new (`BehindIsOwed`). An older event that overwrites a newer one is harmless because the watcher
reads the current snapshot and not the event.

**Documents.** A capture of the present insertion epoch is of the document as it is, unless the
read loop has changed that document and not yet advanced the epoch (`CapturesAreCurrent`).

**Commands.** `Told` says for every point of a command what it has executed so far, which is what
its reply is made from; `Prepared` that a batch which holds the read lock is of the present
connection, and one with values of the text its prompt showed, with a method for every
statement that has values. Nobody holds the lock while a switch has it.

**Definition files.** A live process has a pid of its own, so directories of two processes
differ. A write is under the mutex and below a directory its process has listed
(`AttemptsAreListed`); the worker takes its list once nobody can hold the mutex any more
(`StoresAreOwn`), so that what is on disk is either on the list or not of this process;
files are only where their attempt put them (`FilesArePlaced`), and a published one goes
only with an idle directory (`FilesAreKept`).

**Nobody waits in vain.** `ENABLED` is out of the prover's reach, so that the two theorems
name the guards of the steps that need nobody's help (`SomethingMoves`). TLC found these
guards to hold in exactly the states in which `OnItsOwn`, or the steps in the detail
store's `AtRest`, are enabled, in all the states of the runs `stores` and `detail`.

### Only model-checked

- All liveness: `LoadsSettleAndDrain`, `EveryJobRunsNobodySpins`, `RetiredEnds`,
  `RequestsAndStopEnd`, `ConsumerReturns`; and `NobodyIsStranded` in the form with `ENABLED`.
- `CacheIsTheCatalog` as to the incremental refresh (`IncrementalIsFull`), whose scoped reads
  and replacements are compared with a full load row by row; its other part, the
  order of the jobs, is proved (`JobsMergeInAnyOrder`).
- `FindingsAreBorneOut`, `SymbolsAreWhatTheyName`: what they compare is computed by RECURSIVE
  operators, which the provers cannot expand.
- The three violations, and everything under Divergences.

## Divergences

Where the code does something else than a comment or document says. The first three
are runs; the others were found with the same models, at the lines given. Where a
passing property had to be stated more weakly, its comment says so.

1. *A detail load on a closed provider* (`metadata/lease.go:312`). A
   RefreshInBackground that swapped its loader before the store was retired calls
   `details.beginGeneration` after the finalizer fenced and drained the details, and
   opens them again; a reader then starts a load while the provider is closed.
   `metadata/registry.go:358`: "A nil return means owned metadata/native work
   drained and Provider.Close returned for every store". The server itself refreshes
   with `Lease.Refresh` only. Run `store_background`.
2. *No diagnostics after a failed attempt* (`internal/handler/diagnostics.go:98`).
   An attempt that fails has advanced `connGeneration` and bound nothing, and the
   fence refuses every result whose generation is not the bound one.
   `README.md:181`: "sqls publishes diagnostics as you edit", `README.md:214`:
   "Unused hints remain available without a catalog". Run `diag_offline`.
3. *Parents after a trigger* (`internal/sqlsymbol/diagnostic_model.go:585`).
   `excludeQueriesWithinTriggerBodies` drops queries and leaves the parents of those that
   follow, which are positions in the list, as they were: after a trigger with SQL in its
   body a nested query is its own parent, and the walk outward never ends, or its parent is
   a query that does not enclose it. `diagnostic_model.go:263-265`: "RelationScope reports
   the chain of relations visible at item position i, innermost query first: the query
   directly enclosing i, then each correlating/enclosing query outward". Run `name_scopes`.
4. *Done over a loading category* (`metadata/loader.go:517`). When the owner's
   context ends between a result and its publication, `setStatus` drops it and the
   loop counts it as settled all the same; Done closes over "Loading".
   `metadata/loader.go:25`: "Load represents logical settlement of one generation".
   `WaitersAreToldTheTruth` excludes it by `~parentDone`.
5. *Sibling loops wake each other* (`metadata/loader.go:630`). Two loops of one
   store whose host permit is held elsewhere poll: the rollback of one closes the
   epoch the other parks on. `metadata/loader.go:600-601` names the busy spin this
   was made to prevent. `EveryJobRunsNobodySpins` excepts such loops, and its comment says
   so; the second instance of `budget` has the two, which do wake each other for ever.
6. *Cancelling the registry's context* (`metadata/registry.go:122`) ends loads but
   retires nothing. `metadata/registry.go:118-119`: "canceling it is equivalent to
   calling Close".
7. *Incarnations* (`metadata/registry.go:204`). A store recreated in a scope of a
   key that another scope keeps alive has the incarnation of the store it replaces.
   `metadata/lease.go:29-30` promises "a new, strictly greater Incarnation" to a
   store recreated after every prior lease was released; `metadata/provider.go:117-118`:
   "Incarnation identifies the store instance".
8. *Refresh and Invalidate* (`metadata/lease.go:226`). An Invalidate between
   `details.beginGeneration` and `loader.Reset` leaves a fresh snapshot over stale
   details, and a background refresh the reverse (line 312). `metadata/lease.go:169`:
   "Invalidate marks this store's current data stale: detail reads return ErrStale".
9. *Detail during a Refresh* (`metadata/lease.go:227`). Between Reset and Start a
   category has no state and Detail answers ErrCategoryFailed, which lines 151-153
   reserve for Failed, Blocked or Cancelled.
10. *A lost configuration update* (`internal/handler/connection_lifecycle.go:104`).
   An update that coalesces into a pending switch is answered, and lost when that
   switch's command is cancelled; likewise one that matches the last key while another
   connection attaches.
   `docs/superpowers/specs/2026-09-23-progressive-metadata-readiness-design.md:186-187`:
   "repeated configuration updates coalesce to the latest desired state".
11. *Stopped is overwritten* (`internal/handler/handler.go:626`). A request without a
    configuration sets the state to idle, after Stop too, and over a live connection.
    `internal/handler/dispatch_test.go:37`: "terminal stopped state".
12. *The watcher of a replaced subscription stays* (`internal/handler/handler.go:873`).
    `Subscription.Close` removes the subscriber without closing its channel, so the
    goroutine waits for the server's end. `internal/handler/handler.go:871-872`: "It
    returns once sub is closed (a newer bindMetadata call replaced it)".

13. *Widths of altered relations* (`internal/sqlsymbol/width.go:440`). `sqlColumnWidth`
    reads the catalogue for the columns of a relation that the document has already
    altered; only the destination of an assignment is checked for that, so a truncation
    is reported from the old width.
    `doc/interbase-diagnostic-semantics.md:450-457`: any column fact resolved against
    such a relation "must report unknown, not the pre-invalidation column metadata".
    `FindingsHold` excepts what is said of widths where such a relation is read; in the run
    one has a column that became shorter and one that became longer.
14. *Two owners of one index group* (`metadata/merge.go:130`, `watch_merge.go:504`). A full
    load groups indexes by folded name, an incremental one by exact name;
    `CacheIsTheCatalog` exempts names that fold alike. It exempts, too, rows that were
    changed and changed back between two fingerprints, which no comparison can see.
15. *Pruned directories* (`internal/handler/snapshot_store.go`). `prune` stats a directory
    and removes it in two steps, and a process remembers the directory it made: one that
    another process found old and removed in between is written to no more.
16. *Two readers of a column* (`internal/database/interbase_cache_bulk.go:86`). The bulk
    reader gives the domain's collation where `interbase_catalog.go:127-131` speaks of the
    column's collation override; it drops the validation source and the system flag of
    the domain, and stores an effective null flag and default as the column's own. An
    index rebuilt from its descriptor has no constraint name. `DescriptorsSayWhatIsDeclared`
    compares what both readers record.
17. *Details by fold* (`internal/database/interbase_metadata_detail.go`). A plan resolves a name
    exactly, or else as the one that folds alike, and echoes the requested name; the
    consumer's comparison of the two (`language/navigation_detail.go`) cannot tell
    a fallback. A hover can show another object's statement. `DetailsAreOfTheObject`
    admits the object that alone folds to the name.
18. *Views first* (`language/navigation_target.go:119-144`). `resolveCatalogRelation` looks for a
    view by fold before it looks for a table by its exact name, so an unquoted name leads
    to a quoted mixed-case view and not to the table spelled so.
19. *Handlers after EXIT* (`internal/sqlsymbol/diagnostic_flow.go:882`). A `WHEN` handler
    that follows `EXIT` in its block is reported "statement after EXIT is unreachable",
    although an exception raised before the `EXIT` runs it.
    `diagnostic_flow.go:60-61`: "flowFindings reports only conclusions supported by
    the small procedural grammar below". `ReportMeetsTheRun` excepts runs that an exception
    diverted.
20. *A local after a procedural FROM* (`internal/sqlsymbol/resolve.go:421`). In
    `EXTRACT(YEAR FROM X)`, `TRIM` or `SUBSTRING` outside a query, `markSQLPositions` marks the
    local after FROM as a relation: references and rename miss it, and a local that is read
    nowhere else is reported as unused.
21. *Clause words as aliases* (`internal/sqlsymbol/diagnostic_names.go:43`). PLAN, NATURAL, ROWS
    and CROSS after a relation are read as its alias, so a qualifier that names the
    relation is reported as unknown.
22. *CTEs by statement* (`internal/sqlsymbol/diagnostic_model.go:511`). `cteFor` looks a name
    up in the whole statement: in `WITH T AS (SELECT NAME FROM T WHERE ID = 1) ...` the inner T
    is taken for the CTE, and ID is reported as an unknown column. The comment at
    1175-1178 relies on "standard WITH scoping".
23. *A procedure within itself* (`internal/sqlsymbol/diagnostic_model.go:374`). A DDL statement
    counts from its first semicolon on, and not before: a procedure that selects from itself
    in its first statement is reported as an unknown relation. The comment at 366-373:
    "Positions within the DDL statement's own extent (its own object name, column list, or
    body) report false".
24. *Words a rename may take* (`internal/sqlsymbol/resolve.go:620`). LIMIT, MERGE, BREAK and LEAVE
    are never names to the binder, and are not in `dialect/interbase.go`'s reserved words:
    a rename to one of them is accepted, and the next analysis finds the declaration only.
25. *Malformed procedures* (`internal/sqlsymbol/diagnostic_locals.go:71`). The exclusion of
    procedures whose `RenameBlocked` says "malformed procedure declaration" never
    applies to duplicates: "ambiguous declaration" was recorded first, and stays.
26. *Bare targets* (`internal/sqlsymbol/diagnostic_names.go:227`). `columnFindings` takes the bare
    targets of INTO for columns too: an undeclared one is reported twice, and a declared
    one that is a column of two of the sources is reported as ambiguous.

All but 25, which contradicts no property, occur in the scripts of the `diagnostics` run, and
its properties except them by name: 20 and 24 are `Overlooked` (SymbolAnalysis), 21 is
`UnderClauseWord`, 22 `BeforeItsCte`, 23 `OfOwnName` and 26 `IsBareTarget`, together
`IsMisjudged` (NameChecks). Without any one of the exceptions TLC finds the property violated.

Also seen: `identifierWidth` takes `:NAME` for a column where `identifierFact` says a
colon name never is one; the width of SUBSTRING ignores its FROM; a SELECT whose INTO
follows its FROM is not judged; `main.go` ends the process without waiting for `cleanupDone`, and
`Acquire` under `connMu` waits on the server's context, so a superseded attempt
holds up the next one for as long as the registry takes.

## Not modelled

Text and layout: the lexer, the SQL parser, the formatter, keyword tables,
completion and hover content, driver SQL and row decoding. The
structural findings of the symbol analysis, and the names it suggests. Catalogue readers of engines other than
InterBase (the detail plans of MySQL and DuckDB are modelled); of InterBase's own, system relations, generators, functions and exceptions,
which are read and merged as procedures are. The limits that make an analysis give up
without a finding. Metrics, logging and notifications, which no modelled state depends
on. Several detail stores or registries at once: they share nothing but permits.

## Plan

Done: the loader, the budget, the registry, the store, the detail store, the
coordinator, the diagnostics, the event hub, commands, documents, definition files, the
merging of the catalogue, the incremental refresh, descriptors, detail plans, flow findings, the singleton check,
assignments, name resolution, references and rename. Worth adding next: the readers of
MySQL's and DuckDB's categories; completion's choice of candidates.

Abstract specifications still worth stating: a store as "a value read after the last
Invalidate", implemented by MetadataStore; a pool that the loader's own permits and
MetadataBudget both implement, now that NativeCalls says what the permits bound.

Theorems, in order: that refinement; `IncrementalIsFull`, along the lines of
`JobsMergeInAnyOrder`, category by category.
