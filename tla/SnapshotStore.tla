----------------------------- MODULE SnapshotStore -----------------------------
(***************************************************************************)
(* The files go-to-definition writes for objects that exist only in the    *)
(* database (internal/handler/snapshot_store.go) and their publication     *)
(* (editor_snapshot.go, definition.go).                                    *)
(*                                                                         *)
(* Several sqls processes share one root.  A directory is named by the     *)
(* connection and the pid of its process; below it every attempt has a     *)
(* directory of its own, which holds one file.  A step is a critical       *)
(* section of the store's mutex, one file system call, or the publication  *)
(* fence.  Attempts are callers of the store: the server runs one at a     *)
(* time, the store allows any number.  Content, banners and the escaping   *)
(* of names are left out.  A directory is old once nothing was written to  *)
(* it for snapshotMaxAge.                                                  *)
(***************************************************************************)
EXTENDS Naturals, FiniteSets

CONSTANTS
  Procs,     \* server processes, one after another under one name after a crash
  Attempts,  \* the numbers, from 1, of the attempts each process may make
  Followed,  \* the processes that switch connections and stop
  Conns,     \* connection identities
  Pids,
  MaxConnGeneration,   \* bound on the connection generation of a process
  MaxCrash             \* bound on crashes

NoDir == <<0, 0>>
Nobody == 0
Dirs == Pids \X Conns

ASSUME SnapshotAssumption ==
  /\ Attempts \in [Procs -> SUBSET (Nat \ {Nobody})] /\ Followed \subseteq Procs
  /\ Conns # {} /\ NoDir \notin Dirs

VARIABLES
  disk,     \* the directories on disk: the attempts whose file is below each
  old,      \* the directories nothing was written to for snapshotMaxAge
  pid,      \* the pid of each process
  conn, connGeneration,     \* the connection of each process and its generation
  bound,    \* whether its metadata lease is bound
  store,    \* [dir, generation, pruned, created, down] of each process
  mu,       \* the attempt that holds the store's mutex, or Nobody
  todo,     \* the directories the pruning of a process has still to look at
  victim,   \* the one it found old and is about to remove
  cleanup,  \* the cleanup worker: "no" | "asked" | "removing" | "done"
  att,      \* [pc, generation, conn, dir] of each attempt
  idled,    \* the directories that were old at some time
  crashes
storeVars == <<disk, old, pid, conn, connGeneration, bound, store, mu, todo, victim, cleanup, att, idled, crashes>>

EmptyStore == [dir |-> NoDir, generation |-> 0, pruned |-> FALSE, created |-> {}, down |-> FALSE]
Fresh == [pc |-> "idle", generation |-> 0, conn |-> CHOOSE c \in Conns : TRUE, dir |-> NoDir]

StoreInit ==
  /\ disk = [d \in {} |-> {}] /\ old = {} /\ idled = {} /\ crashes = 0
  /\ pid \in {f \in [Procs -> Pids] : \A p, q \in Procs : f[p] = f[q] => p = q}
  /\ conn \in [Procs -> Conns]
  /\ connGeneration = [p \in Procs |-> 1] /\ bound = [p \in Procs |-> TRUE]
  /\ store = [p \in Procs |-> EmptyStore]
  /\ mu = [p \in Procs |-> Nobody] /\ todo = [p \in Procs |-> {}] /\ victim = [p \in Procs |-> NoDir]
  /\ cleanup = [p \in Procs |-> "no"]
  /\ att = [p \in Procs |-> [a \in Attempts[p] |-> Fresh]]

At(p, a, s) == att[p][a].pc = s
Goes(p, a, s) == att' = [att EXCEPT ![p][a].pc = s]
Without(d) == [e \in DOMAIN disk \ {d} |-> disk[e]]

\* A definition request has captured the snapshot of the editor, and the service has
\* read the source through the lease.  write first looks at the flag without the mutex.
Begin(p, a) ==
  /\ At(p, a, "idle") /\ bound[p]
  /\ att' = [att EXCEPT ![p][a] = [pc |-> IF store[p].down THEN "gone" ELSE "wants",
                                   generation |-> connGeneration[p], conn |-> conn[p], dir |-> NoDir]]
  /\ UNCHANGED <<disk, old, pid, conn, connGeneration, bound, store, mu, todo, victim, cleanup, idled, crashes>>

\* A plausible mistake: the flag is looked at once, before the mutex.
StillOpenUnchecked(p) == TRUE
StillOpen(p) == ~store[p].down

\* The mutex is taken, and the flag looked at again.  pruneLocked, once per store, lists
\* the directories of other pids ...
Lock(p, a) ==
  /\ At(p, a, "wants") /\ mu[p] = Nobody
  /\ IF StillOpen(p)
       THEN /\ mu' = [mu EXCEPT ![p] = a] /\ Goes(p, a, "pruning")
            /\ todo' = [todo EXCEPT ![p] = IF store[p].pruned THEN {} ELSE {d \in DOMAIN disk : d[1] # pid[p]}]
            /\ store' = [store EXCEPT ![p].pruned = TRUE]
       ELSE Goes(p, a, "gone") /\ UNCHANGED <<mu, todo, store>>
  /\ UNCHANGED <<disk, old, pid, conn, connGeneration, bound, victim, cleanup, idled, crashes>>

\* A plausible mistake: every directory of another process is pruned.
StaleOfAnyAge(d) == d \in DOMAIN disk
Stale(d) == d \in DOMAIN disk /\ d \in old

\* ... one at a time: their age is read ...
PruneLooks(p, a, d) ==
  /\ At(p, a, "pruning") /\ d \in todo[p] /\ victim[p] = NoDir
  /\ todo' = [todo EXCEPT ![p] = @ \ {d}]
  /\ victim' = [victim EXCEPT ![p] = IF Stale(d) THEN d ELSE NoDir]
  /\ UNCHANGED <<disk, old, pid, conn, connGeneration, bound, store, mu, cleanup, att, idled, crashes>>

\* ... and the old ones removed, whatever was written to them since.
PruneRemoves(p, a) ==
  /\ At(p, a, "pruning") /\ victim[p] # NoDir
  /\ disk' = Without(victim[p]) /\ victim' = [victim EXCEPT ![p] = NoDir]
  /\ UNCHANGED <<old, pid, conn, connGeneration, bound, store, mu, todo, cleanup, att, idled, crashes>>

\* connectionDirLocked: the directory of this generation is remembered, without another
\* look at the disk.
ConnectionDir(p, a) ==
  /\ At(p, a, "pruning") /\ todo[p] = {} /\ victim[p] = NoDir
  /\ LET d == <<pid[p], att[p][a].conn>> IN
     IF store[p].dir # NoDir /\ store[p].generation = att[p][a].generation
       THEN att' = [att EXCEPT ![p][a].pc = "base", ![p][a].dir = store[p].dir] /\ UNCHANGED <<disk, old, store>>
       ELSE /\ att' = [att EXCEPT ![p][a].pc = "base", ![p][a].dir = d]
            /\ disk' = IF d \in DOMAIN disk THEN disk ELSE [e \in DOMAIN disk \cup {d} |-> IF e = d THEN {} ELSE disk[e]]
            /\ old' = IF d \in DOMAIN disk THEN old ELSE old \ {d}
            /\ store' = [store EXCEPT ![p] = [store[p] EXCEPT !.dir = d, !.generation = att[p][a].generation,
                                                              !.created = @ \cup {d}]]
  /\ UNCHANGED <<pid, conn, connGeneration, bound, mu, todo, victim, cleanup, idled, crashes>>

\* MkdirTemp, the file, its mode and the time of the directory, in one step: any of them
\* may fail, and MkdirTemp does if the directory was pruned.  A failure removes what was
\* begun.  A crash between them leaves the directory with a file that nobody publishes, as
\* a crash before or after them does, and cleanup takes the directory whatever is in it.
WriteFile(p, a) ==
  /\ At(p, a, "base") /\ mu' = [mu EXCEPT ![p] = Nobody]
  /\ LET d == att[p][a].dir IN
     \/ d \in DOMAIN disk /\ Goes(p, a, "written") /\ disk' = [disk EXCEPT ![d] = @ \cup {<<p, a>>}] /\ old' = old \ {d}
     \/ d \in DOMAIN disk /\ Goes(p, a, "gone") /\ old' = old \ {d} /\ UNCHANGED disk
     \/ Goes(p, a, "gone") /\ UNCHANGED <<disk, old>>
  /\ UNCHANGED <<pid, conn, connGeneration, bound, store, todo, victim, cleanup, idled, crashes>>

FenceOpen(p, a) == connGeneration[p] = att[p][a].generation /\ conn[p] = att[p][a].conn /\ bound[p]

\* publishDefinitionCandidate: under stateMu what was captured is compared with what is
\* current; the document or the catalogue may have changed too.
Publish(p, a) ==
  /\ At(p, a, "written")
  /\ \/ FenceOpen(p, a) /\ Goes(p, a, "published")
     \/ Goes(p, a, "stale")
  /\ UNCHANGED <<disk, old, pid, conn, connGeneration, bound, store, mu, todo, victim, cleanup, idled, crashes>>

\* A plausible mistake: the directory of the connection is removed with the candidate.
RemovedWithSiblings(p, a) == Without(att[p][a].dir)
Removed(p, a) ==
  LET d == att[p][a].dir IN IF d \in DOMAIN disk THEN [disk EXCEPT ![d] = @ \ {<<p, a>>}] ELSE disk

\* removeCandidate.
RemoveCandidate(p, a) ==
  /\ At(p, a, "stale") /\ mu[p] = Nobody
  /\ disk' = Removed(p, a) /\ Goes(p, a, "gone")
  /\ UNCHANGED <<old, pid, conn, connGeneration, bound, store, mu, todo, victim, cleanup, idled, crashes>>

\* Another connection attempt: a generation, perhaps another identity.
Switch(p, c) ==
  /\ connGeneration[p] < MaxConnGeneration /\ cleanup[p] = "no"
  /\ connGeneration' = [connGeneration EXCEPT ![p] = @ + 1] /\ conn' = [conn EXCEPT ![p] = c]
  /\ UNCHANGED <<disk, old, pid, bound, store, mu, todo, victim, cleanup, att, idled, crashes>>

\* Server.Stop: the lease goes, BeginShutdown, and the cleanup worker is asked to finish.
Stop(p) ==
  /\ cleanup[p] = "no"
  /\ bound' = [bound EXCEPT ![p] = FALSE] /\ store' = [store EXCEPT ![p].down = TRUE]
  /\ cleanup' = [cleanup EXCEPT ![p] = "asked"]
  /\ UNCHANGED <<disk, old, pid, conn, connGeneration, mu, todo, victim, att, idled, crashes>>

\* RemoveAll by the worker: the list under the mutex, the removal without it.
RemoveAll(p) ==
  \/ /\ cleanup[p] = "asked" /\ mu[p] = Nobody
     /\ cleanup' = [cleanup EXCEPT ![p] = "removing"]
     /\ todo' = [todo EXCEPT ![p] = store[p].created]
     /\ store' = [store EXCEPT ![p] = [EmptyStore EXCEPT !.pruned = store[p].pruned, !.down = store[p].down]]
     /\ UNCHANGED <<disk, old, pid, conn, connGeneration, bound, mu, victim, att, idled, crashes>>
  \/ /\ cleanup[p] = "removing"
     /\ IF todo[p] = {}
          THEN cleanup' = [cleanup EXCEPT ![p] = "done"] /\ UNCHANGED <<disk, todo>>
          ELSE \E d \in todo[p] :
                 disk' = Without(d) /\ todo' = [todo EXCEPT ![p] = @ \ {d}] /\ UNCHANGED cleanup
     /\ UNCHANGED <<old, pid, conn, connGeneration, bound, store, mu, victim, att, idled, crashes>>

\* Nothing is written to a directory for snapshotMaxAge.
Ages(d) ==
  /\ d \in DOMAIN disk \ old /\ old' = old \cup {d} /\ idled' = idled \cup {d}
  /\ UNCHANGED <<disk, pid, conn, connGeneration, bound, store, mu, todo, victim, cleanup, att, crashes>>

\* A process dies, at any point, and another is started, under a pid that is free.
Crash(p, n) ==
  /\ crashes < MaxCrash /\ crashes' = crashes + 1 /\ \A q \in Procs \ {p} : pid[q] # n
  /\ pid' = [pid EXCEPT ![p] = n] /\ connGeneration' = [connGeneration EXCEPT ![p] = 1] /\ bound' = [bound EXCEPT ![p] = TRUE]
  /\ store' = [store EXCEPT ![p] = EmptyStore] /\ mu' = [mu EXCEPT ![p] = Nobody]
  /\ todo' = [todo EXCEPT ![p] = {}] /\ victim' = [victim EXCEPT ![p] = NoDir]
  /\ cleanup' = [cleanup EXCEPT ![p] = "no"] /\ att' = [att EXCEPT ![p] = [a \in Attempts[p] |-> Fresh]]
  /\ disk' = [d \in DOMAIN disk |-> disk[d] \ {x \in disk[d] : x[1] = p}]
  /\ UNCHANGED <<old, conn, idled>>

StoreNext ==
  \/ \E p \in Procs : \E a \in Attempts[p] :
       Begin(p, a) \/ Lock(p, a) \/ (\E d \in Dirs : PruneLooks(p, a, d)) \/ PruneRemoves(p, a)
       \/ ConnectionDir(p, a) \/ WriteFile(p, a) \/ Publish(p, a) \/ RemoveCandidate(p, a)
  \/ \E p \in Followed : Stop(p) \/ RemoveAll(p) \/ (\E c \in Conns : Switch(p, c))
  \/ \E p \in Procs, n \in Pids : Crash(p, n)
  \/ \E d \in Dirs : Ages(d)

StoreSpec == StoreInit /\ [][StoreNext]_storeVars

StoreTypeOK ==
  /\ DOMAIN disk \subseteq Dirs /\ \A d \in DOMAIN disk : \A x \in disk[d] : x[2] \in Attempts[x[1]]
  /\ old \subseteq idled /\ idled \subseteq Dirs
  /\ pid \in [Procs -> Pids] /\ conn \in [Procs -> Conns] /\ \A p \in Procs : mu[p] \in Attempts[p] \cup {Nobody}
  /\ victim \in [Procs -> Dirs \cup {NoDir}] /\ todo \in [Procs -> SUBSET Dirs]

OnDisk(p, a) == \E d \in DOMAIN disk : <<p, a>> \in disk[d]

\* What the client was given stays on disk until its process cleans up, unless its
\* directory was idle long enough to be pruned; what it was not given is removed by
\* whoever wrote it; and when the cleanup is done nothing of the process is left,
\* whatever was being written when Stop came (writeCandidate, removeCandidate,
\* pruneLocked, RemoveAll).
SnapshotsAccounted ==
  /\ StoreTypeOK
  /\ \A p \in Procs : \A a \in Attempts[p] :
       /\ At(p, a, "published") /\ cleanup[p] \in {"no", "asked"} /\ ~OnDisk(p, a) => att[p][a].dir \in idled
       /\ att[p][a].pc \in {"idle", "wants", "gone"} => ~OnDisk(p, a)
       /\ cleanup[p] = "done" => att[p][a].dir \notin DOMAIN disk
=============================================================================
