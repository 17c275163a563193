-------------------------------- MODULE EventHub --------------------------------
(***************************************************************************)
(* The event hub of one metadata store (metadata/events.go), those who     *)
(* publish to it (registry.go, lease.go, watch_refresh.go) and the server  *)
(* that watches it (internal/handler/handler.go).                          *)
(*                                                                         *)
(* version numbers the snapshots of the store's current loader in the      *)
(* order they become visible; an event carries the version that was        *)
(* current when its publisher looked.  A publication is as many steps as   *)
(* its sends take, and watchers receive between them; what subscribes,     *)
(* leaves or closes waits for h.mu and is one step under it.  A watcher    *)
(* ignores the content of an event: it marks every document, and their     *)
(* analyses read the current snapshot.                                     *)
(***************************************************************************)
EXTENDS Naturals

CONSTANTS
  Pubs,        \* goroutines that publish: runners of the loader, refreshes
  Subs,        \* subscriptions
  MaxVersion   \* bound on the versions

VARIABLES
  version,  \* the version of the current snapshot
  pub,      \* each publisher: [pc, ev, rest], rest the subscriptions it has yet to send to
  sub,      \* each subscription: "none" | "open" | "left" | "closed"
  slot,     \* the one-slot channel of each: 0 or the version of the unread event
  watch,    \* its watcher: "waits" | "marked" | "returned"
  seen,     \* the version its analyses read last
  hub,      \* "open" | "closed"
  hubMu     \* the publisher that holds h.mu, if one does
hubVars == <<version, pub, sub, slot, watch, seen, hub, hubMu>>

Publisher(pc, ev, rest) == [pc |-> pc, ev |-> ev, rest |-> rest]
Idle == Publisher("idle", 0, {})

HubInit ==
  /\ version = 1 /\ hub = "open" /\ hubMu = {}
  /\ pub = [p \in Pubs |-> Idle]
  /\ sub = [s \in Subs |-> "none"] /\ slot = [s \in Subs |-> 0]
  /\ watch = [s \in Subs |-> "waits"] /\ seen = [s \in Subs |-> 0]

\* A plausible mistake: a background refresh installs its loader and publishes nothing.
OwesUnlessSwapped(p) == pub' = [pub EXCEPT ![p] = IF version = 1 THEN Publisher("owes", 0, {}) ELSE Idle]
Owes(p) == pub' = [pub EXCEPT ![p] = Publisher("owes", 0, {})]

\* A loader makes a snapshot visible, or a refresh installs another loader, and
\* publishTrackEvent is called after it.
Changes(p) ==
  /\ pub[p].pc = "idle" /\ version < MaxVersion
  /\ version' = version + 1 /\ Owes(p)
  /\ UNCHANGED <<sub, slot, watch, seen, hub, hubMu>>

\* publishTrackEvent reads the snapshot of the current loader ...
Looks(p) ==
  /\ pub[p].pc = "owes" /\ pub' = [pub EXCEPT ![p] = Publisher("has", version, {})]
  /\ UNCHANGED <<version, sub, slot, watch, seen, hub, hubMu>>

\* A plausible mistake: publish copies the subscribers and sends without the lock.
LocksToCopy(p) ==
  /\ pub[p].pc = "has" /\ hubMu = {} /\ UNCHANGED hubMu
  /\ pub' = [pub EXCEPT ![p] = IF hub = "closed" THEN Idle ELSE Publisher("sends", pub[p].ev, {s \in Subs : sub[s] = "open"})]
  /\ UNCHANGED <<version, sub, slot, watch, seen, hub>>

\* ... and publishes it: a closed hub drops it, and otherwise h.mu is held to the end
\* of the last send.
Locks(p) ==
  /\ pub[p].pc = "has" /\ hubMu = {}
  /\ \/ hub = "closed" /\ pub' = [pub EXCEPT ![p] = Idle] /\ UNCHANGED hubMu
     \/ /\ hub = "open" /\ hubMu' = {p}
        /\ pub' = [pub EXCEPT ![p] = Publisher("sends", pub[p].ev, {s \in Subs : sub[s] = "open"})]
  /\ UNCHANGED <<version, sub, slot, watch, seen, hub>>

\* One turn of coalesceSend: an unread event is dropped, which its watcher may take
\* first, or the slot is free and the event is sent.
Coalesces(p) ==
  /\ pub[p].pc = "sends"
  /\ \E s \in pub[p].rest :
       \/ slot[s] # 0 /\ slot' = [slot EXCEPT ![s] = 0] /\ UNCHANGED pub
       \/ /\ slot[s] = 0 /\ slot' = [slot EXCEPT ![s] = pub[p].ev]
          /\ pub' = [pub EXCEPT ![p] = Publisher("sends", pub[p].ev, pub[p].rest \ {s})]
  /\ UNCHANGED <<version, sub, watch, seen, hub, hubMu>>

Unlocks(p) ==
  /\ pub[p].pc = "sends" /\ pub[p].rest = {}
  /\ pub' = [pub EXCEPT ![p] = Idle] /\ hubMu' = hubMu \ {p}
  /\ UNCHANGED <<version, sub, slot, watch, seen, hub>>

\* bindMetadata subscribes; the attach that called it marks every document afterwards.
Subscribes(s) ==
  /\ sub[s] = "none" /\ hubMu = {}
  /\ sub' = [sub EXCEPT ![s] = IF hub = "open" THEN "open" ELSE "closed"]
  /\ watch' = [watch EXCEPT ![s] = "marked"]
  /\ UNCHANGED <<version, pub, slot, seen, hub, hubMu>>

\* Subscription.Close: delivery stops, and the channel stays open.
Unsubscribes(s) ==
  /\ sub[s] = "open" /\ hubMu = {} /\ sub' = [sub EXCEPT ![s] = "left"]
  /\ UNCHANGED <<version, pub, slot, watch, seen, hub, hubMu>>

\* closeAll, at the end of the store's finalizer; a watcher sees its own channel only, so
\* the order in which they are closed does not show.
CloseAll ==
  /\ hub = "open" /\ hubMu = {} /\ hub' = "closed"
  /\ sub' = [s \in Subs |-> IF sub[s] = "open" THEN "closed" ELSE sub[s]]
  /\ UNCHANGED <<version, pub, slot, watch, seen, hubMu>>

\* watchMetadataEvents: an event marks every document; a closed channel, once empty,
\* ends the watcher.
WatcherTakes(s) ==
  /\ sub[s] # "none" /\ watch[s] = "waits"
  /\ \/ slot[s] # 0 /\ slot' = [slot EXCEPT ![s] = 0] /\ watch' = [watch EXCEPT ![s] = "marked"]
     \/ slot[s] = 0 /\ sub[s] = "closed" /\ watch' = [watch EXCEPT ![s] = "returned"] /\ UNCHANGED slot
  /\ UNCHANGED <<version, pub, sub, seen, hub, hubMu>>

\* The consumer of the marks reads the current snapshot.
Reads(s) ==
  /\ watch[s] = "marked" /\ watch' = [watch EXCEPT ![s] = "waits"]
  /\ seen' = [seen EXCEPT ![s] = version]
  /\ UNCHANGED <<version, pub, sub, slot, hub, hubMu>>

HubNext ==
  \/ \E p \in Pubs : Changes(p) \/ Looks(p) \/ Locks(p) \/ Coalesces(p) \/ Unlocks(p)
  \/ \E s \in Subs : Subscribes(s) \/ Unsubscribes(s) \/ WatcherTakes(s) \/ Reads(s)
  \/ CloseAll

HubSpec == HubInit /\ [][HubNext]_hubVars

HubTypeOK ==
  /\ version \in Nat \ {0} /\ hub \in {"open", "closed"}
  /\ pub \in [Pubs -> [pc : {"idle", "owes", "has", "sends"}, ev : Nat, rest : SUBSET Subs]]
  /\ hubMu \in SUBSET Pubs
  /\ sub \in [Subs -> {"none", "open", "left", "closed"}]
  /\ slot \in [Subs -> Nat] /\ seen \in [Subs -> Nat]
  /\ watch \in [Subs -> {"waits", "marked", "returned"}]

\* A subscriber with nothing left to read has read what is current, although
\* publications coalesce and may overtake one another: its event may be older than the
\* snapshot, never its wake (coalesceSend, publishTrackEvent).
WatchersCatchUp ==
  \A s \in Subs :
    sub[s] = "open" /\ watch[s] = "waits" /\ slot[s] = 0 /\ (\A p \in Pubs : pub[p].pc = "idle")
    => seen[s] = version

\* Nothing is sent to a channel that was closed, where a send ends the process, or to a
\* subscription that was given up, although a publication is at its sends while
\* watchers receive, a lease is released and the store is torn down: the subscribers
\* it found are still there at each send (publish, closeAll, unsubscribe).
NothingAfterClose ==
  [][\A s \in Subs : slot'[s] # 0 /\ slot'[s] # slot[s] => sub[s] = "open" /\ hub = "open"]_hubVars
=============================================================================
