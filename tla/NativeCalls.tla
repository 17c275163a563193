----------------------------- MODULE NativeCalls -----------------------------
(***************************************************************************)
(* What the permits of metadata/budget.go are for, without permits, epochs *)
(* and the order in which they are taken: how many native calls may be in  *)
(* flight, on the host and on each store.                                  *)
(*                                                                         *)
(* A caller makes one call.  It waits, then it is calling, then it is over *)
(* with it; it may be over without having called, when its context ends.   *)
(***************************************************************************)
EXTENDS Naturals, FiniteSets

CONSTANTS
  Callers,    \* jobs and detail loads
  StoreOf,    \* StoreOf[c]: the store that c calls
  HostCap,    \* calls in flight on the host
  StoreCap    \* calls in flight on one store

VARIABLE call

Calling(cs) == {c \in cs : call[c] = "calling"}
SameStore(c) == {d \in Callers : StoreOf[d] = StoreOf[c]}

Init == call = [c \in Callers |-> "waiting"]

\* There must be room for one more call, counting those whose context has ended.
Begin(c) ==
  /\ call[c] = "waiting"
  /\ Cardinality(Calling(Callers)) < HostCap
  /\ Cardinality(Calling(SameStore(c))) < StoreCap
  /\ call' = [call EXCEPT ![c] = "calling"]

Return(c) == call[c] = "calling" /\ call' = [call EXCEPT ![c] = "over"]

\* The contexts of some who wait end: they will not call any more.
GiveUp ==
  LET gone == {c \in Callers : call'[c] # call[c]} IN
    /\ \A c \in gone : call[c] = "waiting"
    /\ call' = [c \in Callers |-> IF c \in gone THEN "over" ELSE call[c]]

Next ==
  \/ \E c \in Callers : Begin(c) \/ Return(c)
  \/ GiveUp

Spec == Init /\ [][Next]_call
=============================================================================
