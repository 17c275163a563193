---------------------------- MODULE DetailPromise ----------------------------
(***************************************************************************)
(* What the detail store of a metadata store promises its readers          *)
(* (metadata/details.go: detailStore), without its cache, its sharing of   *)
(* loads and its byte bound.                                               *)
(*                                                                         *)
(* A fence is whatever makes earlier answers worthless: beginGeneration or *)
(* markStale.  A value remembers the coverage it was loaded for and how    *)
(* many fences had been raised when its load started and when it ended.    *)
(***************************************************************************)
EXTENDS Naturals

CONSTANTS Readers, Coverages, MaxGen, MaxFences

VARIABLES generation, stale, fence, request

vars == <<generation, stale, fence, request>>

Value(c, f) == [out |-> "value", coverage |-> c, from |-> f, until |-> f]
Verdict(o) == [out |-> o]
Nobody == [at |-> "idle"]

Init ==
  /\ generation = 1 /\ stale = FALSE /\ fence = 0
  /\ request = [r \in Readers |-> Nobody]

BeginGeneration ==
  /\ generation < MaxGen /\ fence < MaxFences
  /\ generation' = generation + 1 /\ stale' = FALSE /\ fence' = fence + 1
  /\ UNCHANGED request

MarkStale ==
  /\ fence < MaxFences
  /\ stale' = TRUE /\ fence' = fence + 1
  /\ UNCHANGED <<generation, request>>

\* A request is refused exactly when the store is stale or has moved to another
\* generation than the one whose catalogue the reader holds.
Ask(r, c, g) ==
  /\ request[r].at # "waiting"
  /\ request' = [request EXCEPT ![r] =
                   IF stale \/ g # generation THEN [at |-> "answered", answer |-> Verdict("stale")]
                   ELSE [at |-> "waiting", coverage |-> c, fence |-> fence]]
  /\ UNCHANGED <<generation, stale, fence>>

\* The answer is a value loaded for this coverage, from start to end under the
\* fence the request saw, a failure of the load, or stale when a fence was raised meanwhile.
Answer(r) ==
  /\ request[r].at = "waiting"
  /\ \E a \in {Value(request[r].coverage, request[r].fence), Verdict("failed"), Verdict("limit")}
             \union {Verdict(o) : o \in IF fence > request[r].fence THEN {"stale"} ELSE {}} :
       request' = [request EXCEPT ![r] = [at |-> "answered", answer |-> a]]
  /\ UNCHANGED <<generation, stale, fence>>

\* The reader's own context ends.
Withdraw(r) ==
  /\ request[r].at = "waiting"
  /\ request' = [request EXCEPT ![r] = Nobody]
  /\ UNCHANGED <<generation, stale, fence>>

Next ==
  \/ BeginGeneration \/ MarkStale
  \/ \E r \in Readers, c \in Coverages, g \in 1..MaxGen : Ask(r, c, g)
  \/ \E r \in Readers : Answer(r) \/ Withdraw(r)

Spec == Init /\ [][Next]_vars
=============================================================================
