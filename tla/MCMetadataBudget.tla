-------------------------- MODULE MCMetadataBudget --------------------------
(***************************************************************************)
(* Two instances over one host permit, told apart by who starts.  Two      *)
(* loops on two stores, a job each, and a detail load compete, and their   *)
(* native calls return.  Or two loops of one store, two jobs each, start   *)
(* while a load of another store is in its native call, which does not     *)
(* return: in each pass both levels may be full, and the loops can wake    *)
(* each other for ever.                                                    *)
(***************************************************************************)
EXTENDS MetadataBudget

CONSTANTS l1, l2, l3, l4, d1, s1, s2, s3

MCStoreOf == [x \in Schedulers \union Loads |-> CASE x \in {l1, d1} -> s1 [] x = l2 -> s2 [] OTHER -> s3]
MCJobsOf == [l \in Schedulers |-> IF l \in {l3, l4} THEN 2 ELSE 1]

\* Bound on the starts and on the return of that call, which are nobody's duty.
Off(ls) == \A l \in ls : pc[l] = "off"
Bounds ==
  /\ Off({l1, l2}) \/ Off({l3, l4})
  /\ load[d1] = "loading" \/ Off({l3, l4})
  /\ Off({l1}) => Off({l2})

RunNext == Next /\ Bounds'

\* GoroutineFairness, for those who run: of l1 and l3 one is off, and of l2 and l4.
RunSpec ==
  /\ Init /\ [][RunNext]_vars
  /\ WF_vars(LoopStep(l1) \/ LoopStep(l3)) /\ WF_vars(LoopStep(l2) \/ LoopStep(l4))
  /\ WF_vars(RunnerGivesBack(l1, 1)) /\ WF_vars(RunnerGivesBack(l2, 1))
  /\ SF_vars(LoadStep(d1))
=============================================================================
