---------------------------- MODULE MCDetailStore ----------------------------
(* Two kept coverages, of which one can be too large to keep, and a volatile one. *)
EXTENDS DetailStore, TLC

CONSTANTS r1, r2, c1, c2, v

\* Readers are interchangeable.
ReaderSymmetry == Permutations(Readers)

MCWeights == (c1 :> {2}) @@ (c2 :> {2, 3}) @@ (v :> {2})
=============================================================================
