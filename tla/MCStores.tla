-------------------------------- MODULE MCStores --------------------------------
(***************************************************************************)
(* The registry of stores and what a store serves, side by side in one run *)
(* and told apart by part: the registry, the details, the descriptors, the *)
(* merging of a generation and the incremental refresh.  The first three   *)
(* have their own variables; the others share s1, s2, ..., which hold the  *)
(* variables of the part that is running.                                  *)
(***************************************************************************)
EXTENDS MetadataRegistry, DetailPlans, CatalogDescriptors, MCStoresData

CONSTANTS c1, c2, c3, k1, scope1, scope2, r1, r2

\* Callers are interchangeable.
RunSymmetry == Permutations(Callers)

VARIABLES part, s1, s2, s3, s4, s5, s6
slots == <<s1, s2, s3, s4, s5, s6>>
runVars == <<vars, detailVars, subject, part, slots>>

Merging == INSTANCE MetadataMerge WITH
  Relation <- MergeRelations, Folded <- FoldedName, Rank <- RankOfName, Generated <- {"RDB1"}, Elsewhere <- {"S"},
  Worlds <- MergeWorlds, world <- s1, wide <- s2, merged <- s3

ASSUME MergeAssumption == Merging!WorldsAreDatabases

Watch == INSTANCE WatchedRefresh WITH
  Relation <- WatchRelations, Folded <- FoldedName, Rank <- RankOfName, Generated <- {"RDB1"}, Elsewhere <- {},
  MaxDescriptors <- 12, DDL <- Statements, MaxDDL <- 2, Starts <- WatchStarts,
  db <- s1, cache <- s2, baseline <- s3, late <- s4, phase <- s5, ddls <- s6

\* FreeN: the slots from the Nth on are not used.
Free4 == s4 = 0 /\ s5 = 0 /\ s6 = 0
Free2 == s2 = 0 /\ s3 = 0 /\ Free4
Free1 == s1 = 0 /\ Free2
NoDescriptors == subject = CHOOSE s \in TriggerSubjects : TRUE
NoDetails ==
  /\ start = 0 /\ db = 0 /\ value = 0 /\ changes = 0 /\ caches = <<>> /\ loads = {}
  /\ reader = [r \in Readers |-> NoReader]

RunInit ==
  /\ Init
  /\ \/ part = "details"     /\ DetailInit /\ NoDescriptors /\ Free1
     \/ part = "descriptors" /\ DescriptorInit /\ NoDetails /\ Free1
     \/ /\ NoDetails /\ NoDescriptors
        /\ \/ part = "registry" /\ Free1
           \/ part = "merge"    /\ Merging!MergeInit /\ Free4
           \/ part = "watch"    /\ Watch!WatchInit

RunNext ==
  /\ UNCHANGED <<part, subject>>
  /\ \/ part = "registry" /\ Next       /\ UNCHANGED <<detailVars, slots>>
     \/ part = "details"  /\ DetailNext /\ UNCHANGED <<vars, slots>>
     \/ /\ UNCHANGED <<vars, detailVars>>
        /\ \/ part = "merge" /\ Merging!MergeNext /\ UNCHANGED <<s4, s5, s6>>
           \/ part = "watch" /\ Watch!WatchNext

RunSpec == RunInit /\ [][RunNext]_runVars

(***************************************************************************)
(* The properties of the parts.                                            *)
(***************************************************************************)

\* What the cache holds does not show how it came about: neither the order of the
\* jobs (mergeMetadata) nor that it was refreshed in part (MergeObjects); see
\* MetadataMerge and WatchedRefresh.
CacheIsTheCatalog ==
  /\ part = "merge" => Merging!MergedInAnyOrder
  /\ part = "watch" => Watch!IncrementalIsFull
=============================================================================
