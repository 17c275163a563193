------------------------- MODULE MCMetadataStoreRuns -------------------------
(***************************************************************************)
(* Two instances of MetadataStore side by side, told apart by part: with   *)
(* the two replacing operations the server uses and a reader, whose load   *)
(* the finalizer has to wait for, and with all three operations and no     *)
(* reader.                                                                 *)
(***************************************************************************)
EXTENDS MetadataStore

VARIABLE part

All == INSTANCE MetadataStore WITH Ops <- {"refresh", "background", "maintain"}, Readers <- {},
                                   MaxSchema <- 2, MaxInvalidations <- 2

RunInit ==
  \/ part = "replacements" /\ All!Init
  \/ part = "ends" /\ Init

RunNext ==
  /\ UNCHANGED part
  /\ \/ part = "replacements" /\ All!Next
     \/ part = "ends" /\ Next

RunSpec ==
  /\ RunInit /\ [][RunNext]_<<vars, part>>
  /\ \A l \in Loaders : WF_vars(part = "ends" /\ Loading(l))
  /\ WF_vars(part = "ends" /\ InvalidateLoader) /\ WF_vars(part = "ends" /\ InvalidateDetails)
  /\ WF_vars(part = "ends" /\ OpStep) /\ WF_vars(part = "ends" /\ Finalizer)
  /\ \A r \in Readers : WF_vars(part = "ends" /\ DetailStep(r))

\* A retired store is finalized, whatever operation it interrupts, and keeps its types.
RetiredEnds == part = "ends" => []TypeOK /\ RetiredIsFinalized

=============================================================================
