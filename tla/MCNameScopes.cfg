SPECIFICATION NameSpec
CONSTANTS
  Delimited = {"w", "q", "u"}
  Scripts <- TriggerScripts
  Clear = {}
  Keywords <- KeywordsUsed
  SystemNames = {}
  Tables <- TableColumns
  Views <- ViewColumns
  StoredProcedures <- ProcedureOutputs
  StoredTriggers <- TriggerRelations
  Folded <- FoldedNames
INVARIANTS
  ScopesLeadOutward
