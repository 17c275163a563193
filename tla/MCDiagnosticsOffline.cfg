SPECIFICATION Spec
CONSTANTS
  Docs = {1}
  Dialects = {d1}
  MaxRevision = 2
  MaxPolicy = 0
  MaxGeneration = 1
  MaxCatalog = 0
  MayStop = FALSE
INVARIANT RestIsPublished
