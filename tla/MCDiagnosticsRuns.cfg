SPECIFICATION RunSpec
CONSTANTS
  d1 = d1
  Prepared <- PreparedScripts
  Docs = {1}
  Dialects = {d1}
  MaxRevision = 2
  MaxPolicy = 1
  MaxGeneration = 1
  MaxCatalog = 1
  MayStop = TRUE
INVARIANTS
  ClosedIsCleared
  RestIsCurrent
  FindingsAreBorneOut
  SymbolsAreWhatTheyName
PROPERTIES
  SentWhileCurrent
  ConsumerReturns
